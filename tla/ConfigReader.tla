---------------------------- MODULE ConfigReader ----------------------------
(***************************************************************************)
(* ConfigMirror together with the REST API's GetTestConfig, which reads    *)
(* three of the four keys of a test one after the other while the          *)
(* controller writes and deletes them.                                     *)
(***************************************************************************)
EXTENDS ConfigMirror

VARIABLES
    rpc,       \* the next read of the request
    gotJson,   \* the json it has read
    gotRaw     \* the raw spec it has read

readerVars == <<rpc, gotJson, gotRaw>>
readVars == <<vars, readerVars>>

\* The types of the reader's variables.
ReaderTypeOK ==
    /\ rpc \in {"json", "raw", "status"}
    /\ gotJson \in ConfigValues \cup {Nil}
    /\ gotRaw \in RawValues \cup {Nil}

ReaderInit == Init /\ rpc = "json" /\ gotJson = Nil /\ gotRaw = Nil

\* The request is answered, with an error or with what was read.
Respond == rpc' = "json" /\ gotJson' = Nil /\ gotRaw' = Nil

\* A request begins with this read.  A key that is absent answers 404.
ReadJson ==
    /\ rpc = "json" /\ json # Nil
    /\ rpc' = "raw" /\ gotJson' = json /\ UNCHANGED gotRaw
    /\ UNCHANGED vars

ReadRaw ==
    /\ rpc = "raw"
    /\ IF raw = Nil THEN Respond
       ELSE rpc' = "status" /\ gotRaw' = raw /\ UNCHANGED gotJson
    /\ UNCHANGED vars

\* The answer is the pair read before, or 404.
ReadStatus == rpc = "status" /\ Respond /\ UNCHANGED vars

\* A read that fails, retries included, answers 500.
ReadFails == rpc # "json" /\ Respond /\ UNCHANGED vars

\* Faulty variant: the raw spec is read before the json.
GetTestConfigSwapped ==
    \/ rpc = "json" /\ raw # Nil /\ rpc' = "raw" /\ gotRaw' = raw /\ UNCHANGED <<vars, gotJson>>
    \/ rpc = "raw" /\ json # Nil /\ rpc' = "status" /\ gotJson' = json /\ UNCHANGED <<vars, gotRaw>>
    \/ ReadStatus \/ ReadFails

GetTestConfig == ReadJson \/ ReadRaw \/ ReadStatus \/ ReadFails

ReaderSpec == ReaderInit /\ [][(Next /\ UNCHANGED readerVars) \/ GetTestConfig]_readVars

\* Between two periodic syncs.  Nothing is assumed of the REST API's clients.
ReconcilerReaderSpec ==
    /\ ReaderInit
    /\ [][(ReconcilerNext /\ UNCHANGED readerVars) \/ GetTestConfig]_readVars
    /\ ReconcilerFairness
-----------------------------------------------------------------------------
\* The raw spec GetTestConfig answers with is never older than the config next to it,
\* though the controller may update, delete and recreate the test between the reads: the
\* keys are read in the order opposite to the one they are written in.
RawNotOlderThanConfig == gotJson # Nil /\ gotRaw # Nil => gotJson.gen <= gotRaw.gen

\* The inductive strengthening: the json a request holds is no newer than the raw spec,
\* than any raw spec Reconcile may still write, and than the raw spec read after it.
ReaderHolds ==
    /\ gotRaw # Nil => rpc = "status"
    /\ AtMost(gotJson, cache.gen)
    /\ pc[Reconciler] # "idle" => AtMost(gotJson, inst.gen)
    /\ gotJson # Nil /\ raw # Nil => gotJson.gen <= raw.gen
    /\ RawNotOlderThanConfig

ReaderInv == WriteOrderInv /\ ReaderHolds
=============================================================================
