--------------------------- MODULE PrometheusGauges ---------------------------
(***************************************************************************)
(* What the agent's Prometheus exporter does with the test runs it         *)
(* receives: it sets the gauges of the marks, of the maximum marks and of  *)
(* the runtime one after the other, then the gauges the test reports       *)
(* itself.  A gauge is created with the label names of its first value and *)
(* keeps them; the client library panics on a value with other names.      *)
(* Each change of the tests makes the exporter forget all values, but runs *)
(* published before it may still wait in one of two channels, that of the  *)
(* broadcaster and the exporter's own.                                     *)
(*                                                                         *)
(* A test run carries the number of its publication.  The value of a gauge *)
(* is the run it came from; its labels are their names.  Starting and      *)
(* stopping the exporter are in AgentLoop.                                 *)
(***************************************************************************)
EXTENDS Naturals, Sequences, FiniteSets

CONSTANTS
    Nil,
    Tests,
    Configs,      \* the configurations a test may have
    MetricsOf,    \* per configuration: the gauges its runs report, [name, labels] in order
    Names,        \* label names
    CleanName,    \* what cleanMetricName makes of a reported name
    LabelSets,    \* the label names the agent may be configured with
    BadTemplate,  \* ... those whose template does not parse
    BadName,      \* the names that do not match the label regex
    Reserved,     \* the names that do, but the library keeps for itself ("__...")
    BadValue,     \* the names whose value may not be UTF-8
    PubSize,      \* BroadcasterPublishChannelSize
    ChanSize,     \* DefaultChannelSize
    MaxRuns,      \* bound: how many runs are published
    MaxChanges    \* bound: how often tests are started, changed or stopped

DefaultGauges == {"marks", "max", "runtime"}
TestLabels == {"test_name", "test_namespace"}
ConfigChangeSize == 2

MetricNames == UNION {{MetricsOf[c][i].name : i \in DOMAIN MetricsOf[c]} : c \in Configs}
Gauges == DefaultGauges \cup {CleanName[m] : m \in MetricNames}
OwnLabels(c, i) == MetricsOf[c][i].labels

ASSUME MetricAssumption ==
    /\ MaxRuns \in Nat /\ PubSize \in Nat /\ ChanSize \in Nat /\ MaxChanges \in Nat /\ Nil \notin Configs
    /\ \A c \in Configs : \A k \in DOMAIN MetricsOf[c] :
           k \in Nat /\ OwnLabels(c, k) \in {Nil} \cup SUBSET Names
    /\ LabelSets \subseteq SUBSET Names /\ TestLabels \subseteq Names
    /\ \A S \in SUBSET Names : S # Nil
    /\ TestLabels \cap (BadName \cup Reserved \cup BadValue) = {}

VARIABLES
    labels,         \* the label names of the agent's configuration
    config,         \* the configuration each test runs with, or Nil
    configChanged,  \* the main loop has yet to send what SyncConfig returned
    configChange,   \* signals in the channel
    changes, published,
    testRunPubCh,   \* the runs the broadcaster has yet to deliver
    resChan,        \* the exporter's subscription
    epc,            \* the exporter's next step
    run, keys, i,   \* the run it exports, the rendered labels, the reported gauge
    gauges,         \* the label names each gauge was created with, or Nil
    series,         \* the runs whose values each gauge shows
    used,           \* history: the configurations of the runs exported so far
    inFlight        \* history: the runs in the two channels at the last Cleanup

agentVars == <<labels, config, configChanged, configChange, changes, published>>
exporterVars == <<epc, run, keys, i, gauges, series, used, inFlight>>
channels == <<testRunPubCh, resChan>>
gaugeVars == <<agentVars, channels, exporterVars>>

Runs == [test: Tests, config: Configs, n: 1..MaxRuns]
Steps == {"select", "marks", "max", "runtime", "render", "custom", "panicked"}

\* The types of the variables.
GaugesTypeOK ==
    /\ labels \in LabelSets /\ config \in [Tests -> Configs \cup {Nil}]
    /\ configChanged \in BOOLEAN /\ configChange \in 0..ConfigChangeSize
    /\ changes \in 0..MaxChanges /\ published \in 0..MaxRuns
    /\ testRunPubCh \in Seq(Runs) /\ resChan \in Seq(Runs) /\ epc \in Steps /\ run \in Runs \cup {Nil}
    /\ keys \in SUBSET Names /\ i \in Nat
    /\ gauges \in [Gauges -> {Nil} \cup SUBSET Names] /\ series \in [Gauges -> SUBSET Runs]
    /\ used \subseteq Configs /\ inFlight \subseteq 1..MaxRuns

GaugesInit ==
    /\ labels \in LabelSets /\ config = [t \in Tests |-> Nil]
    /\ configChanged = FALSE /\ configChange = 0 /\ changes = 0 /\ published = 0
    /\ testRunPubCh = <<>> /\ resChan = <<>> /\ epc = "select" /\ run = Nil /\ keys = {} /\ i = 0
    /\ gauges = [g \in Gauges |-> Nil] /\ series = [g \in Gauges |-> {}]
    /\ used = {} /\ inFlight = {}
-----------------------------------------------------------------------------
(* The main loop and the test routines, until a panic ends the agent. *)

Up == epc # "panicked"

\* SyncConfig starts a test, stops it, or replaces its configuration.
SyncTest(t) ==
    /\ Up /\ changes < MaxChanges
    /\ \E c \in (Configs \cup {Nil}) \ {config[t]} : config' = [config EXCEPT ![t] = c]
    /\ configChanged' = TRUE /\ changes' = changes + 1
    /\ UNCHANGED <<labels, configChange, published, channels, exporterVars>>

NotifyPrometheus ==
    /\ Up /\ configChanged /\ configChange < ConfigChangeSize
    /\ configChanged' = FALSE /\ configChange' = configChange + 1
    /\ UNCHANGED <<labels, config, changes, published, channels, exporterVars>>

\* A routine publishes with the configuration it was started with: SyncConfig waits for it
\* to return before it starts another.
PublishTestRun(t) ==
    /\ Up /\ config[t] # Nil /\ published < MaxRuns
    /\ Len(testRunPubCh) < PubSize
    /\ published' = published + 1
    /\ testRunPubCh' = Append(testRunPubCh, [test |-> t, config |-> config[t], n |-> published + 1])
    /\ UNCHANGED <<labels, config, configChanged, configChange, changes, resChan, exporterVars>>

\* The broadcaster delivers a run, or drops it if the exporter's channel is full.
Deliver ==
    /\ Up /\ testRunPubCh # <<>>
    /\ testRunPubCh' = Tail(testRunPubCh)
    /\ resChan' = IF Len(resChan) < ChanSize THEN Append(resChan, Head(testRunPubCh)) ELSE resChan
    /\ UNCHANGED <<agentVars, exporterVars>>
-----------------------------------------------------------------------------
(* PrometheusExporter.Run. *)

Waiting == {testRunPubCh[k].n : k \in DOMAIN testRunPubCh} \cup {resChan[k].n : k \in DOMAIN resChan}

\* Faulty variant: only the agent's own gauges are reset.
CleanupDefaults ==
    /\ epc = "select" /\ configChange > 0
    /\ configChange' = configChange - 1
    /\ series' = [g \in Gauges |-> IF g \in DefaultGauges THEN {} ELSE series[g]]
    /\ inFlight' = Waiting
    /\ UNCHANGED <<labels, config, configChanged, changes, published, channels,
                   epc, run, keys, i, gauges, used>>

Cleanup ==
    /\ epc = "select" /\ configChange > 0
    /\ configChange' = configChange - 1
    /\ series' = [g \in Gauges |-> {}]
    /\ inFlight' = Waiting
    /\ UNCHANGED <<labels, config, configChanged, changes, published, channels,
                   epc, run, keys, i, gauges, used>>

\* The labels rendering stops at.
StoppedAt == labels \cap (BadTemplate \cup BadName)

\* Faulty variant: a label whose template renders to nothing is left out.
renderNonEmptyLabels == SUBSET labels

\* The map of labels is iterated in any order up to the first bad one: one whose template
\* does not parse is left out, one whose name is bad is already in.
renderLabels ==
    IF StoppedAt = {} THEN {labels}
    ELSE {good \cup ({bad} \ BadTemplate) : good \in SUBSET (labels \ StoppedAt), bad \in StoppedAt}

\* The error is logged; the labels rendered so far are used.
addDefaultMetrics ==
    /\ epc = "select" /\ resChan # <<>>
    /\ run' = Head(resChan) /\ resChan' = Tail(resChan)
    /\ used' = used \cup {Head(resChan).config}
    /\ \E rendered \in renderLabels : keys' = rendered \cup TestLabels
    /\ epc' = "marks"
    /\ UNCHANGED <<agentVars, testRunPubCh, i, gauges, series, inFlight>>

\* The names NewGaugeVec refuses.
Refused == BadName \cup Reserved

\* Sets gauge g to this run with the label names names.  The library panics on a new gauge
\* with a refused name; GetMetricWith fails on other names than the gauge has and on values
\* that are not UTF-8, and the agent panics on the missing result.
setOrCreateGauge(g, names, shown, next) ==
    \/ /\ \/ gauges[g] = Nil /\ names \cap Refused # {}
          \/ gauges[g] \notin {Nil, names}
          \/ names \cap BadValue # {}
       /\ epc' = "panicked" /\ UNCHANGED <<gauges, series>>
    \/ /\ gauges[g] = names \/ (gauges[g] = Nil /\ names \cap Refused = {})
       /\ gauges' = [gauges EXCEPT ![g] = names]
       /\ series' = [series EXCEPT ![g] = shown]
       /\ epc' \in next

\* The labels of the default gauges are rendered from the test's configuration.
Replaced(g) == {r \in series[g] : r.test = run.test /\ r.config = run.config}
SetDefault(g, next) ==
    /\ setOrCreateGauge(g, keys, (series[g] \ Replaced(g)) \cup {run}, next)
    /\ UNCHANGED <<agentVars, channels, run, keys, i, used, inFlight>>

SetMarks == epc = "marks" /\ SetDefault("marks", {"max"})
SetMaxMarks == epc = "max" /\ SetDefault("max", {"runtime"})

\* Faulty variant: the runtime is set only after the gauges of the test.
SetRuntimeUnlessCustom == epc = "runtime" /\ (SetDefault("runtime", {"select"}) \/
    (epc' = "render" /\ UNCHANGED <<agentVars, channels, run, keys, i, gauges, series, used, inFlight>>))

\* A run without gauges of its own, or with ones that do not parse, ends here.
SetRuntime == epc = "runtime" /\ SetDefault("runtime", {"select", "render"})

addCustomMetrics ==
    /\ epc = "render"
    /\ \E rendered \in renderLabels : keys' = rendered \cup TestLabels
    /\ i' = 1 /\ epc' = "custom"
    /\ UNCHANGED <<agentVars, channels, run, gauges, series, used, inFlight>>

\* The test's own labels may change from run to run, so older values may stay.  Adding the
\* rendered labels to a gauge reported without any map of labels panics.
SetCustom ==
    /\ epc = "custom" /\ i \in DOMAIN MetricsOf[run.config]
    /\ LET own == OwnLabels(run.config, i)
           g == CleanName[MetricsOf[run.config][i].name]
       IN  IF own = Nil THEN epc' = "panicked" /\ UNCHANGED <<gauges, series>>
           ELSE \E over \in {{}, Replaced(g)} :
                    setOrCreateGauge(g, own \cup keys, (series[g] \ over) \cup {run}, {"custom"})
    /\ i' = i + 1
    /\ UNCHANGED <<agentVars, channels, run, keys, used, inFlight>>

Exported ==
    /\ epc = "custom" /\ i \notin DOMAIN MetricsOf[run.config]
    /\ epc' = "select"
    /\ UNCHANGED <<agentVars, channels, run, keys, i, gauges, series, used, inFlight>>

ExporterStep ==
    \/ Cleanup \/ addDefaultMetrics \/ SetMarks \/ SetMaxMarks \/ SetRuntime
    \/ addCustomMetrics \/ SetCustom \/ Exported

GaugesNext ==
    \/ ExporterStep \/ NotifyPrometheus \/ Deliver
    \/ \E t \in Tests : SyncTest(t) \/ PublishTestRun(t)

GaugesSpec == GaugesInit /\ [][GaugesNext]_gaugeVars
-----------------------------------------------------------------------------
\* The label names a gauge is set with if the agent's labels are in order.
DefaultNames == labels \cup TestLabels
NamesOf(c, k) == OwnLabels(c, k) \cup DefaultNames

FaultyLabels == labels \cap (BadTemplate \cup Refused \cup BadValue)

\* A gauge no other can go with: reported without labels, with a bad label name or value,
\* or under the name of a default gauge with labels of its own.
Unusable(c, k) ==
    \/ OwnLabels(c, k) = Nil
    \/ OwnLabels(c, k) \cap (Refused \cup BadValue) # {}
    \/ CleanName[MetricsOf[c][k].name] \in DefaultGauges /\ NamesOf(c, k) # DefaultNames

\* Two gauges of one name with different labels.
Clash(c, k, d, l) ==
    /\ CleanName[MetricsOf[c][k].name] = CleanName[MetricsOf[d][l].name]
    /\ NamesOf(c, k) # NamesOf(d, l)

Incompatible ==
    \E c, d \in used : \E k \in DOMAIN MetricsOf[c], l \in DOMAIN MetricsOf[d] :
        Unusable(c, k) \/ Clash(c, k, d, l)

\* The exporter takes the agent down only if the agent is configured with a label that
\* does not parse or has a bad name or value, or if tests that ran since the agent's start
\* report a gauge that cannot go with the others, possibly a test that is gone or was
\* changed: a gauge keeps its labels through every Cleanup.
PanicExplained == epc = "panicked" => FaultyLabels # {} \/ Incompatible

\* Between two exports a scrape sees the marks, the maximum and the runtime of the same
\* runs, whatever Cleanup came in between.
GaugesAgree ==
    epc \in {"select", "render", "custom"} =>
        series["marks"] = series["max"] /\ series["max"] = series["runtime"]

\* A value from a configuration a test no longer has is shown only until the Cleanup for
\* the change, except that of a run that was published before it and was still waiting in
\* the broadcaster's or the exporter's channel then.
StaleOnlyInFlight ==
    \A g \in Gauges : \A r \in series[g] :
        r.config # config[r.test] => configChanged \/ configChange > 0 \/ r.n \in inFlight

\* The exporter never takes the agent down: "error rendering prometheus labels, ignoring
\* the labels" (prometheus.go).
NeverPanics == epc # "panicked"
=============================================================================
