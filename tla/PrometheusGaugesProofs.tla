------------------------ MODULE PrometheusGaugesProofs ------------------------
(* Proofs about PrometheusGauges for any tests, configurations, reported   *)
(* gauges, labels and channel size.                                        *)
EXTENDS PrometheusGauges, TLAPS

Exporting == {"marks", "max", "runtime", "render", "custom"}

\* The default gauges exist, and so does the gauge of every reported metric.
LEMMA GaugeNames ==
  /\ "marks" \in Gauges /\ "max" \in Gauges /\ "runtime" \in Gauges
  /\ \A c \in Configs : \A k \in DOMAIN MetricsOf[c] : CleanName[MetricsOf[c][k].name] \in Gauges
BY DEF Gauges, DefaultGauges, MetricNames

\* Rendered labels are label names.
LEMMA RenderedNames ==
  ASSUME labels \in LabelSets, NEW rendered \in renderLabels
  PROVE  rendered \cup TestLabels \in SUBSET Names
<1>1. labels \subseteq Names /\ TestLabels \subseteq Names
  BY MetricAssumption
<1>2. rendered \subseteq labels
  BY DEF renderLabels, StoppedAt
<1> QED BY <1>1, <1>2

\* What the exporter works on: the run it took is one whose configuration it has used.
RunInv == epc \in Exporting => run \in Runs /\ run.config \in used

TypeInv == GaugesTypeOK /\ RunInv

\* The initial state has the types.
LEMMA InitTypes == GaugesInit => TypeInv
<1> SUFFICES ASSUME GaugesInit PROVE TypeInv
  OBVIOUS
<1>1. labels \in LabelSets /\ config \in [Tests -> Configs \cup {Nil}] /\ configChanged \in BOOLEAN
  BY DEF GaugesInit
<1>b. MaxChanges \in Nat /\ MaxRuns \in Nat
  BY MetricAssumption
<1>c. configChange \in 0..ConfigChangeSize /\ changes \in 0..MaxChanges /\ published \in 0..MaxRuns
  BY <1>b DEF GaugesInit, ConfigChangeSize
<1>2. /\ testRunPubCh \in Seq(Runs) /\ resChan \in Seq(Runs) /\ epc \in Steps /\ run \in Runs \cup {Nil} /\ keys \in SUBSET Names
      /\ i \in Nat /\ used \subseteq Configs /\ inFlight \subseteq 1..MaxRuns
  BY DEF GaugesInit, Steps
<1>3. gauges \in [Gauges -> {Nil} \cup SUBSET Names] /\ series \in [Gauges -> SUBSET Runs]
  BY DEF GaugesInit
<1>4. RunInv
  BY DEF GaugesInit, RunInv, Exporting
<1> QED BY <1>1, <1>c, <1>2, <1>3, <1>4 DEF TypeInv, GaugesTypeOK

\* Setting a gauge keeps the types of the gauges and of their values.
LEMMA SetTypes ==
  ASSUME TypeInv, NEW g \in Gauges, NEW names \in SUBSET Names, NEW shown \in SUBSET Runs,
         NEW next \in SUBSET Steps, setOrCreateGauge(g, names, shown, next)
  PROVE  /\ gauges' \in [Gauges -> {Nil} \cup SUBSET Names] /\ series' \in [Gauges -> SUBSET Runs]
         /\ epc' \in Steps
BY DEF TypeInv, GaugesTypeOK, setOrCreateGauge, Steps

\* So does a step of the exporter that sets a default gauge.
LEMMA DefaultTypes ==
  ASSUME TypeInv, NEW g \in Gauges, epc \in Exporting, NEW next \in SUBSET Steps, SetDefault(g, next)
  PROVE  TypeInv'
<1>1. run \in Runs /\ run.config \in used /\ keys \in SUBSET Names
  BY DEF TypeInv, RunInv, GaugesTypeOK
<1>2. (series[g] \ Replaced(g)) \cup {run} \in SUBSET Runs
  BY <1>1 DEF TypeInv, GaugesTypeOK
<1>3. /\ gauges' \in [Gauges -> {Nil} \cup SUBSET Names] /\ series' \in [Gauges -> SUBSET Runs]
      /\ epc' \in Steps
  BY <1>1, <1>2, SetTypes DEF SetDefault
<1> QED BY <1>1, <1>3 DEF SetDefault, TypeInv, GaugesTypeOK, RunInv, agentVars, channels

\* Every step keeps the types.
LEMMA NextTypes == TypeInv /\ [GaugesNext]_gaugeVars => TypeInv'
<1> SUFFICES ASSUME TypeInv, [GaugesNext]_gaugeVars PROVE TypeInv'
  OBVIOUS
<1>t. GaugesTypeOK /\ RunInv
  BY DEF TypeInv
<1>1. CASE Cleanup
  <2>1. /\ \A k \in DOMAIN resChan : resChan[k] \in Runs
        /\ \A k \in DOMAIN testRunPubCh : testRunPubCh[k] \in Runs
    BY <1>t DEF GaugesTypeOK
  <2>2. inFlight' \subseteq 1..MaxRuns
    BY <1>1, <2>1 DEF Cleanup, Waiting, Runs
  <2>3. series' \in [Gauges -> SUBSET Runs] /\ configChange' \in 0..ConfigChangeSize
    BY <1>t, <1>1 DEF Cleanup, GaugesTypeOK, ConfigChangeSize
  <2> QED BY <1>t, <1>1, <2>2, <2>3 DEF Cleanup, TypeInv, GaugesTypeOK, RunInv, channels
<1>2. CASE addDefaultMetrics
  <2>1. Head(resChan) \in Runs /\ Tail(resChan) \in Seq(Runs)
    BY <1>t, <1>2 DEF addDefaultMetrics, GaugesTypeOK
  <2>2. keys' \in SUBSET Names
    BY <1>t, <1>2, RenderedNames DEF addDefaultMetrics, GaugesTypeOK
  <2>3. used' \subseteq Configs /\ run' \in Runs /\ run'.config \in used' /\ resChan' \in Seq(Runs)
    BY <1>t, <1>2, <2>1 DEF addDefaultMetrics, GaugesTypeOK, Runs
  <2> QED BY <1>t, <1>2, <2>2, <2>3 DEF addDefaultMetrics, TypeInv, GaugesTypeOK, RunInv, agentVars, Steps
<1>3. CASE SetMarks
  BY <1>3, DefaultTypes, GaugeNames DEF SetMarks, Exporting, Steps
<1>4. CASE SetMaxMarks
  BY <1>4, DefaultTypes, GaugeNames DEF SetMaxMarks, Exporting, Steps
<1>5. CASE SetRuntime
  BY <1>5, DefaultTypes, GaugeNames DEF SetRuntime, Exporting, Steps
<1>6. CASE addCustomMetrics
  <2>1. keys' \in SUBSET Names
    BY <1>t, <1>6, RenderedNames DEF addCustomMetrics, GaugesTypeOK
  <2> QED BY <1>t, <1>6, <2>1 DEF addCustomMetrics, TypeInv, GaugesTypeOK, RunInv, Exporting, Steps, agentVars, channels
<1>7. CASE SetCustom
  <2> DEFINE own == OwnLabels(run.config, i)
             g == CleanName[MetricsOf[run.config][i].name]
  <2>1. run \in Runs /\ run.config \in used /\ run.config \in Configs /\ keys \in SUBSET Names
    BY <1>t, <1>7 DEF SetCustom, RunInv, Exporting, GaugesTypeOK
  <2>2. g \in Gauges /\ own \in {Nil} \cup SUBSET Names
    BY <1>7, <2>1, GaugeNames, MetricAssumption DEF SetCustom
  <2>3. /\ gauges' \in [Gauges -> {Nil} \cup SUBSET Names] /\ series' \in [Gauges -> SUBSET Runs]
        /\ epc' \in Steps
    <3>1. CASE own = Nil
      BY <1>t, <1>7, <3>1 DEF SetCustom, GaugesTypeOK, Steps
    <3>2. CASE own # Nil
      <4>1. PICK over \in {{}, Replaced(g)} :
               setOrCreateGauge(g, own \cup keys, (series[g] \ over) \cup {run}, {"custom"})
        BY <1>7, <3>2 DEF SetCustom
      <4>2. (series[g] \ over) \cup {run} \in SUBSET Runs /\ own \cup keys \in SUBSET Names
        BY <1>t, <2>1, <2>2, <3>2 DEF GaugesTypeOK
      <4>3. {"custom"} \in SUBSET Steps
        BY DEF Steps
      <4> QED BY <2>2, <4>1, <4>2, <4>3, SetTypes
    <3> QED BY <3>1, <3>2
  <2>4. i' \in Nat
    <3>1. i' = i + 1
      BY <1>7, Zenon DEF SetCustom
    <3> QED BY <1>t, <3>1 DEF GaugesTypeOK
  <2> QED BY <1>t, <1>7, <2>1, <2>3, <2>4 DEF SetCustom, TypeInv, GaugesTypeOK, RunInv, agentVars, channels
<1>8. CASE Exported
  BY <1>t, <1>8 DEF Exported, TypeInv, GaugesTypeOK, RunInv, Exporting, Steps, agentVars, channels
<1>9. CASE NotifyPrometheus
  <2>1. configChange' \in 0..ConfigChangeSize
    BY <1>t, <1>9 DEF NotifyPrometheus, GaugesTypeOK, ConfigChangeSize
  <2> QED BY <1>t, <1>9, <2>1 DEF NotifyPrometheus, TypeInv, GaugesTypeOK, RunInv, exporterVars, channels
<1>10. ASSUME NEW t \in Tests, SyncTest(t) PROVE TypeInv'
  <2>1. config' \in [Tests -> Configs \cup {Nil}]
    BY <1>t, <1>10 DEF SyncTest, GaugesTypeOK
  <2>2. changes' \in 0..MaxChanges
    BY <1>t, <1>10, MetricAssumption DEF SyncTest, GaugesTypeOK
  <2> QED BY <1>t, <1>10, <2>1, <2>2 DEF SyncTest, TypeInv, GaugesTypeOK, RunInv, exporterVars, channels
<1>11. ASSUME NEW t \in Tests, PublishTestRun(t) PROVE TypeInv'
  <2>1. published' \in 0..MaxRuns /\ published + 1 \in 1..MaxRuns
    BY <1>t, <1>11, MetricAssumption DEF PublishTestRun, GaugesTypeOK
  <2>2. config[t] \in Configs
    BY <1>t, <1>11 DEF PublishTestRun, GaugesTypeOK
  <2>3. [test |-> t, config |-> config[t], n |-> published + 1] \in Runs
    BY <2>1, <2>2 DEF Runs
  <2>4. testRunPubCh' \in Seq(Runs)
    BY <1>t, <1>11, <2>3 DEF PublishTestRun, GaugesTypeOK
  <2> QED BY <1>t, <1>11, <2>1, <2>4 DEF PublishTestRun, TypeInv, GaugesTypeOK, RunInv, exporterVars, channels
<1>12. CASE Deliver
  <2>1. Head(testRunPubCh) \in Runs /\ Tail(testRunPubCh) \in Seq(Runs)
    BY <1>t, <1>12 DEF Deliver, GaugesTypeOK
  <2>2. testRunPubCh' \in Seq(Runs) /\ resChan' \in Seq(Runs)
    BY <1>t, <1>12, <2>1 DEF Deliver, GaugesTypeOK
  <2> QED BY <1>t, <1>12, <2>2 DEF Deliver, TypeInv, GaugesTypeOK, RunInv, agentVars, exporterVars
<1>13. CASE UNCHANGED gaugeVars
  BY <1>t, <1>13 DEF gaugeVars, agentVars, exporterVars, channels, TypeInv, GaugesTypeOK, RunInv
<1> QED BY <1>1, <1>2, <1>3, <1>4, <1>5, <1>6, <1>7, <1>8, <1>9, <1>10, <1>11, <1>12, <1>13
        DEF GaugesNext, ExporterStep
-----------------------------------------------------------------------------
\* The label names g was created with, as long as the agent's labels are in order: those
\* of a default gauge, or those of a gauge a used configuration reports.
Kept(g) ==
    \/ g \in DefaultGauges /\ gauges[g] = DefaultNames
    \/ \E c \in used : \E k \in DOMAIN MetricsOf[c] :
           /\ CleanName[MetricsOf[c][k].name] = g /\ OwnLabels(c, k) # Nil
           /\ gauges[g] = NamesOf(c, k)

LabelsInv ==
    FaultyLabels = {} =>
        /\ epc \in {"marks", "max", "runtime", "custom"} => keys = DefaultNames
        /\ \A g \in Gauges : gauges[g] # Nil => Kept(g)

\* Labels that are in order are rendered whole and have good names and values.
LEMMA RenderedWhole ==
  ASSUME FaultyLabels = {}
  PROVE  renderLabels = {labels} /\ DefaultNames \cap (Refused \cup BadValue) = {}
<1>1. StoppedAt = {}
  BY DEF FaultyLabels, StoppedAt, Refused
<1> QED BY <1>1, MetricAssumption DEF renderLabels, FaultyLabels, DefaultNames, Refused

\* Tests that reported gauges which cannot go together have done so for good.
LEMMA IncompatibleStays == ASSUME UNCHANGED <<labels, used>>, Incompatible PROVE Incompatible'
<1>1. ASSUME NEW x, NEW k PROVE NamesOf(x, k)' = NamesOf(x, k) /\ DefaultNames' = DefaultNames
  BY DEF NamesOf, DefaultNames, OwnLabels
<1>2. ASSUME NEW x, NEW k PROVE Unusable(x, k) => Unusable(x, k)'
  BY <1>1 DEF Unusable, OwnLabels
<1>3. ASSUME NEW x, NEW k, NEW y, NEW l PROVE Clash(x, k, y, l) => Clash(x, k, y, l)'
  BY <1>1 DEF Clash
<1>4. PICK x, y \in used : \E k \in DOMAIN MetricsOf[x], l \in DOMAIN MetricsOf[y] :
           Unusable(x, k) \/ Clash(x, k, y, l)
  BY DEF Incompatible
<1>5. PICK k \in DOMAIN MetricsOf[x], l \in DOMAIN MetricsOf[y] : Unusable(x, k) \/ Clash(x, k, y, l)
  BY <1>4
<1>6. Unusable(x, k)' \/ Clash(x, k, y, l)'
  BY <1>2, <1>3, <1>5
<1> QED BY <1>4, <1>5, <1>6 DEF Incompatible

\* A gauge stays created with what it was as configurations come into use.
LEMMA KeptStays ==
  ASSUME NEW g, Kept(g), used \subseteq used', UNCHANGED <<labels, gauges>>
  PROVE  Kept(g)'
BY DEF Kept, NamesOf, DefaultNames, OwnLabels

\* Setting a default gauge keeps LabelsInv and panics only with an explanation.
LEMMA DefaultLabels ==
  ASSUME TypeInv, LabelsInv, NEW g \in DefaultGauges, epc \in {"marks", "max", "runtime"},
         NEW next \in SUBSET {"max", "runtime", "select", "render"}, SetDefault(g, next)
  PROVE  LabelsInv' /\ PanicExplained'
<1>g. g \in Gauges
  BY DEF Gauges
<1>u. UNCHANGED <<labels, used, keys>>
  BY DEF SetDefault, agentVars
<1>n. \A h \in Gauges : gauges[h] \in {Nil} \cup SUBSET Names
  BY DEF TypeInv, GaugesTypeOK
<1>f. gauges \in [Gauges -> {Nil} \cup SUBSET Names]
  BY DEF TypeInv, GaugesTypeOK
<1>1. CASE FaultyLabels # {}
  BY <1>1, <1>u DEF LabelsInv, PanicExplained, FaultyLabels
<1>2. CASE FaultyLabels = {}
  <2>1. keys = DefaultNames /\ (gauges[g] # Nil => Kept(g)) /\ FaultyLabels' = {}
    BY <1>2, <1>g, <1>u DEF LabelsInv, FaultyLabels
  <2>2. CASE /\ \/ gauges[g] = Nil /\ keys \cap Refused # {}
                \/ gauges[g] \notin {Nil, keys}
                \/ keys \cap BadValue # {}
             /\ epc' = "panicked" /\ UNCHANGED gauges
    <3>1. gauges[g] # Nil /\ gauges[g] # DefaultNames
      BY <1>2, <2>1, <2>2, RenderedWhole
    <3>2. PICK c \in used : \E k \in DOMAIN MetricsOf[c] :
             CleanName[MetricsOf[c][k].name] = g /\ gauges[g] = NamesOf(c, k)
      BY <2>1, <3>1 DEF Kept
    <3>3. PICK k \in DOMAIN MetricsOf[c] : CleanName[MetricsOf[c][k].name] = g /\ gauges[g] = NamesOf(c, k)
      BY <3>2
    <3>4. Unusable(c, k)
      BY <3>1, <3>3 DEF Unusable
    <3>5. Incompatible
      BY <3>2, <3>4 DEF Incompatible
    <3>6. Incompatible'
      BY <3>5, <1>u, IncompatibleStays
    <3>7. LabelsInv'
      BY <1>2, <1>u, <2>2, KeptStays DEF LabelsInv
    <3> QED BY <3>6, <3>7 DEF PanicExplained
  <2>3. CASE gauges' = [gauges EXCEPT ![g] = keys] /\ epc' \in next
    <3>1. gauges' = [gauges EXCEPT ![g] = keys] /\ epc' \in next
      BY <2>3
    <3>2. ASSUME NEW h \in Gauges, gauges'[h] # Nil PROVE Kept(h)'
      <4>1. CASE h = g
        BY <1>f, <1>g, <1>u, <2>1, <3>1, <4>1 DEF Kept, DefaultNames
      <4>2. CASE h # g
        <5>1. gauges'[h] = gauges[h] /\ Kept(h)
          BY <1>2, <1>f, <3>1, <3>2, <4>2 DEF LabelsInv
        <5> QED BY <5>1, <1>u DEF Kept, NamesOf, DefaultNames, OwnLabels
      <4> QED BY <4>1, <4>2
    <3>3. keys' = DefaultNames'
      BY <1>u, <2>1 DEF DefaultNames
    <3> QED BY <3>1, <3>2, <3>3 DEF LabelsInv, PanicExplained
  <2> QED BY <2>2, <2>3 DEF SetDefault, setOrCreateGauge
<1> QED BY <1>1, <1>2

\* So does setting a gauge of the test's own.
LEMMA CustomLabels ==
  ASSUME TypeInv, LabelsInv, SetCustom
  PROVE  LabelsInv' /\ PanicExplained'
<1> DEFINE c == run.config
           own == OwnLabels(c, i)
           g == CleanName[MetricsOf[c][i].name]
<1>c. c \in used /\ c \in Configs /\ i \in DOMAIN MetricsOf[c] /\ epc = "custom"
  BY DEF SetCustom, TypeInv, RunInv, Exporting, GaugesTypeOK
<1>g. g \in Gauges
  BY <1>c, GaugeNames
<1>u. UNCHANGED <<labels, used, keys>>
  BY DEF SetCustom, agentVars
<1>f. gauges \in [Gauges -> {Nil} \cup SUBSET Names]
  BY DEF TypeInv, GaugesTypeOK
<1>1. CASE FaultyLabels # {}
  BY <1>1, <1>u DEF LabelsInv, PanicExplained, FaultyLabels
<1>2. CASE FaultyLabels = {}
  <2>1. keys = DefaultNames /\ (gauges[g] # Nil => Kept(g)) /\ FaultyLabels' = {}
    BY <1>2, <1>c, <1>g, <1>u DEF LabelsInv, FaultyLabels
  <2> DEFINE names == own \cup keys
             Bad == \/ gauges[g] = Nil /\ names \cap Refused # {}
                    \/ gauges[g] \notin {Nil, names}
                    \/ names \cap BadValue # {}
  <2>s. names = NamesOf(c, i)
    BY <2>1 DEF NamesOf
  <2>2. CASE (own = Nil \/ Bad) /\ epc' = "panicked" /\ UNCHANGED gauges
    <3>2. LabelsInv'
      BY <1>2, <1>u, <2>2, KeptStays DEF LabelsInv
    <3>3. Incompatible
      <4>1. CASE Unusable(c, i)
        BY <1>c, <4>1 DEF Incompatible
      <4>2. CASE ~Unusable(c, i)
        <5>1. own # Nil /\ own \cap (Refused \cup BadValue) = {}
          BY <4>2 DEF Unusable
        <5>2. gauges[g] # Nil /\ gauges[g] # NamesOf(c, i)
          BY <1>2, <2>1, <2>2, <2>s, <5>1, RenderedWhole
        <5>3. CASE g \in DefaultGauges /\ gauges[g] = DefaultNames
          BY <4>2, <5>2, <5>3 DEF Unusable
        <5>4. CASE \E d \in used : \E l \in DOMAIN MetricsOf[d] :
                     CleanName[MetricsOf[d][l].name] = g /\ gauges[g] = NamesOf(d, l)
          <6>1. PICK d \in used : \E l \in DOMAIN MetricsOf[d] :
                     CleanName[MetricsOf[d][l].name] = g /\ gauges[g] = NamesOf(d, l)
            BY <5>4
          <6>2. PICK l \in DOMAIN MetricsOf[d] :
                     CleanName[MetricsOf[d][l].name] = g /\ gauges[g] = NamesOf(d, l)
            BY <6>1
          <6>3. Clash(c, i, d, l)
            BY <5>2, <6>2 DEF Clash
          <6> QED BY <1>c, <6>1, <6>2, <6>3 DEF Incompatible
        <5> QED BY <2>1, <5>2, <5>3, <5>4 DEF Kept
      <4> QED BY <4>1, <4>2
    <3>4. Incompatible'
      BY <3>3, <1>u, IncompatibleStays
    <3> QED BY <3>2, <3>4 DEF PanicExplained
  <2>3. CASE own # Nil /\ gauges' = [gauges EXCEPT ![g] = names] /\ epc' = "custom"
    <3>1. gauges' = [gauges EXCEPT ![g] = names] /\ epc' = "custom"
      BY <2>3
    <3>2. ASSUME NEW h \in Gauges, gauges'[h] # Nil PROVE Kept(h)'
      <4>1. CASE h = g
        <5>1. gauges'[h] = NamesOf(c, i)
          BY <1>f, <1>g, <2>s, <3>1, <4>1
        <5>2. \E d \in used : \E l \in DOMAIN MetricsOf[d] :
                 CleanName[MetricsOf[d][l].name] = h /\ OwnLabels(d, l) # Nil /\ gauges'[h] = NamesOf(d, l)
          BY <1>c, <2>3, <4>1, <5>1
        <5> QED BY <5>2, <1>u DEF Kept, NamesOf, DefaultNames, OwnLabels
      <4>2. CASE h # g
        <5>1. gauges'[h] = gauges[h] /\ Kept(h)
          BY <1>2, <1>f, <3>1, <3>2, <4>2 DEF LabelsInv
        <5> QED BY <5>1, <1>u DEF Kept, NamesOf, DefaultNames, OwnLabels
      <4> QED BY <4>1, <4>2
    <3>3. keys' = DefaultNames'
      BY <1>u, <2>1 DEF DefaultNames
    <3> QED BY <3>1, <3>2, <3>3 DEF LabelsInv, PanicExplained
  <2>4. \/ own = Nil /\ epc' = "panicked" /\ UNCHANGED gauges
        \/ own # Nil /\ \E over : setOrCreateGauge(g, names, (series[g] \ over) \cup {run}, {"custom"})
    BY DEF SetCustom
  <2>5. ASSUME NEW over, setOrCreateGauge(g, names, (series[g] \ over) \cup {run}, {"custom"})
        PROVE  \/ Bad /\ epc' = "panicked" /\ UNCHANGED gauges
               \/ gauges' = [gauges EXCEPT ![g] = names] /\ epc' = "custom"
    BY <2>5 DEF setOrCreateGauge
  <2> QED BY <2>2, <2>3, <2>4, <2>5
<1> QED BY <1>1, <1>2

PanicInv == LabelsInv /\ PanicExplained

\* Every step keeps the invariant about labels and panics.
LEMMA NextLabels == TypeInv /\ PanicInv /\ [GaugesNext]_gaugeVars => PanicInv'
<1> SUFFICES ASSUME TypeInv, PanicInv, [GaugesNext]_gaugeVars PROVE PanicInv'
  OBVIOUS
<1>p. LabelsInv /\ PanicExplained
  BY DEF PanicInv
<1>1. CASE SetMarks
  BY <1>1, <1>p, DefaultLabels DEF SetMarks, PanicInv, DefaultGauges
<1>2. CASE SetMaxMarks
  BY <1>2, <1>p, DefaultLabels DEF SetMaxMarks, PanicInv, DefaultGauges
<1>3. CASE SetRuntime
  BY <1>3, <1>p, DefaultLabels DEF SetRuntime, PanicInv, DefaultGauges
<1>4. CASE SetCustom
  BY <1>4, <1>p, CustomLabels DEF PanicInv
<1>5. CASE addDefaultMetrics \/ addCustomMetrics
  <2>1. /\ UNCHANGED <<labels, gauges>> /\ used \subseteq used' /\ epc' \in {"marks", "custom"}
        /\ \E rendered \in renderLabels : keys' = rendered \cup TestLabels
    BY <1>5 DEF addDefaultMetrics, addCustomMetrics, agentVars
  <2>2. CASE FaultyLabels # {}
    BY <2>1, <2>2 DEF PanicInv, LabelsInv, PanicExplained, FaultyLabels
  <2>3. CASE FaultyLabels = {}
    <3>1. keys' = DefaultNames'
      BY <2>1, <2>3, RenderedWhole DEF DefaultNames
    <3>2. \A g \in Gauges : gauges'[g] # Nil => Kept(g)'
      BY <1>p, <2>1, <2>3, KeptStays DEF LabelsInv
    <3> QED BY <2>1, <3>1, <3>2 DEF PanicInv, LabelsInv, PanicExplained
  <2> QED BY <2>2, <2>3
<1>6. CASE \/ Cleanup \/ Exported \/ NotifyPrometheus \/ Deliver \/ UNCHANGED gaugeVars
           \/ \E t \in Tests : SyncTest(t) \/ PublishTestRun(t)
  <2>1. /\ UNCHANGED <<labels, gauges, used, keys>>
        /\ UNCHANGED epc \/ epc' = "select"
    BY <1>6 DEF Cleanup, Exported, NotifyPrometheus, Deliver, SyncTest, PublishTestRun, gaugeVars, agentVars,
                exporterVars
  <2>2. FaultyLabels' = FaultyLabels /\ DefaultNames' = DefaultNames /\ (Incompatible => Incompatible')
    BY <2>1, IncompatibleStays DEF FaultyLabels, DefaultNames
  <2>3. LabelsInv'
    BY <1>p, <2>1, <2>2, KeptStays DEF LabelsInv
  <2> QED BY <1>p, <2>1, <2>2, <2>3 DEF PanicInv, PanicExplained
<1> QED BY <1>1, <1>2, <1>3, <1>4, <1>5, <1>6 DEF GaugesNext, ExporterStep
-----------------------------------------------------------------------------
(* The values of the default gauges while a run is exported. *)

Same(r) == r.test = run.test /\ r.config = run.config
Updated(S) == (S \ {r \in S : Same(r)}) \cup {run}

AgreeInv ==
    /\ epc \in {"select", "marks", "render", "custom"} =>
           series["marks"] = series["max"] /\ series["max"] = series["runtime"]
    /\ epc = "max" => series["marks"] = Updated(series["max"]) /\ series["max"] = series["runtime"]
    /\ epc = "runtime" => series["marks"] = series["max"] /\ series["max"] = Updated(series["runtime"])
    /\ epc \in {"render", "custom"} => series["marks"] = Updated(series["marks"])

\* Setting a gauge changes the values of that gauge only, or panics.
LEMMA SetSeries ==
  ASSUME TypeInv, NEW g \in Gauges, NEW names, NEW shown, NEW next, setOrCreateGauge(g, names, shown, next)
  PROVE  \/ epc' = "panicked" /\ UNCHANGED series
         \/ /\ epc' \in next /\ series'[g] = shown
            /\ \A h \in Gauges : h # g => series'[h] = series[h]
BY DEF TypeInv, GaugesTypeOK, setOrCreateGauge

\* Every step keeps the default gauges in step, a test's gauge of the same name included.
LEMMA NextAgree == TypeInv /\ AgreeInv /\ [GaugesNext]_gaugeVars => AgreeInv'
<1> SUFFICES ASSUME TypeInv, AgreeInv, [GaugesNext]_gaugeVars PROVE AgreeInv'
  OBVIOUS
<1>d. /\ "marks" \in Gauges /\ "max" \in Gauges /\ "runtime" \in Gauges
  BY GaugeNames
<1>r. \A S : Updated(Updated(S)) = Updated(S)
  BY DEF Updated, Same
<1>s. ASSUME NEW g \in Gauges, NEW next, SetDefault(g, next)
      PROVE  /\ UNCHANGED run
             /\ \/ epc' = "panicked"
                \/ /\ epc' \in next /\ series'[g] = Updated(series[g])
                   /\ \A h \in Gauges : h # g => series'[h] = series[h]
  BY <1>s, SetSeries DEF SetDefault, Updated, Same, Replaced
<1>1. CASE SetMarks
  <2>1. \/ epc' = "panicked"
        \/ /\ epc' = "max" /\ series'["marks"] = Updated(series["marks"])
           /\ series'["max"] = series["max"] /\ series'["runtime"] = series["runtime"]
    BY <1>1, <1>d, <1>s DEF SetMarks
  <2>2. UNCHANGED run
    BY <1>1, <1>d, <1>s DEF SetMarks
  <2>3. epc = "marks"
    BY <1>1 DEF SetMarks
  <2> QED BY <2>1, <2>2, <2>3 DEF AgreeInv, Updated, Same
<1>2. CASE SetMaxMarks
  <2>1. \/ epc' = "panicked"
        \/ /\ epc' = "runtime" /\ series'["max"] = Updated(series["max"])
           /\ series'["marks"] = series["marks"] /\ series'["runtime"] = series["runtime"]
    BY <1>2, <1>d, <1>s DEF SetMaxMarks
  <2>2. UNCHANGED run
    BY <1>2, <1>d, <1>s DEF SetMaxMarks
  <2>3. epc = "max"
    BY <1>2 DEF SetMaxMarks
  <2> QED BY <2>1, <2>2, <2>3 DEF AgreeInv, Updated, Same
<1>3. CASE SetRuntime
  <2>1. \/ epc' = "panicked"
        \/ /\ epc' \in {"select", "render"} /\ series'["runtime"] = Updated(series["runtime"])
           /\ series'["marks"] = series["marks"] /\ series'["max"] = series["max"]
    BY <1>3, <1>d, <1>s DEF SetRuntime
  <2>2. UNCHANGED run
    BY <1>3, <1>d, <1>s DEF SetRuntime
  <2>3. series["marks"] = series["max"] /\ series["max"] = Updated(series["runtime"])
    BY <1>3 DEF SetRuntime, AgreeInv
  <2>4. Updated(series["marks"]) = series["marks"]
    BY <1>r, <2>3
  <2> QED BY <2>1, <2>2, <2>3, <2>4 DEF AgreeInv, Updated, Same
<1>4. CASE SetCustom
  <2> DEFINE own == OwnLabels(run.config, i)
             g == CleanName[MetricsOf[run.config][i].name]
  <2>1. epc = "custom" /\ UNCHANGED run
    BY <1>4 DEF SetCustom
  <2>2. g \in Gauges
    BY <1>4, GaugeNames DEF SetCustom, TypeInv, RunInv, Exporting, GaugesTypeOK
  <2>3. \/ epc' = "panicked"
        \/ \E over \in {{}, Replaced(g)} :
              setOrCreateGauge(g, own \cup keys, (series[g] \ over) \cup {run}, {"custom"})
    BY <1>4 DEF SetCustom
  <2>4. \/ epc' = "panicked"
        \/ /\ epc' = "custom"
           /\ series'[g] \in {series[g] \cup {run}, Updated(series[g])}
           /\ \A h \in Gauges : h # g => series'[h] = series[h]
    <3>1. ASSUME NEW over \in {{}, Replaced(g)},
                 setOrCreateGauge(g, own \cup keys, (series[g] \ over) \cup {run}, {"custom"})
          PROVE  \/ epc' = "panicked"
                 \/ /\ epc' = "custom" /\ series'[g] = (series[g] \ over) \cup {run}
                    /\ \A h \in Gauges : h # g => series'[h] = series[h]
      <4> HIDE DEF g, own
      <4> QED BY <2>2, <3>1, SetSeries
    <3> QED BY <2>3, <3>1 DEF Updated, Same, Replaced
  <2>5. series["marks"] = Updated(series["marks"]) /\ run \in series["marks"]
    BY <2>1 DEF AgreeInv, Updated
  <2>6. epc' = "panicked" \/
          (epc' = "custom" /\ \A h \in {"marks", "max", "runtime"} : series'[h] = series[h])
    BY <1>d, <2>1, <2>4, <2>5 DEF AgreeInv
  <2> QED BY <2>1, <2>5, <2>6 DEF AgreeInv, Updated, Same
<1>5. CASE Cleanup
  BY <1>5, <1>d DEF Cleanup, AgreeInv
<1>6. CASE addDefaultMetrics
  BY <1>6 DEF addDefaultMetrics, AgreeInv
<1>7. CASE addCustomMetrics \/ Exported \/ NotifyPrometheus \/ Deliver \/ UNCHANGED gaugeVars
           \/ \E t \in Tests : SyncTest(t) \/ PublishTestRun(t)
  BY <1>7 DEF addCustomMetrics, Exported, NotifyPrometheus, Deliver, SyncTest, PublishTestRun, gaugeVars,
              agentVars, exporterVars, AgreeInv, Updated, Same
<1> QED BY <1>1, <1>2, <1>3, <1>4, <1>5, <1>6, <1>7 DEF GaugesNext, ExporterStep
-----------------------------------------------------------------------------
(* Values of configurations that tests no longer have. *)

\* A run of such a configuration is cleaned up after, or was waiting in a channel at the Cleanup.
Accounted(r) == r.config # config[r.test] => configChanged \/ configChange > 0 \/ r.n \in inFlight

StaleInv ==
    /\ \A g \in Gauges : \A r \in series[g] : Accounted(r)
    /\ \A k \in DOMAIN testRunPubCh : Accounted(testRunPubCh[k])
    /\ \A k \in DOMAIN resChan : Accounted(resChan[k])
    /\ epc \in Exporting => Accounted(run)

\* A step that changes no test and no signal, and shows no more than the run it exports
\* and what was shown, keeps the invariant.
LEMMA StaleStays ==
  ASSUME StaleInv, UNCHANGED <<config, configChanged, configChange, inFlight, channels, run>>,
         epc' \in Exporting => epc \in Exporting, epc \in Exporting,
         \A g \in Gauges : series'[g] \subseteq series[g] \cup {run}
  PROVE  StaleInv'
BY DEF StaleInv, Accounted, channels

\* Every step keeps the invariant about stale values.
LEMMA NextStale == TypeInv /\ StaleInv /\ [GaugesNext]_gaugeVars => StaleInv'
<1> SUFFICES ASSUME TypeInv, StaleInv, [GaugesNext]_gaugeVars PROVE StaleInv'
  OBVIOUS
<1>t. /\ testRunPubCh \in Seq(Runs) /\ resChan \in Seq(Runs) /\ configChange \in Nat /\ config \in [Tests -> Configs \cup {Nil}]
      /\ configChanged \in BOOLEAN
  BY DEF TypeInv, GaugesTypeOK, ConfigChangeSize
<1>s. ASSUME NEW g \in Gauges, NEW next, SetDefault(g, next), epc \in Exporting PROVE StaleInv'
  <2>1. \A h \in Gauges : series'[h] \subseteq series[h] \cup {run}
    BY <1>s, SetSeries DEF SetDefault
  <2> QED BY <1>s, <2>1, StaleStays DEF SetDefault, agentVars
<1>1. CASE SetMarks \/ SetMaxMarks \/ SetRuntime
  BY <1>1, <1>s, GaugeNames DEF SetMarks, SetMaxMarks, SetRuntime, Exporting
<1>2. CASE SetCustom
  <2> DEFINE own == OwnLabels(run.config, i)
             g == CleanName[MetricsOf[run.config][i].name]
  <2>1. g \in Gauges
    BY <1>2, GaugeNames DEF SetCustom, TypeInv, RunInv, Exporting, GaugesTypeOK
  <2>2. \/ UNCHANGED series
        \/ \E over \in {{}, Replaced(g)} :
              setOrCreateGauge(g, own \cup keys, (series[g] \ over) \cup {run}, {"custom"})
    BY <1>2 DEF SetCustom
  <2>3. \A h \in Gauges : series'[h] \subseteq series[h] \cup {run}
    <3> HIDE DEF g, own
    <3>1. ASSUME NEW over,
                 setOrCreateGauge(g, own \cup keys, (series[g] \ over) \cup {run}, {"custom"})
          PROVE  \A h \in Gauges : series'[h] \subseteq series[h] \cup {run}
      BY <2>1, <3>1, SetSeries
    <3> QED BY <2>2, <3>1
  <2>4. epc \in Exporting /\ UNCHANGED <<config, configChanged, configChange, inFlight, channels, run>>
    BY <1>2 DEF SetCustom, agentVars, Exporting
  <2> QED BY <2>3, <2>4, StaleStays
<1>3. CASE Cleanup
  <2>1. \A g \in Gauges : series'[g] = {}
    BY <1>3 DEF Cleanup
  <2>2. epc' \notin Exporting /\ UNCHANGED <<testRunPubCh, resChan>>
    BY <1>3 DEF Cleanup, Exporting, channels
  <2>3. /\ \A k \in DOMAIN testRunPubCh : testRunPubCh[k].n \in inFlight'
        /\ \A k \in DOMAIN resChan : resChan[k].n \in inFlight'
    BY <1>3 DEF Cleanup, Waiting
  <2> QED BY <2>1, <2>2, <2>3 DEF StaleInv, Accounted
<1>4. CASE addDefaultMetrics
  <2>1. /\ 1 \in DOMAIN resChan /\ run' = resChan[1]
        /\ \A k \in DOMAIN resChan' : k + 1 \in DOMAIN resChan /\ resChan'[k] = resChan[k + 1]
    BY <1>t, <1>4 DEF addDefaultMetrics
  <2>2. UNCHANGED <<config, configChanged, configChange, inFlight, series, testRunPubCh>>
    BY <1>4 DEF addDefaultMetrics, agentVars
  <2> QED BY <2>1, <2>2 DEF StaleInv, Accounted
<1>5. CASE addCustomMetrics \/ Exported
  <2>1. UNCHANGED <<config, configChanged, configChange, inFlight, channels, run, series>> /\ epc \in Exporting
    BY <1>5 DEF addCustomMetrics, Exported, agentVars, Exporting
  <2> QED BY <2>1, StaleStays
<1>6. CASE NotifyPrometheus
  <2>1. configChange' > 0 /\ UNCHANGED <<series, testRunPubCh, resChan, run, epc>>
    BY <1>t, <1>6 DEF NotifyPrometheus, exporterVars, channels
  <2> QED BY <2>1 DEF StaleInv, Accounted
<1>7. ASSUME NEW t \in Tests, SyncTest(t) PROVE StaleInv'
  BY <1>7 DEF SyncTest, exporterVars, channels, StaleInv, Accounted
<1>8. ASSUME NEW t \in Tests, PublishTestRun(t) PROVE StaleInv'
  <2>1. UNCHANGED <<config, configChanged, configChange, inFlight, series, run, epc, resChan>>
    BY <1>8 DEF PublishTestRun, exporterVars
  <2> DEFINE new == [test |-> t, config |-> config[t], n |-> published + 1]
  <2>2. testRunPubCh' = Append(testRunPubCh, new)
    BY <1>8 DEF PublishTestRun
  <2>3. new.config = config[new.test] /\ new \in Runs
    <3>1. published + 1 \in 1..MaxRuns
      BY <1>8, MetricAssumption DEF PublishTestRun, TypeInv, GaugesTypeOK
    <3>2. config[t] \in Configs
      BY <1>8 DEF PublishTestRun, TypeInv, GaugesTypeOK
    <3> QED BY <3>1, <3>2 DEF Runs
  <2>4. \A k \in DOMAIN testRunPubCh' : (k \in DOMAIN testRunPubCh /\ testRunPubCh'[k] = testRunPubCh[k]) \/ testRunPubCh'[k] = new
    <3> HIDE DEF new
    <3> QED BY <1>t, <2>2, <2>3
  <2>5. \A k \in DOMAIN testRunPubCh' : Accounted(testRunPubCh'[k])
    <3> HIDE DEF new
    <3> QED BY <2>3, <2>4 DEF StaleInv, Accounted
  <2>6. \A k \in DOMAIN testRunPubCh' : Accounted(testRunPubCh[k])'
    BY <2>1, <2>5 DEF Accounted
  <2> QED BY <2>1, <2>6 DEF StaleInv, Accounted
<1>9. CASE Deliver
  <2>1. UNCHANGED <<config, configChanged, configChange, inFlight, series, run, epc>>
    BY <1>9 DEF Deliver, agentVars, exporterVars
  <2>2. /\ 1 \in DOMAIN testRunPubCh /\ Head(testRunPubCh) = testRunPubCh[1]
        /\ Head(testRunPubCh) \in Runs
    BY <1>t, <1>9 DEF Deliver
  <2>3. \A k \in DOMAIN testRunPubCh' : k + 1 \in DOMAIN testRunPubCh /\ testRunPubCh'[k] = testRunPubCh[k + 1]
    BY <1>t, <1>9 DEF Deliver
  <2>4. \A k \in DOMAIN resChan' :
            (k \in DOMAIN resChan /\ resChan'[k] = resChan[k]) \/ resChan'[k] = testRunPubCh[1]
    BY <1>t, <1>9, <2>2 DEF Deliver
  <2>5. /\ \A k \in DOMAIN testRunPubCh' : Accounted(testRunPubCh'[k])
        /\ \A k \in DOMAIN resChan' : Accounted(resChan'[k])
    BY <2>2, <2>3, <2>4 DEF StaleInv
  <2>6. /\ \A k \in DOMAIN testRunPubCh' : Accounted(testRunPubCh[k])'
        /\ \A k \in DOMAIN resChan' : Accounted(resChan[k])'
    BY <2>1, <2>5 DEF Accounted
  <2> QED BY <2>1, <2>6 DEF StaleInv, Accounted
<1>10. CASE UNCHANGED gaugeVars
  BY <1>10 DEF gaugeVars, agentVars, exporterVars, channels, StaleInv, Accounted
<1> QED BY <1>1, <1>2, <1>3, <1>4, <1>5, <1>6, <1>7, <1>8, <1>9, <1>10 DEF GaugesNext, ExporterStep
-----------------------------------------------------------------------------
GaugesInv == TypeInv /\ PanicInv /\ AgreeInv /\ StaleInv

\* The inductive invariant holds for any instance.
LEMMA GaugesInvariant == GaugesSpec => []GaugesInv
<1>1. GaugesInit => GaugesInv
  <2> SUFFICES ASSUME GaugesInit PROVE GaugesInv
    OBVIOUS
  <2>1. PanicInv
    BY DEF GaugesInit, PanicInv, LabelsInv, PanicExplained
  <2>2. AgreeInv
    BY GaugeNames DEF GaugesInit, AgreeInv
  <2>3. StaleInv
    BY DEF GaugesInit, StaleInv, Exporting
  <2> QED BY <2>1, <2>2, <2>3, InitTypes DEF GaugesInv
<1>2. GaugesInv /\ [GaugesNext]_gaugeVars => GaugesInv'
  BY NextTypes, NextLabels, NextAgree, NextStale DEF GaugesInv
<1> QED BY <1>1, <1>2, PTL DEF GaugesSpec

\* The exporter's variables keep their types, for any tests, gauges, labels and sizes.
THEOREM GaugesTypeCorrect == GaugesSpec => []GaugesTypeOK
<1>1. GaugesInv => GaugesTypeOK
  BY DEF GaugesInv, TypeInv
<1> QED BY <1>1, GaugesInvariant, PTL

\* A panic of the exporter always has one of the listed causes, for any tests, reported
\* gauges and labels; in particular an agent whose labels are in order and whose tests
\* report each gauge with the same labels never panics.
THEOREM PanicAlwaysExplained == GaugesSpec => []PanicExplained
<1>1. GaugesInv => PanicExplained
  BY DEF GaugesInv, PanicInv
<1> QED BY <1>1, GaugesInvariant, PTL

\* Between exports the three default gauges show the same runs, for any tests, reported
\* gauges (also under the name of a default gauge) and labels.
THEOREM GaugesAlwaysAgree == GaugesSpec => []GaugesAgree
<1>1. GaugesInv => GaugesAgree
  BY DEF GaugesInv, AgreeInv, GaugesAgree
<1> QED BY <1>1, GaugesInvariant, PTL

\* A value of an outdated configuration is about to be cleaned up or came from a run that
\* was published and waiting in one of the two channels at the last Cleanup, for any
\* tests, reported gauges, labels and channel sizes.
THEOREM StaleAlwaysInFlight == GaugesSpec => []StaleOnlyInFlight
<1>1. GaugesInv => StaleOnlyInFlight
  BY DEF GaugesInv, StaleInv, Accounted, StaleOnlyInFlight
<1> QED BY <1>1, GaugesInvariant, PTL
=============================================================================
