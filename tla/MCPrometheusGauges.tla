------------------------- MODULE MCPrometheusGauges -------------------------
\* Two curl tests that report the same gauge, with and without a label, a dns test, one
\* whose label value is cut in the middle of a character, and one without labels.
EXTENDS PrometheusGauges, TLC

TestSymmetry == Permutations(Tests)

MCMetrics ==
    [curlIp |-> <<[name |-> "curl_time", labels |-> {"remote_ip", "url"}]>>,
     curl   |-> <<[name |-> "curl_time", labels |-> {}]>>,
     dns    |-> <<[name |-> "dns1", labels |-> {"domain"}], [name |-> "dns2", labels |-> {"domain"}]>>,
     long   |-> <<[name |-> "long_time", labels |-> {"cut"}]>>,
     bare   |-> <<[name |-> "own", labels |-> Nil]>>]
AllNames == {"remote_ip", "url", "domain", "node", "label-1", "{{", "__name", "cut"} \cup TestLabels
MCCleanName == [m \in {"curl_time", "dns1", "dns2", "long_time", "own"} |-> IF m \in {"dns1", "dns2"} THEN "dns_" ELSE m]
MCLabelSets == {{"node"}, {"node", "label-1"}, {"node", "{{"}, {"node", "__name"}}
OneLabel == {{"node"}}
=============================================================================
