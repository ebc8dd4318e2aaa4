-------------------------- MODULE MCPrometheusRule --------------------------
(* Instances of PrometheusRule for TLC: two alerts and a recording rule;   *)
(* processes with everything allowed, one alert, nothing, or an invalid    *)
(* runbook template.                                                       *)
EXTENDS PrometheusRule

AllowAll     == [all |-> TRUE, names |-> {}]
AllowOnly(S) == [all |-> FALSE, names |-> S]

MCConfigs == {[alerts |-> AllowAll,                     records |-> AllowAll,      template |-> TRUE],
              [alerts |-> AllowOnly({"a1", "unknown"}), records |-> AllowOnly({}), template |-> TRUE],
              [alerts |-> AllowOnly({}),                records |-> AllowOnly({}), template |-> TRUE],
              [alerts |-> AllowAll,                     records |-> AllowAll,      template |-> FALSE]}

MCOthers == [o \in Objects |-> {Absent, {"a1", "a2", "r1", "other"}, {"a2", "labels"}}]
=============================================================================
