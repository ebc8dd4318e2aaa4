------------------------- MODULE MCMetricsResources -------------------------
(* Instances of MetricsResources for TLC.                                  *)
EXTENDS MetricsResources

(* A deleted object, a drift of managed and unmanaged fields, a drift of   *)
(* fields that are written but not all compared, and an object nobody but  *)
(* the controller writes.                                                  *)
MCOthers == [Service        |-> {Absent, {"ports", "other"}},
             Secret         |-> {{"saName", "annotations"}},
             ServiceMonitor |-> {{}}]

(* The first start of the controller: none of the objects exists yet. *)
MCOthersStartup == [o \in Objects |-> {Absent}]
=============================================================================
