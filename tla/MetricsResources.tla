-------------------------- MODULE MetricsResources --------------------------
(***************************************************************************)
(* MetricsResourcesReconciler (metricsresources_controller.go): keeps the  *)
(* metrics Service, its token Secret and its ServiceMonitor as desired.    *)
(*                                                                         *)
(* The content of an object is the set of its fields that differ from the  *)
(* desired object, so a freshly created one has the content {}.            *)
(***************************************************************************)
EXTENDS ControllerRuntime

VARIABLES
    step,   \* "idle", or the next call of the running Reconcile: "get", "write"
    obj,    \* the object of that call
    copy    \* existing: what the Get before a write returned

reconcileVars == <<step, obj, copy>>
vars          == <<runtimeVars, reconcileVars>>

(* The fields reconcileX compares, and the ones it overwrites in an Update *)
(* (all of the annotations of the Secret, though only one is compared).    *)
Compared == [Service        |-> {"ports", "selector", "labels"},
             Secret         |-> {"saName", "labels"},
             ServiceMonitor |-> {"spec", "labels"}]

(* Fault: ports are compared but not written back. *)
WrittenWithoutPorts ==
            [Service        |-> {"selector", "labels"},
             Secret         |-> {"saName", "annotations", "labels"},
             ServiceMonitor |-> {"spec", "labels"}]

Written  == [Service        |-> {"ports", "selector", "labels"},
             Secret         |-> {"saName", "annotations", "labels"},
             ServiceMonitor |-> {"spec", "labels"}]

(* Fault: the last object is looked up under the wrong name. *)
NextOfMisnamed(o) == IF o = "Service" THEN "Secret" ELSE "PrometheusRule"

(* Reconcile's order.                                                      *)
First     == "Service"
NextOf(o) == IF o = "Service" THEN "Secret" ELSE "ServiceMonitor"
IsLast(o) == o = "ServiceMonitor"

ASSUME ResourcesAssumption ==
    /\ Objects = {"Service", "Secret", "ServiceMonitor"}
    /\ Features = {"ports", "selector", "saName", "annotations", "spec", "labels", "other"}

InSync(o, c) == c # Absent /\ c \cap Compared[o] = {}

(* Fault: an Update sends the desired object, not the changed copy. *)
RepairByReplacing(o, c) == {}

(* What reconcileX sends after reading c: the desired object, or the copy  *)
(* with the written fields replaced.                                       *)
Repair(o, c) == IF c = Absent THEN {} ELSE c \ Written[o]

-----------------------------------------------------------------------------
Init ==
    /\ RuntimeInit
    /\ step = "idle"
    /\ obj = First
    /\ copy = Absent

(* The controller's worker takes the request and calls Reconcile. *)
Begin ==
    /\ step = "idle"
    /\ Take
    /\ step' = "get"
    /\ UNCHANGED <<obj, copy>>

(* Reconcile returns: nil after the last object, or the error of one       *)
(* object, which leaves the objects that follow for the retry.             *)
Return ==
    /\ step' = "idle"
    /\ obj' = First
    /\ copy' = Absent

(* reconcileX returns nil. *)
Advance ==
    \/ IsLast(obj) /\ Return
    \/ /\ ~IsLast(obj)
       /\ step' = "get"
       /\ obj' = NextOf(obj)
       /\ copy' = Absent

GetInSync ==
    /\ step = "get"
    /\ InSync(obj, seen[obj])
    /\ Read(obj)
    /\ Advance

GetDrifted ==
    /\ step = "get"
    /\ ~InSync(obj, seen[obj])
    /\ Read(obj)
    /\ copy' = seen[obj]
    /\ step' = "write"
    /\ UNCHANGED obj

GetFails ==
    /\ step = "get"
    /\ ~calm
    /\ Requeue
    /\ Return

WriteSucceeds ==
    /\ step = "write"
    /\ Accepts(obj, copy)
    /\ Write(obj, Repair(obj, copy))
    /\ Advance

(* AlreadyExists, Conflict or NotFound: the informer cache was behind. *)
WriteRejected ==
    /\ step = "write"
    /\ ~Accepts(obj, copy)
    /\ Requeue
    /\ Return

(* Fault: the error of a write is dropped. *)
WriteFailsUnnoticed ==
    /\ step = "write"
    /\ ~calm
    /\ UNCHANGED runtimeVars
    /\ Return

(* The API server cannot be reached, or its answer is lost. *)
WriteFails ==
    /\ step = "write"
    /\ ~calm
    /\ \/ Requeue
       \/ Accepts(obj, copy) /\ WriteAndRequeue(obj, Repair(obj, copy))
    /\ Return

(* The call this process has under way; an Update of an old revision would *)
(* be rejected.                                                            *)
UnderWay ==
    IF step = "write" /\ (copy = Absent \/ obj \in holding)
      THEN {[obj |-> obj, kind |-> IF copy = Absent THEN "create" ELSE "update",
             content |-> Repair(obj, copy), by |-> "desired"]}
      ELSE {}

Restart ==
    /\ \E lagging \in SUBSET Objects : RuntimeRestart(lagging, UnderWay)
    /\ Return

Reconcile == \/ Begin
             \/ GetInSync \/ GetDrifted \/ GetFails
             \/ WriteSucceeds \/ WriteRejected \/ WriteFails

Next == \/ World /\ UNCHANGED reconcileVars
        \/ Reconcile
        \/ Restart

Spec == Init /\ [][Next]_vars

(* The watch delivers, the handlers and the worker run, informers resync   *)
(* (every ten hours by default), and an API call ends.                     *)
WorldStep(A) == A /\ UNCHANGED reconcileVars
Fairness ==
    /\ \A o \in Objects : WF_vars(WorldStep(Deliver(o)))
    /\ \A x \in Watched : WF_vars(WorldStep(Dispatch(x))) /\ WF_vars(WorldStep(Resync(x)))
    /\ WF_vars(Begin)
    /\ WF_vars(GetInSync \/ GetDrifted)
    /\ WF_vars(WriteSucceeds \/ WriteRejected)

FairSpec == Spec /\ Fairness

-----------------------------------------------------------------------------
(* Type invariant: the world's variables and the running Reconcile's. *)
TypeOK ==
    /\ RuntimeTypeOK
    /\ step \in {"idle", "get", "write"}
    /\ obj \in Objects
    /\ copy \in Contents

AllInSync == \A o \in Objects : InSync(o, Current(o))

(* No KubeVirt CR and no owned object: no watch has anything to report. *)
Dormant == ~kubevirt /\ \A o \in Objects : Current(o) = Absent

(* No drift is forgotten: when the informers have caught up, no event is   *)
(* waiting, the queue is empty and no Reconcile runs, every object exists  *)
(* and its compared fields are as desired. The exceptions are a cluster    *)
(* without KubeVirt and without any of the objects, and a relist that hid  *)
(* a create and a delete. Reads are stale, writes are rejected, lost or    *)
(* applied without an answer, and an error skips the remaining objects.    *)
SettledMeansInSync ==
    Drained /\ step = "idle" => AllInSync \/ Dormant \/ missed

(* What the controller promises: see DesiredState. *)
Formers == {w.by : w \in late}
Published == [o \in Objects |-> Current(o)]
Fine(g, o, c) == InSync(o, c)
Desired == INSTANCE DesiredState
           WITH content <- Published, goal <- "desired", former <- Formers,
                Goals <- {"desired"}, Managed <- Written

(* Whatever the informers, the queue, failures, restarts and the calls of  *)
(* a process that has lost its lease do, the objects change only as        *)
(* DesiredState allows: a write repairs an object that needs it and        *)
(* touches nothing else, however old the copy it was made from.            *)
OnlyRepairs == Desired!Spec

(* Once the others leave the objects alone, the controller brings all of   *)
(* them to the desired state and keeps them there: no endless conflict and *)
(* no write that another Reconcile takes back.                             *)
Converges == calm ~> [](AllInSync \/ Dormant)

(* docs/deployment.md: "These resources are created on startup": with the  *)
(* cluster quiet and the controller running, they come to exist.           *)
CreatedOnStartup == calm ~> AllInSync
=============================================================================
