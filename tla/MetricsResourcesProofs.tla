----------------------- MODULE MetricsResourcesProofs -----------------------
(***************************************************************************)
(* Proofs about the MetricsResources reconciler for any contents other     *)
(* writers may give the objects and any lag of the informers.              *)
(***************************************************************************)
EXTENDS MetricsResources, ControllerRuntimeProofs

(* The objects the running Reconcile has not dealt with. *)
Remaining == IF obj = "Service" THEN Objects
             ELSE IF obj = "Secret" THEN {"Secret", "ServiceMonitor"}
             ELSE {"ServiceMonitor"}

(* Reconcile starts with the first object; it writes only what needs it,   *)
(* and the copy it may write back is the informer's, hence the latest.     *)
CopyOK ==
    /\ step = "idle" => obj = First
    /\ step = "write" => /\ ~InSync(obj, copy)
                         /\ obj \in holding => copy = seen[obj]

(* Something will make the controller look at o, or there is no need to;   *)
(* or there is nothing at all the controller could hear of.                *)
Covered(o) == \/ InSync(o, seen[o])
              \/ backlog[o] # <<>>
              \/ Alerted
              \/ step # "idle" /\ o \in Remaining
Asleep     == step = "idle" /\ ~kubevirt /\ \A o \in Objects : seen[o] = Absent
Vigilant   == (\A o \in Objects : Covered(o)) \/ Asleep

(* A call of the process before this one repairs what it is applied to. *)
Sound(w) ==
    /\ w.by = "desired"
    /\ w.kind \in {"create", "update"}
    /\ w.kind = "create" => w.content = {}
    /\ w.kind = "update" => /\ ~InSync(w.obj, Current(w.obj))
                            /\ w.content = Repair(w.obj, Current(w.obj))
LateSound == \A w \in late : Sound(w)

ReconcileTypeOK ==
    step \in {"idle", "get", "write"} /\ obj \in Objects /\ copy \in Contents

IInv == RuntimeInv /\ ReconcileTypeOK /\ CopyOK /\ Vigilant /\ LateSound

-----------------------------------------------------------------------------
LEMMA RepairType ==
    ASSUME NEW o \in Objects, NEW c \in Contents
    PROVE  Repair(o, c) \in Contents
  BY DEF Repair, Contents

LEMMA LateStaysSound ==
    ASSUME LateSound, LateKept
    PROVE  LateSound'
  BY DEF LateSound, LateKept, Sound, InSync, Repair

LEMMA SameLate ==
    ASSUME UNCHANGED <<seen, backlog, late>>
    PROVE  LateKept
  BY DEF LateKept, Current

(* The call a process that dies has under way is of the right kind. *)
LEMMA UnderWayOK ==
    ASSUME IInv
    PROVE  /\ \A w \in UnderWay : CallOK(w)
           /\ \A w \in UnderWay : Sound(w)
<1> SUFFICES ASSUME NEW w \in UnderWay
             PROVE  CallOK(w) /\ Sound(w)
  OBVIOUS
<1>1. /\ step = "write" /\ (copy = Absent \/ obj \in holding)
      /\ w = [obj |-> obj, kind |-> IF copy = Absent THEN "create" ELSE "update",
              content |-> Repair(obj, copy), by |-> "desired"]
  BY DEF UnderWay
<1>2. obj \in Objects /\ copy \in Contents /\ Repair(obj, copy) \in Contents
  BY RepairType DEF IInv, ReconcileTypeOK
<1>3. CallOK(w)
  BY <1>1, <1>2 DEF CallOK
<1>4. w.by = "desired" /\ w.obj = obj /\ w.content = Repair(obj, copy)
  BY <1>1
<1>5. CASE copy = Absent
  <2>1. w.kind = "create"
    BY <1>1, <1>5
  <2>2. w.content = {}
    BY <1>5, <1>4 DEF Repair
  <2> QED
    BY <1>3, <1>4, <2>1, <2>2 DEF Sound
<1>6. CASE copy # Absent
  <2>1. copy = seen[obj] /\ backlog[obj] = <<>>
    BY <1>1, <1>6 DEF IInv, CopyOK, RuntimeInv, HoldingOK
  <2>2. Current(obj) = copy
    BY <2>1 DEF Current
  <2>3. ~InSync(obj, copy)
    BY <1>1 DEF IInv, CopyOK
  <2>4. w.kind = "update"
    BY <1>1, <1>6
  <2> QED
    BY <1>3, <1>4, <2>2, <2>3, <2>4 DEF Sound
<1> QED
  BY <1>5, <1>6

(* Reconcile has returned: the reconciler's own part of the invariant. *)
LEMMA ReturnOK ==
    ASSUME Return
    PROVE  ReconcileTypeOK' /\ CopyOK' /\ step' = "idle"
  BY ResourcesAssumption DEF Return, ReconcileTypeOK, CopyOK, First, Contents

LEMMA InitIInv == Init => IInv
<1> SUFFICES ASSUME Init PROVE IInv
  OBVIOUS
<1>1. RuntimeInv /\ (Alerted \/ (~kubevirt /\ \A o \in Objects : seen[o] = Absent))
  BY RuntimeInitOK DEF Init
<1>2. ReconcileTypeOK /\ CopyOK
  BY ResourcesAssumption DEF Init, ReconcileTypeOK, CopyOK, First, Contents
<1>3. Vigilant /\ LateSound
  BY <1>1 DEF Vigilant, Covered, Asleep, Init, LateSound, RuntimeInit
<1> QED
  BY <1>1, <1>2, <1>3 DEF IInv

(* Whatever the world does, the objects stay covered. *)
LEMMA WorldIInv ==
    ASSUME IInv, World, UNCHANGED reconcileVars
    PROVE  IInv'
<1>1. Guarantee
  BY WorldOK DEF IInv
<1>2. ReconcileTypeOK' /\ CopyOK'
  BY <1>1 DEF IInv, Guarantee, ReconcileTypeOK, CopyOK, InSync, reconcileVars
<1>3. Vigilant'
  BY <1>1 DEF IInv, Guarantee, Vigilant, Covered, Alerted, Asleep, Remaining, InSync,
              reconcileVars
<1>4. LateSound'
  BY <1>1, LateStaysSound DEF IInv, Guarantee
<1> QED
  BY <1>1, <1>2, <1>3, <1>4 DEF IInv, Guarantee

LEMMA RestartIInv ==
    ASSUME IInv, Restart
    PROVE  IInv'
<1> PICK lagging \in SUBSET Objects : RuntimeRestart(lagging, UnderWay)
  BY DEF Restart
<1>1. /\ RuntimeInv' /\ (Alerted' \/ (~kubevirt' /\ \A o \in Objects : seen'[o] = Absent))
      /\ \A o \in Objects : Current(o)' = Current(o)
  BY RuntimeRestartOK, UnderWayOK DEF IInv
<1>2. ReconcileTypeOK' /\ CopyOK' /\ step' = "idle"
  BY ReturnOK DEF Restart
<1>3. Vigilant'
  BY <1>1, <1>2 DEF Vigilant, Covered, Asleep
<1>4. late' = UnderWay /\ \A w \in UnderWay : w.obj \in Objects /\ Sound(w)
  BY UnderWayOK DEF RuntimeRestart, CallOK
<1>5. LateSound'
  BY <1>1, <1>4 DEF LateSound, Sound
<1> QED
  BY <1>1, <1>2, <1>3, <1>5 DEF IInv

-----------------------------------------------------------------------------
(* The steps of Reconcile. *)
LEMMA BeginIInv ==
    ASSUME IInv, Begin
    PROVE  IInv'
<1>1. RuntimeInv'
  BY DEF IInv, RuntimeInv, RuntimeTypeOK, HoldingOK, Begin, Take, cacheVars
<1>2. ReconcileTypeOK' /\ CopyOK'
  BY DEF IInv, ReconcileTypeOK, CopyOK, Begin
<1>3. obj' = "Service" /\ step' # "idle"
  BY DEF IInv, CopyOK, Begin, First
<1>4. Vigilant'
  BY <1>3 DEF Vigilant, Covered, Remaining
<1>5. LateSound'
  BY SameLate, LateStaysSound DEF IInv, Begin, Take, cacheVars
<1> QED
  BY <1>1, <1>2, <1>4, <1>5 DEF IInv

(* Reconcile is done with one object: what is left to do stays to be done. *)
LEMMA AdvanceOK ==
    ASSUME IInv, step # "idle", Advance
    PROVE  /\ ReconcileTypeOK' /\ CopyOK'
           /\ \A o \in Remaining \ {obj} : step' # "idle" /\ o \in Remaining'
<1>1. CASE IsLast(obj)
  BY <1>1, ReturnOK DEF IsLast, Advance, Remaining
<1>2. CASE ~IsLast(obj)
  <2>1. step' = "get" /\ obj' = NextOf(obj) /\ copy' = Absent
    BY <1>2 DEF Advance
  <2>2. ReconcileTypeOK' /\ CopyOK'
    BY <2>1, ResourcesAssumption DEF ReconcileTypeOK, CopyOK, NextOf, Contents
  <2>3. \A o \in Remaining \ {obj} : o \in Remaining'
    BY <1>2, <2>1, ResourcesAssumption DEF IsLast, NextOf, Remaining, IInv, ReconcileTypeOK
  <2> QED
    BY <2>1, <2>2, <2>3
<1> QED
  BY <1>1, <1>2

(* While Reconcile runs nothing is asleep. *)
LEMMA AllCovered ==
    ASSUME IInv, step # "idle"
    PROVE  \A o \in Objects : Covered(o)
  BY DEF IInv, Vigilant, Asleep

LEMMA ReadOK ==
    ASSUME IInv, NEW w \in Objects, Read(w)
    PROVE  RuntimeInv' /\ LateSound' /\ UNCHANGED <<seen, backlog, kubevirt, notify, queued, missed>>
<1>1. RuntimeInv' /\ UNCHANGED <<seen, backlog, kubevirt, notify, queued, missed, late>>
  BY DEF IInv, RuntimeInv, RuntimeTypeOK, HoldingOK, Read, cacheVars
<1> QED
  BY <1>1, SameLate, LateStaysSound DEF IInv

LEMMA GetInSyncIInv ==
    ASSUME IInv, GetInSync
    PROVE  IInv'
<1>1. /\ ReconcileTypeOK' /\ CopyOK'
      /\ \A o \in Remaining \ {obj} : step' # "idle" /\ o \in Remaining'
  BY AdvanceOK DEF GetInSync
<1>2. RuntimeInv' /\ LateSound' /\ UNCHANGED <<seen, backlog, kubevirt, notify, queued, missed>>
  BY ReadOK DEF GetInSync, IInv, ReconcileTypeOK
<1>3. \A o \in Objects : Covered(o)
  BY AllCovered DEF GetInSync
<1>4. \A o \in Objects : Covered(o)'
  BY <1>1, <1>2, <1>3 DEF Covered, Alerted, InSync, GetInSync
<1> QED
  BY <1>1, <1>2, <1>4 DEF IInv, Vigilant

LEMMA GetDriftedIInv ==
    ASSUME IInv, GetDrifted
    PROVE  IInv'
<1>1. RuntimeInv' /\ LateSound' /\ UNCHANGED <<seen, backlog, kubevirt, notify, queued, missed, obj>>
  BY ReadOK DEF GetDrifted, IInv, ReconcileTypeOK
<1>2. ReconcileTypeOK' /\ CopyOK'
  BY <1>1 DEF IInv, RuntimeInv, RuntimeTypeOK, ReconcileTypeOK, CopyOK, GetDrifted, InSync
<1>3. \A o \in Objects : Covered(o)
  BY AllCovered DEF GetDrifted
<1>4. \A o \in Objects : Covered(o)'
  BY <1>1, <1>3 DEF Covered, Alerted, InSync, Remaining, GetDrifted
<1> QED
  BY <1>1, <1>2, <1>4 DEF IInv, Vigilant

(* Reconcile returns an error without having written. *)
LEMMA FailIInv ==
    ASSUME IInv, Requeue, Return
    PROVE  IInv'
<1>1. RuntimeInv'
  BY DEF IInv, RuntimeInv, RuntimeTypeOK, HoldingOK, Requeue, cacheVars
<1>2. Vigilant'
  BY DEF Vigilant, Covered, Alerted, Requeue
<1>3. LateSound'
  BY SameLate, LateStaysSound DEF IInv, Requeue, cacheVars
<1> QED
  BY <1>1, <1>2, <1>3, ReturnOK DEF IInv

(* A write the API server applied, whether or not the answer arrives. *)
LEMMA AppliedOK ==
    ASSUME IInv, NEW w \in Objects, w = obj,
           Revise(w, Repair(w, copy)), UNCHANGED seen, late' = StillValid(late, w)
    PROVE  /\ backlog' \in [Objects -> Seq(Contents)] /\ backlog'[w] # <<>>
           /\ \A p \in Objects : backlog[p] # <<>> => backlog'[p] # <<>>
           /\ Current(w)' = Repair(w, copy)
           /\ \A p \in Objects \ {w} : Current(p)' = Current(p)
           /\ holding' \subseteq Objects /\ HoldingOK'
           /\ (\A v \in late' : CallOK(v)) /\ LateSound'
<1>1. Repair(w, copy) \in Contents
  BY RepairType DEF IInv, ReconcileTypeOK
<1>2. LateKept /\ \A v \in late' : CallOK(v)
  BY <1>1, WriteKeepsLate DEF IInv
<1>3. LateSound'
  BY <1>2, LateStaysSound DEF IInv
<1> QED
  BY <1>1, <1>2, <1>3, ReviseOK DEF IInv

LEMMA WriteSucceedsIInv ==
    ASSUME IInv, WriteSucceeds
    PROVE  IInv'
<1> PICK w \in Objects : w = obj
  BY DEF IInv, ReconcileTypeOK
<1>1. /\ ReconcileTypeOK' /\ CopyOK'
      /\ \A o \in Remaining \ {obj} : step' # "idle" /\ o \in Remaining'
  BY AdvanceOK DEF WriteSucceeds
<1>2. UNCHANGED <<seen, kubevirt, notify, queued, missed, calm>>
  BY DEF WriteSucceeds, Write
<1>3. /\ backlog' \in [Objects -> Seq(Contents)] /\ backlog'[w] # <<>>
      /\ \A p \in Objects : backlog[p] # <<>> => backlog'[p] # <<>>
      /\ holding' \subseteq Objects /\ HoldingOK'
      /\ (\A v \in late' : CallOK(v)) /\ LateSound'
  BY AppliedOK DEF WriteSucceeds, Write
<1>4. RuntimeInv'
  BY <1>2, <1>3 DEF IInv, RuntimeInv, RuntimeTypeOK
<1>5. \A o \in Objects : Covered(o)
  BY AllCovered DEF WriteSucceeds
<1>6. \A o \in Objects : Covered(o)'
  BY <1>1, <1>2, <1>3, <1>5 DEF Covered, Alerted, InSync
<1> QED
  BY <1>1, <1>3, <1>4, <1>6 DEF IInv, Vigilant

LEMMA WriteFailsIInv ==
    ASSUME IInv, WriteFails
    PROVE  IInv'
<1>1. CASE Requeue
  BY <1>1, FailIInv DEF WriteFails
<1>2. CASE WriteAndRequeue(obj, Repair(obj, copy))
  <2> PICK w \in Objects : w = obj
    BY DEF IInv, ReconcileTypeOK
  <2>1. UNCHANGED <<seen, kubevirt, notify, missed, calm>> /\ queued' = TRUE
    BY <1>2 DEF WriteAndRequeue
  <2>2. /\ backlog' \in [Objects -> Seq(Contents)] /\ holding' \subseteq Objects /\ HoldingOK'
        /\ (\A v \in late' : CallOK(v)) /\ LateSound'
    BY <1>2, AppliedOK DEF WriteFails, WriteAndRequeue
  <2>3. RuntimeInv'
    BY <2>1, <2>2 DEF IInv, RuntimeInv, RuntimeTypeOK
  <2>4. Vigilant'
    BY <2>1 DEF Vigilant, Covered, Alerted
  <2> QED
    BY <2>2, <2>3, <2>4, ReturnOK DEF IInv, WriteFails
<1> QED
  BY <1>1, <1>2 DEF WriteFails

LEMMA NextIInv == IInv /\ [Next]_vars => IInv'
<1> SUFFICES ASSUME IInv, [Next]_vars PROVE IInv'
  OBVIOUS
<1>1. CASE World /\ UNCHANGED reconcileVars
  BY <1>1, WorldIInv
<1>2. CASE Reconcile
  <2>1. CASE Begin
    BY <2>1, BeginIInv
  <2>2. CASE GetInSync \/ GetDrifted
    BY <2>2, GetInSyncIInv, GetDriftedIInv
  <2>3. CASE GetFails \/ WriteRejected
    BY <2>3, FailIInv DEF GetFails, WriteRejected
  <2>4. CASE WriteSucceeds \/ WriteFails
    BY <2>4, WriteSucceedsIInv, WriteFailsIInv
  <2> QED
    BY <1>2, <2>1, <2>2, <2>3, <2>4 DEF Reconcile
<1>3. CASE Restart
  BY <1>3, RestartIInv
<1>4. CASE UNCHANGED vars
  <2>1. LateSound'
    BY <1>4, SameLate, LateStaysSound DEF vars, runtimeVars, IInv
  <2> QED
    BY <1>4, <2>1 DEF vars, runtimeVars, reconcileVars, IInv, RuntimeInv, RuntimeTypeOK, HoldingOK,
              ReconcileTypeOK, CopyOK, Vigilant, Covered, Alerted, Asleep, Remaining, InSync
<1> QED
  BY <1>1, <1>2, <1>3, <1>4 DEF Next

LEMMA SpecIInv == Spec => []IInv
  BY InitIInv, NextIInv, PTL DEF Spec

-----------------------------------------------------------------------------
(* Every variable of the reconciler and of its world keeps its type. *)
THEOREM TypeCorrect == Spec => []TypeOK
<1>1. IInv => TypeOK
  BY DEF IInv, RuntimeInv, ReconcileTypeOK, TypeOK
<1> QED
  BY <1>1, SpecIInv, PTL

(* The controller never comes to rest with a drift it could have seen. *)
THEOREM NoForgottenDrift == Spec => []SettledMeansInSync
<1>1. IInv => SettledMeansInSync
  BY DEF IInv, Vigilant, Covered, Alerted, Asleep, SettledMeansInSync, Drained,
         AllInSync, Dormant, Current
<1> QED
  BY <1>1, SpecIInv, PTL

-----------------------------------------------------------------------------
(* A repair of an object that needs it is what DesiredState calls one.     *)
LEMMA RepairFixes ==
    ASSUME NEW o \in Objects, NEW c \in Contents
    PROVE  /\ InSync(o, Repair(o, c))
           /\ Desired!Foreign(o, Repair(o, c)) = Desired!Foreign(o, c)
<1>1. Repair(o, c) # Absent
  BY RuntimeAssumption DEF Repair, Absent, Contents
<1>2. Repair(o, c) \cap Compared[o] = {}
  BY ResourcesAssumption DEF Repair, Compared, Written
<1>3. Desired!Foreign(o, Repair(o, c)) = Desired!Foreign(o, c)
  BY <1>1 DEF Repair, Desired!Foreign
<1> QED
  BY <1>1, <1>2, <1>3 DEF InSync

LEMMA PublishedChanges ==
    ASSUME NEW o \in Objects, \A p \in Objects \ {o} : Current(p)' = Current(p)
    PROVE  Desired!Changes(o)
  BY DEF Published, Desired!Changes

LEMMA AppliedIsRepair ==
    ASSUME IInv, NEW o \in Objects, NEW c \in Contents, ~InSync(o, c), Current(o) = c,
           Revise(o, Repair(o, c)), UNCHANGED <<seen, calm>>, late' \subseteq late
    PROVE  Desired!Repair(o)
<1>1. Repair(o, c) \in Contents
  BY RepairType
<1>2. Current(o)' = Repair(o, c) /\ \A p \in Objects \ {o} : Current(p)' = Current(p)
  BY <1>1, ReviseOK DEF IInv
<1>3. Published[o] = c /\ Published'[o] = Repair(o, c)
  BY <1>2 DEF Published
<1>4. Formers' \subseteq Formers
  BY DEF Formers
<1>5. Desired!Changes(o)
  BY <1>2, PublishedChanges
<1> QED
  BY <1>3, <1>4, <1>5, RepairFixes DEF Desired!Repair, Fine

LEMMA QuietStep ==
    ASSUME \A o \in Objects : Current(o)' = Current(o), UNCHANGED <<late, calm>>
    PROVE  UNCHANGED <<Published, "desired", Formers, calm>>
  BY DEF Published, Formers

LEMMA WorldRefines ==
    ASSUME IInv, World
    PROVE  Desired!Next \/ UNCHANGED <<Published, "desired", Formers, calm>>
<1>1. CASE \E o \in Objects : \E c \in Others[o] : Edit(o, c)
  <2> PICK o \in Objects : \E c \in Others[o] : Edit(o, c)
    BY <1>1
  <2> PICK c \in Others[o] : Edit(o, c)
    OBVIOUS
  <2>1. c \in Contents
    BY RuntimeAssumption
  <2>2. Current(o)' = c /\ \A p \in Objects \ {o} : Current(p)' = Current(p)
    BY <2>1, ReviseOK DEF IInv, Edit
  <2>3. Published'[o] \in Others[o] /\ Desired!Changes(o)
    BY <2>2, PublishedChanges DEF Published
  <2>4. ~calm /\ calm' = calm /\ Formers' \subseteq Formers
    BY DEF Edit, Formers, StillValid
  <2> QED
    BY <2>3, <2>4 DEF Desired!Next, Desired!Disturb
<1>2. CASE \E w \in late : Land(w)
  <2> PICK w \in late : Land(w)
    BY <1>2
  <2>1. w.obj \in Objects /\ Current(w.obj) \in Contents
    BY CurrentType DEF IInv, RuntimeInv, RuntimeTypeOK, CallOK
  <2>2. ~InSync(w.obj, Current(w.obj)) /\ w.content = Repair(w.obj, Current(w.obj))
    BY DEF Land, IInv, LateSound, Sound, InSync, Repair
  <2>3. late' \subseteq late /\ Revise(w.obj, w.content) /\ UNCHANGED <<seen, calm>>
    BY DEF Land, StillValid
  <2> QED
    BY <2>1, <2>2, <2>3, AppliedIsRepair DEF Desired!Next
<1>3. CASE \E o \in Objects : Deliver(o) \/ Relist(o)
  <2>1. \A o \in Objects : Current(o)' = Current(o)
    BY <1>3, InformerKeepsCurrent DEF IInv
  <2>2. UNCHANGED <<late, calm>>
    BY <1>3 DEF Deliver, Relist
  <2> QED
    BY <2>1, <2>2, QuietStep
<1>4. CASE EditKubeVirt \/ \E x \in Watched : Resync(x) \/ Dispatch(x)
  <2>1. UNCHANGED <<seen, backlog, late, calm>>
    BY <1>4 DEF EditKubeVirt, Resync, Dispatch, cacheVars
  <2> QED
    BY <2>1, QuietStep DEF Current
<1>5. CASE CalmDown
  <2>1. ~calm /\ calm' = TRUE /\ Formers' = {} /\ Published' = Published
    BY <1>5 DEF CalmDown, Formers, Published, Current, cacheVars
  <2> QED
    BY <2>1 DEF Desired!Next, Desired!CalmDown
<1> QED
  BY <1>1, <1>2, <1>3, <1>4, <1>5 DEF World

LEMMA ReconcileRefines ==
    ASSUME IInv, Reconcile
    PROVE  Desired!Next \/ UNCHANGED <<Published, "desired", Formers, calm>>
<1>1. CASE UNCHANGED <<seen, backlog, late, calm>>
  BY <1>1, QuietStep DEF Current
<1>2. CASE /\ step = "write" /\ Accepts(obj, copy)
           /\ Revise(obj, Repair(obj, copy))
           /\ UNCHANGED <<seen, calm>> /\ late' = StillValid(late, obj)
  <2> PICK o \in Objects : o = obj
    BY DEF IInv, ReconcileTypeOK
  <2>1. copy \in Contents /\ ~InSync(o, copy)
    BY <1>2 DEF IInv, ReconcileTypeOK, CopyOK
  <2>2. Current(o) = copy
    BY <1>2 DEF Accepts, IInv, CopyOK, RuntimeInv, HoldingOK, Current
  <2>3. late' \subseteq late
    BY <1>2 DEF StillValid
  <2> QED
    BY <1>2, <2>1, <2>2, <2>3, AppliedIsRepair DEF Desired!Next
<1> QED
  BY <1>1, <1>2
  DEF Reconcile, Begin, GetInSync, GetDrifted, GetFails, WriteSucceeds, WriteRejected,
      WriteFails, Take, Read, Write, Requeue, WriteAndRequeue, cacheVars

LEMMA RestartRefines ==
    ASSUME IInv, Restart
    PROVE  Desired!Next
<1> PICK lagging \in SUBSET Objects : RuntimeRestart(lagging, UnderWay)
  BY DEF Restart
<1>1. \A o \in Objects : Current(o)' = Current(o)
  BY RuntimeRestartOK, UnderWayOK DEF IInv
<1>2. Published' = Published /\ ~calm /\ calm' = calm
  BY <1>1 DEF Published, RuntimeRestart
<1>3. Formers' \subseteq {"desired"}
  BY UnderWayOK DEF Formers, RuntimeRestart, Sound
<1> QED
  BY <1>2, <1>3 DEF Desired!Next, Desired!TakeOver

(* The reconciler implements DesiredState: see the property. A stale read  *)
(* never makes it undo the work of others.                                 *)
THEOREM ImplementsDesiredState == Spec => OnlyRepairs
<1>1. Init => Desired!Init
  <2> SUFFICES ASSUME Init PROVE Desired!Init
    OBVIOUS
  <2>1. Published = seen
    BY DEF Init, RuntimeInit, Published, Current
  <2>2. \A o \in Objects : seen[o] \in Others[o]
    BY DEF Init, RuntimeInit
  <2>3. seen \in [Objects -> UNION {Others[o] : o \in Objects}]
    BY <2>2 DEF Init, RuntimeInit
  <2>4. Formers = {} /\ calm = FALSE
    BY DEF Init, RuntimeInit, Formers
  <2> QED
    BY <2>1, <2>2, <2>3, <2>4 DEF Desired!Init
<1>2. IInv /\ [Next]_vars => [Desired!Next]_(Desired!vars)
  <2> SUFFICES ASSUME IInv, [Next]_vars
               PROVE  Desired!Next \/ UNCHANGED <<Published, "desired", Formers, calm>>
    BY DEF Desired!vars
  <2>1. CASE UNCHANGED vars
    BY <2>1, QuietStep DEF vars, runtimeVars, Current
  <2> QED
    BY <2>1, WorldRefines, ReconcileRefines, RestartRefines DEF Next
<1> QED
  BY <1>1, <1>2, SpecIInv, PTL DEF Spec, OnlyRepairs, Desired!Spec
=============================================================================
