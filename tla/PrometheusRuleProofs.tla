------------------------ MODULE PrometheusRuleProofs ------------------------
(***************************************************************************)
(* Proofs about the PrometheusRule reconciler for any rules, any           *)
(* configurations, any other writers and any lag of the informer.          *)
(***************************************************************************)
EXTENDS PrometheusRule, ControllerRuntimeProofs

ReconcileTypeOK ==
    /\ config \in Configs
    /\ registry \subseteq Rules
    /\ step \in {"idle", "setup", "get", "write", "delete"}
    /\ copy \in Contents

(* The registry never holds a rule the process does not want, and holds    *)
(* all of them from the moment SetupRules succeeds in a Reconcile.         *)
RegistryOK ==
    /\ registry \subseteq Wanted
    /\ step \in {"get", "write", "delete"} => registry = Wanted

CopyOK ==
    /\ step = "write" => /\ registry # {}
                         /\ ~UpToDate(copy)
                         /\ Rule \in holding => copy = seen[Rule]
    /\ step = "delete" => registry = {}

(* The object the informer holds is the configured one, or something makes *)
(* the controller look again, or there is nothing it could hear of.        *)
Vigilant ==
    \/ AsConfigured(seen[Rule])
    \/ backlog[Rule] # <<>>
    \/ Alerted
    \/ step # "idle"
    \/ ~kubevirt /\ seen[Rule] = Absent

(* A call of the process before this one makes of what it is applied to    *)
(* what the configuration of that process asks for.                        *)
Sound(w) ==
    /\ w.obj = Rule
    /\ w.kind = "delete" => WantedBy(w.by) = {} /\ w.content = Absent
    /\ w.kind = "create" => WantedBy(w.by) # {} /\ w.content = WantedBy(w.by)
    /\ w.kind = "update" =>
          /\ WantedBy(w.by) # {}
          /\ Current(w.obj) # Absent /\ Current(w.obj) \cap Managed # WantedBy(w.by)
          /\ w.content = (Current(w.obj) \ Managed) \cup WantedBy(w.by)
LateSound == \A w \in late : Sound(w)

IInv == RuntimeInv /\ ReconcileTypeOK /\ RegistryOK /\ CopyOK /\ Vigilant /\ LateSound

-----------------------------------------------------------------------------
LEMMA WantedByType == \A g : WantedBy(g) \subseteq Rules
  BY DEF WantedBy, filterAlerts, filterRecordingRules, Rules

LEMMA WantedType == Wanted \subseteq Rules
  BY DEF Wanted, WantedBy, filterAlerts, filterRecordingRules, Rules

LEMMA RuleInObjects == Rule \in Objects /\ Objects = {Rule}
  BY RuleAssumption

(* What is written is an object, with the registered rules and the fields  *)
(* of the copy that are not managed.                                       *)
LEMMA RepairOK ==
    ASSUME ReconcileTypeOK
    PROVE  /\ Repair(copy) \in Contents /\ Repair(copy) # Absent
           /\ Repair(copy) \cap Managed = registry
           /\ copy # Absent => Repair(copy) \ Managed = copy \ Managed
<1>1. registry \subseteq Managed /\ Managed \subseteq Features
  BY RuleAssumption DEF ReconcileTypeOK, Managed
<1>2. copy # Absent => copy \subseteq Features
  BY DEF ReconcileTypeOK, Contents
<1>3. Repair(copy) \subseteq Features
  BY <1>1, <1>2 DEF Repair
<1>4. Repair(copy) # Absent
  BY <1>3, RuntimeAssumption DEF Absent
<1> QED
  BY <1>1, <1>2, <1>3, <1>4 DEF Repair, Contents

LEMMA LateStaysSound ==
    ASSUME LateSound, LateKept
    PROVE  LateSound'
  BY DEF LateSound, LateKept, Sound

LEMMA SameLate ==
    ASSUME UNCHANGED <<seen, backlog, late>>
    PROVE  LateKept
  BY DEF LateKept, Current

(* What Reconcile holds when it is about to write over an object.          *)
LEMMA CopyIsCurrent ==
    ASSUME IInv, step = "write", Rule \in holding
    PROVE  Current(Rule) = copy
  BY DEF IInv, CopyOK, RuntimeInv, HoldingOK, Current

(* The call a process that dies has under way is of the right kind. *)
LEMMA UnderWayOK ==
    ASSUME IInv, NEW w \in UnderWay
    PROVE  CallOK(w) /\ Sound(w) /\ w.by = config
<1>1. Repair(copy) \in Contents /\ Absent \in Contents
  BY RepairOK DEF IInv, Contents
<1>2. CASE step = "delete"
  <2>1. w = [obj |-> Rule, kind |-> "delete", content |-> Absent, by |-> config]
    BY <1>2 DEF UnderWay
  <2>2. WantedBy(config) = {}
    BY <1>2 DEF IInv, RegistryOK, CopyOK, Wanted
  <2> QED
    BY <1>1, <2>1, <2>2, RuleInObjects DEF CallOK, Sound
<1>3. CASE step = "write" /\ copy = Absent
  <2>1. w = [obj |-> Rule, kind |-> "create", content |-> Repair(copy), by |-> config]
    BY <1>3 DEF UnderWay
  <2>2. WantedBy(config) # {} /\ Repair(copy) = WantedBy(config)
    BY <1>3 DEF IInv, RegistryOK, CopyOK, Wanted, Repair
  <2> QED
    BY <1>1, <2>1, <2>2, RuleInObjects DEF CallOK, Sound
<1>4. CASE step = "write" /\ copy # Absent
  <2>1. /\ w = [obj |-> Rule, kind |-> "update", content |-> Repair(copy), by |-> config]
        /\ Rule \in holding
    BY <1>4 DEF UnderWay
  <2>2. Current(Rule) = copy
    BY <1>4, <2>1, CopyIsCurrent
  <2>3. WantedBy(config) # {} /\ Repair(copy) = (copy \ Managed) \cup WantedBy(config)
        /\ copy \cap Managed # WantedBy(config)
    BY <1>4 DEF IInv, RegistryOK, CopyOK, UpToDate, Wanted, Repair
  <2> QED
    BY <1>1, <1>4, <2>1, <2>2, <2>3, RuleInObjects DEF CallOK, Sound
<1>5. CASE step \notin {"write", "delete"}
  BY <1>5 DEF UnderWay
<1> QED
  BY <1>2, <1>3, <1>4, <1>5

LEMMA ReturnOK ==
    ASSUME IInv, Return, UNCHANGED <<config, registry>>
    PROVE  ReconcileTypeOK' /\ RegistryOK' /\ CopyOK' /\ step' = "idle"
  BY DEF IInv, Return, ReconcileTypeOK, RegistryOK, CopyOK, Wanted, Contents

LEMMA InitIInv == Init => IInv
<1> SUFFICES ASSUME Init PROVE IInv
  OBVIOUS
<1>1. RuntimeInv /\ (Alerted \/ (~kubevirt /\ \A o \in Objects : seen[o] = Absent))
  BY RuntimeInitOK DEF Init
<1>2. ReconcileTypeOK /\ RegistryOK /\ CopyOK
  BY DEF Init, ReconcileTypeOK, RegistryOK, CopyOK, Contents
<1>3. Vigilant /\ LateSound
  BY <1>1, RuleInObjects DEF Vigilant, LateSound, Init, RuntimeInit
<1> QED
  BY <1>1, <1>2, <1>3 DEF IInv

LEMMA WorldIInv ==
    ASSUME IInv, World, UNCHANGED reconcileVars
    PROVE  IInv'
<1>1. Guarantee
  BY WorldOK DEF IInv
<1>2. ReconcileTypeOK' /\ RegistryOK' /\ CopyOK'
  BY <1>1 DEF IInv, Guarantee, ReconcileTypeOK, RegistryOK, CopyOK, UpToDate, Wanted, reconcileVars
<1>3. Vigilant'
  BY <1>1, RuleInObjects DEF IInv, Guarantee, Vigilant, Alerted, AsConfigured, Fine, Wanted,
                             reconcileVars
<1>4. LateSound'
  BY <1>1, LateStaysSound DEF IInv, Guarantee
<1> QED
  BY <1>1, <1>2, <1>3, <1>4 DEF IInv, Guarantee

LEMMA RestartIInv ==
    ASSUME IInv, Restart
    PROVE  IInv'
<1> PICK lagging \in SUBSET Objects : RuntimeRestart(lagging, UnderWay)
  BY DEF Restart
<1>1. /\ RuntimeInv' /\ (Alerted' \/ (~kubevirt' /\ \A o \in Objects : seen'[o] = Absent))
      /\ \A o \in Objects : Current(o)' = Current(o)
  BY RuntimeRestartOK, UnderWayOK DEF IInv
<1>2. ReconcileTypeOK' /\ RegistryOK' /\ CopyOK'
  BY DEF Restart, Return, ReconcileTypeOK, RegistryOK, CopyOK, Contents
<1>3. Vigilant'
  BY <1>1, RuleInObjects DEF Vigilant
<1>4. late' = UnderWay /\ \A w \in UnderWay : w.obj \in Objects /\ Sound(w)
  BY UnderWayOK DEF RuntimeRestart, CallOK
<1>5. LateSound'
  BY <1>1, <1>4 DEF LateSound, Sound
<1> QED
  BY <1>1, <1>2, <1>3, <1>5 DEF IInv

-----------------------------------------------------------------------------
(* The steps of Reconcile. *)
LEMMA BeginIInv ==
    ASSUME IInv, Begin
    PROVE  IInv'
<1>1. RuntimeInv'
  BY DEF IInv, RuntimeInv, RuntimeTypeOK, HoldingOK, Begin, Take, cacheVars
<1>2. ReconcileTypeOK' /\ RegistryOK' /\ CopyOK' /\ Vigilant'
  BY DEF IInv, ReconcileTypeOK, RegistryOK, CopyOK, Vigilant, Wanted, Begin
<1>3. LateSound'
  BY SameLate, LateStaysSound DEF IInv, Begin, Take, cacheVars
<1> QED
  BY <1>1, <1>2, <1>3 DEF IInv

LEMMA SetupRulesIInv ==
    ASSUME IInv, SetupRules
    PROVE  IInv'
<1>1. RuntimeInv'
  BY DEF IInv, RuntimeInv, RuntimeTypeOK, HoldingOK, SetupRules, runtimeVars
<1>2. registry' = Wanted /\ Wanted' = Wanted
  BY DEF IInv, RegistryOK, SetupRules, Wanted
<1>4. LateSound'
  BY SameLate, LateStaysSound DEF IInv, SetupRules, runtimeVars
<1>3. ReconcileTypeOK' /\ RegistryOK' /\ CopyOK' /\ Vigilant'
  BY <1>2, WantedType DEF IInv, ReconcileTypeOK, RegistryOK, CopyOK, Vigilant, SetupRules
<1> QED
  BY <1>1, <1>3, <1>4 DEF IInv

LEMMA SetupPanicsIInv ==
    ASSUME IInv, SetupPanics
    PROVE  IInv'
<1>1. RuntimeInv'
  BY DEF IInv, RuntimeInv, RuntimeTypeOK, HoldingOK, SetupPanics, Requeue, cacheVars
<1>2. registry' \subseteq Wanted /\ Wanted' = Wanted
  BY DEF IInv, RegistryOK, SetupPanics, Wanted, WantedBy
<1>3. ReconcileTypeOK' /\ RegistryOK' /\ CopyOK'
  BY <1>2, WantedType
  DEF IInv, ReconcileTypeOK, RegistryOK, CopyOK, SetupPanics, Return, Contents
<1>4. Vigilant'
  BY DEF Vigilant, Alerted, SetupPanics, Requeue
<1>5. LateSound'
  BY SameLate, LateStaysSound DEF IInv, SetupPanics, Requeue, cacheVars
<1> QED
  BY <1>1, <1>3, <1>4, <1>5 DEF IInv

LEMMA ReadOK ==
    ASSUME IInv, Read(Rule)
    PROVE  RuntimeInv' /\ LateSound' /\ UNCHANGED <<seen, backlog, kubevirt, notify, queued, missed>>
<1>1. RuntimeInv' /\ UNCHANGED <<seen, backlog, kubevirt, notify, queued, missed, late>>
  BY RuleInObjects DEF IInv, RuntimeInv, RuntimeTypeOK, HoldingOK, Read, cacheVars
<1> QED
  BY <1>1, SameLate, LateStaysSound DEF IInv

LEMMA GetNothingToDoIInv ==
    ASSUME IInv, GetNothingToDo
    PROVE  IInv'
<1>1. RuntimeInv' /\ LateSound' /\ seen' = seen
  BY ReadOK DEF GetNothingToDo
<1>2. ReconcileTypeOK' /\ RegistryOK' /\ CopyOK'
  BY ReturnOK DEF GetNothingToDo
<1>3. registry = Wanted /\ Wanted' = Wanted
  BY DEF GetNothingToDo, IInv, RegistryOK, Wanted
<1>4. AsConfigured(seen[Rule])
  BY <1>3 DEF GetNothingToDo, HasRegisteredRules, UpToDate, AsConfigured, Fine, Wanted
<1>5. Vigilant'
  BY <1>1, <1>4 DEF Vigilant, AsConfigured, GetNothingToDo
<1> QED
  BY <1>1, <1>2, <1>5 DEF IInv

LEMMA GetWorkIInv ==
    ASSUME IInv, GetToDelete \/ GetToWrite
    PROVE  IInv'
<1>1. RuntimeInv' /\ LateSound' /\ seen' = seen
  BY ReadOK DEF GetToDelete, GetToWrite
<1>2. registry' = registry /\ registry = Wanted /\ Wanted' = Wanted
  BY DEF GetToDelete, GetToWrite, IInv, RegistryOK, Wanted
<1>3. ReconcileTypeOK' /\ RegistryOK' /\ CopyOK' /\ Vigilant'
  BY <1>1, <1>2, RuleInObjects
  DEF IInv, RuntimeInv, RuntimeTypeOK, ReconcileTypeOK, RegistryOK, CopyOK, Vigilant,
      GetToDelete, GetToWrite, HasRegisteredRules, UpToDate
<1> QED
  BY <1>1, <1>3 DEF IInv

(* Reconcile returns an error without having written. *)
LEMMA FailIInv ==
    ASSUME IInv, Requeue, Return, UNCHANGED <<config, registry>>
    PROVE  IInv'
<1>1. RuntimeInv'
  BY DEF IInv, RuntimeInv, RuntimeTypeOK, HoldingOK, Requeue, cacheVars
<1>2. Vigilant'
  BY DEF Vigilant, Alerted, Requeue
<1>3. LateSound'
  BY SameLate, LateStaysSound DEF IInv, Requeue, cacheVars
<1> QED
  BY <1>1, <1>2, <1>3, ReturnOK DEF IInv

(* The API server applied a write; its object now has an unseen revision.  *)
LEMMA AppliedIInv ==
    ASSUME IInv, NEW c \in Contents, Revise(Rule, c), Return,
           UNCHANGED <<seen, kubevirt, notify, missed, calm, config, registry>>,
           queued' \in BOOLEAN, late' = StillValid(late, Rule)
    PROVE  IInv'
<1>1. /\ backlog' \in [Objects -> Seq(Contents)] /\ backlog'[Rule] # <<>>
      /\ holding' \subseteq Objects /\ HoldingOK'
  BY RuleInObjects, ReviseOK DEF IInv
<1>2. LateKept /\ \A w \in late' : CallOK(w)
  BY RuleInObjects, WriteKeepsLate DEF IInv
<1>3. RuntimeInv'
  BY <1>1, <1>2 DEF IInv, RuntimeInv, RuntimeTypeOK
<1>4. Vigilant' /\ LateSound'
  BY <1>1, <1>2, LateStaysSound DEF Vigilant, IInv
<1> QED
  BY <1>3, <1>4, ReturnOK DEF IInv

LEMMA DeleteIInv ==
    ASSUME IInv, Delete
    PROVE  IInv'
<1>1. CASE Current(Rule) # Absent
  <2>1. /\ Revise(Rule, Absent) /\ UNCHANGED <<seen, kubevirt, notify, missed, calm, queued>>
        /\ late' = StillValid(late, Rule)
    BY <1>1 DEF Delete, Write
  <2>2. queued' \in BOOLEAN /\ Absent \in Contents
    BY <2>1 DEF IInv, RuntimeInv, RuntimeTypeOK, Contents
  <2> QED
    BY <2>1, <2>2, AppliedIInv DEF Delete
<1>2. CASE Current(Rule) = Absent
  <2>1. UNCHANGED runtimeVars
    BY <1>2 DEF Delete
  <2>2. RuntimeInv'
    BY <2>1 DEF IInv, RuntimeInv, RuntimeTypeOK, HoldingOK, runtimeVars
  <2>3. Wanted = {} /\ Wanted' = Wanted
    BY DEF Delete, IInv, RegistryOK, CopyOK, Wanted
  <2>4. seen[Rule] = Absent \/ backlog[Rule] # <<>>
    BY <1>2 DEF Current
  <2>5. Vigilant'
    BY <2>1, <2>3, <2>4 DEF Vigilant, AsConfigured, Fine, Wanted, runtimeVars
  <2>6. LateSound'
    BY <2>1, SameLate, LateStaysSound DEF IInv, runtimeVars
  <2> QED
    BY <2>2, <2>5, <2>6, ReturnOK DEF IInv, Delete
<1> QED
  BY <1>1, <1>2

LEMMA WriteSucceedsIInv ==
    ASSUME IInv, WriteSucceeds
    PROVE  IInv'
<1>1. /\ Revise(Rule, Repair(copy)) /\ Return /\ late' = StillValid(late, Rule)
      /\ UNCHANGED <<seen, kubevirt, notify, missed, calm, queued, config, registry>>
  BY DEF WriteSucceeds, Write
<1>2. Repair(copy) \in Contents
  BY RepairOK DEF IInv
<1>3. queued' \in BOOLEAN
  BY <1>1 DEF IInv, RuntimeInv, RuntimeTypeOK
<1> QED
  BY <1>1, <1>2, <1>3, AppliedIInv

LEMMA CallFailsIInv ==
    ASSUME IInv, CallFails
    PROVE  IInv'
<1>1. CASE Requeue
  BY <1>1, FailIInv DEF CallFails
<1>2. ASSUME NEW c \in {Absent, Repair(copy)}, WriteAndRequeue(Rule, c)
      PROVE  IInv'
  <2>1. c \in Contents
    BY RepairOK DEF IInv, Contents
  <2>2. Revise(Rule, c) /\ UNCHANGED <<seen, kubevirt, notify, missed, calm>>
        /\ queued' \in BOOLEAN /\ late' = StillValid(late, Rule)
    BY <1>2 DEF WriteAndRequeue
  <2> QED
    BY <2>1, <2>2, AppliedIInv DEF CallFails
<1> QED
  BY <1>1, <1>2 DEF CallFails

LEMMA NextIInv == IInv /\ [Next]_vars => IInv'
<1> SUFFICES ASSUME IInv, [Next]_vars PROVE IInv'
  OBVIOUS
<1>1. CASE World /\ UNCHANGED reconcileVars
  BY <1>1, WorldIInv
<1>2. CASE Reconcile
  <2>1. CASE Begin \/ SetupRules \/ SetupPanics
    BY <2>1, BeginIInv, SetupRulesIInv, SetupPanicsIInv
  <2>2. CASE GetNothingToDo \/ GetToDelete \/ GetToWrite
    BY <2>2, GetNothingToDoIInv, GetWorkIInv
  <2>3. CASE GetFails \/ WriteRejected
    BY <2>3, FailIInv DEF GetFails, WriteRejected
  <2>4. CASE Delete \/ WriteSucceeds \/ CallFails
    BY <2>4, DeleteIInv, WriteSucceedsIInv, CallFailsIInv
  <2> QED
    BY <1>2, <2>1, <2>2, <2>3, <2>4 DEF Reconcile
<1>3. CASE Restart
  BY <1>3, RestartIInv
<1>4. CASE UNCHANGED vars
  <2>1. LateSound'
    BY <1>4, SameLate, LateStaysSound DEF vars, runtimeVars, IInv
  <2> QED
    BY <1>4, <2>1 DEF vars, runtimeVars, reconcileVars, IInv, RuntimeInv, RuntimeTypeOK, HoldingOK,
              ReconcileTypeOK, RegistryOK, CopyOK, Vigilant, Alerted, AsConfigured, Fine, Wanted, UpToDate
<1> QED
  BY <1>1, <1>2, <1>3, <1>4 DEF Next

LEMMA SpecIInv == Spec => []IInv
  BY InitIInv, NextIInv, PTL DEF Spec

-----------------------------------------------------------------------------
(* Every variable of the reconciler and of its world keeps its type. *)
THEOREM TypeCorrect == Spec => []TypeOK
<1>1. IInv => TypeOK
  BY DEF IInv, RuntimeInv, ReconcileTypeOK, TypeOK
<1> QED
  BY <1>1, SpecIInv, PTL

(* At rest the PrometheusRule is the one the running process is            *)
(* configured to publish.                                                  *)
THEOREM PublishesConfiguration == Spec => []SettledMeansConfigured
<1>1. IInv => SettledMeansConfigured
  BY RuleInObjects
  DEF IInv, Vigilant, Alerted, SettledMeansConfigured, Drained, Dormant, Current
<1> QED
  BY <1>1, SpecIInv, PTL

-----------------------------------------------------------------------------
(* A write for the configuration g is what DesiredState calls a repair. *)
LEMMA AppliedIsRepair ==
    ASSUME IInv, NEW g \in {config} \cup Formers, NEW c \in Contents,
           \/ /\ WantedBy(g) = {} /\ Current(Rule) # Absent /\ c = Absent
           \/ /\ WantedBy(g) # {} /\ Current(Rule) = Absent /\ c = WantedBy(g)
           \/ /\ WantedBy(g) # {} /\ Current(Rule) # Absent
              /\ Current(Rule) \cap Managed # WantedBy(g)
              /\ c = (Current(Rule) \ Managed) \cup WantedBy(g),
           Revise(Rule, c), UNCHANGED <<seen, calm, config>>, late' \subseteq late
    PROVE  Desired!Next
<1>1. Current(Rule)' = c
  BY RuleInObjects, ReviseOK DEF IInv
<1>2. Published[Rule] = Current(Rule) /\ Published'[Rule] = c
  BY <1>1, RuleInObjects DEF Published
<1>3. Desired!Changes(Rule)
  BY <1>2, RuleInObjects DEF Published, Desired!Changes
<1>4. WantedBy(g) \subseteq Managed /\ Managed \subseteq Features /\ {"absent"} \cap Features = {}
  BY WantedByType, RuleAssumption, RuntimeAssumption DEF Managed
<1>5. Current(Rule) \in Contents
  BY RuleInObjects, CurrentType DEF IInv, RuntimeInv
<1>6. Fine(g, Rule, c)
  BY <1>4, <1>5 DEF Fine, Absent, Contents
<1>7. ~Fine(g, Rule, Current(Rule))
  BY DEF Fine
<1>8. c = Absent \/ Desired!Foreign(Rule, c) = Desired!Foreign(Rule, Current(Rule))
  BY <1>4, RuleInObjects DEF Desired!Foreign, OfManaged
<1>9. Formers' \subseteq Formers
  BY DEF Formers
<1>10. Desired!Repair(Rule)
  BY <1>2, <1>3, <1>6, <1>7, <1>8, <1>9 DEF Desired!Repair
<1> QED
  BY <1>10, RuleInObjects DEF Desired!Next

LEMMA QuietStep ==
    ASSUME \A o \in Objects : Current(o)' = Current(o), UNCHANGED <<late, calm, config>>
    PROVE  UNCHANGED <<Published, config, Formers, calm>>
  BY DEF Published, Formers

LEMMA WorldRefines ==
    ASSUME IInv, World, UNCHANGED reconcileVars
    PROVE  Desired!Next \/ UNCHANGED <<Published, config, Formers, calm>>
<1>0. config' = config
  BY DEF reconcileVars
<1>1. CASE \E o \in Objects : \E c \in Others[o] : Edit(o, c)
  <2> PICK o \in Objects : \E c \in Others[o] : Edit(o, c)
    BY <1>1
  <2> PICK c \in Others[o] : Edit(o, c)
    OBVIOUS
  <2>1. c \in Contents
    BY RuntimeAssumption
  <2>2. Current(o)' = c /\ \A p \in Objects \ {o} : Current(p)' = Current(p)
    BY <2>1, ReviseOK DEF IInv, Edit
  <2>3. Published'[o] \in Others[o] /\ Desired!Changes(o)
    BY <2>2 DEF Published, Desired!Changes
  <2>4. ~calm /\ calm' = calm /\ Formers' \subseteq Formers
    BY DEF Edit, Formers, StillValid
  <2> QED
    BY <1>0, <2>3, <2>4 DEF Desired!Next, Desired!Disturb
<1>2. CASE \E w \in late : Land(w)
  <2> PICK w \in late : Land(w)
    BY <1>2
  <2>1. CallOK(w) /\ Sound(w) /\ w.by \in Formers
    BY DEF IInv, RuntimeInv, RuntimeTypeOK, LateSound, Formers
  <2>2. /\ late' \subseteq late /\ Revise(w.obj, w.content) /\ UNCHANGED <<seen, calm>>
        /\ (w.kind = "create") <=> (Current(w.obj) = Absent)
    BY DEF Land, StillValid
  <2>3. w.obj = Rule /\ w.content \in Contents /\ w.kind \in {"create", "update", "delete"}
    BY <2>1 DEF CallOK, Sound
  <2>4. \/ /\ WantedBy(w.by) = {} /\ Current(Rule) # Absent /\ w.content = Absent
        \/ /\ WantedBy(w.by) # {} /\ Current(Rule) = Absent /\ w.content = WantedBy(w.by)
        \/ /\ WantedBy(w.by) # {} /\ Current(Rule) # Absent
           /\ Current(Rule) \cap Managed # WantedBy(w.by)
           /\ w.content = (Current(Rule) \ Managed) \cup WantedBy(w.by)
    BY <2>1, <2>2, <2>3 DEF Sound
  <2> QED
    BY <1>0, <2>1, <2>2, <2>3, <2>4, AppliedIsRepair
<1>3. CASE \E o \in Objects : Deliver(o) \/ Relist(o)
  <2>1. \A o \in Objects : Current(o)' = Current(o)
    BY <1>3, InformerKeepsCurrent DEF IInv
  <2>2. UNCHANGED <<late, calm>>
    BY <1>3 DEF Deliver, Relist
  <2> QED
    BY <1>0, <2>1, <2>2, QuietStep
<1>4. CASE EditKubeVirt \/ \E x \in Watched : Resync(x) \/ Dispatch(x)
  <2>1. UNCHANGED <<seen, backlog, late, calm>>
    BY <1>4 DEF EditKubeVirt, Resync, Dispatch, cacheVars
  <2> QED
    BY <1>0, <2>1, QuietStep DEF Current
<1>5. CASE CalmDown
  <2>1. ~calm /\ calm' = TRUE /\ Formers' = {} /\ Published' = Published
    BY <1>5 DEF CalmDown, Formers, Published, Current, cacheVars
  <2> QED
    BY <1>0, <2>1 DEF Desired!Next, Desired!CalmDown
<1> QED
  BY <1>1, <1>2, <1>3, <1>4, <1>5 DEF World

LEMMA ReconcileRefines ==
    ASSUME IInv, Reconcile
    PROVE  Desired!Next \/ UNCHANGED <<Published, config, Formers, calm>>
<1>0. config' = config
  BY DEF Reconcile, Begin, SetupRules, SetupPanics, GetNothingToDo, GetToDelete, GetToWrite,
         GetFails, Delete, WriteSucceeds, WriteRejected, CallFails
<1>1. CASE UNCHANGED <<seen, backlog, late, calm>>
  BY <1>0, <1>1, QuietStep DEF Current
<1>2. CASE /\ step = "write" /\ Accepts(Rule, copy)
           /\ Revise(Rule, Repair(copy))
           /\ UNCHANGED <<seen, calm>> /\ late' = StillValid(late, Rule)
  <2>1. Repair(copy) \in Contents /\ late' \subseteq late
    BY <1>2, RepairOK DEF IInv, StillValid
  <2>2. Current(Rule) = copy
    BY <1>2, CopyIsCurrent DEF Accepts
  <2>3. WantedBy(config) # {} /\ registry = WantedBy(config) /\ ~UpToDate(copy)
    BY <1>2 DEF IInv, RegistryOK, CopyOK, Wanted
  <2>4. \/ /\ WantedBy(config) # {} /\ Current(Rule) = Absent /\ Repair(copy) = WantedBy(config)
        \/ /\ WantedBy(config) # {} /\ Current(Rule) # Absent
           /\ Current(Rule) \cap Managed # WantedBy(config)
           /\ Repair(copy) = (Current(Rule) \ Managed) \cup WantedBy(config)
    BY <2>2, <2>3 DEF Repair, UpToDate
  <2> QED
    BY <1>0, <1>2, <2>1, <2>4, AppliedIsRepair
<1>3. CASE /\ step = "delete" /\ Current(Rule) # Absent
           /\ Revise(Rule, Absent)
           /\ UNCHANGED <<seen, calm>> /\ late' = StillValid(late, Rule)
  <2>1. Absent \in Contents /\ late' \subseteq late
    BY <1>3 DEF Contents, StillValid
  <2>2. WantedBy(config) = {}
    BY <1>3 DEF IInv, RegistryOK, CopyOK, Wanted
  <2> QED
    BY <1>0, <1>3, <2>1, <2>2, AppliedIsRepair
<1> QED
  BY <1>1, <1>2, <1>3
  DEF Reconcile, Begin, SetupRules, SetupPanics, GetNothingToDo, GetToDelete, GetToWrite,
      GetFails, Delete, WriteSucceeds, WriteRejected, CallFails, Take, Read, Write, Requeue,
      WriteAndRequeue, cacheVars, runtimeVars

LEMMA RestartRefines ==
    ASSUME IInv, Restart
    PROVE  Desired!Next
<1> PICK lagging \in SUBSET Objects : RuntimeRestart(lagging, UnderWay)
  BY DEF Restart
<1>1. \A o \in Objects : Current(o)' = Current(o)
  BY RuntimeRestartOK, UnderWayOK DEF IInv
<1>2. Published' = Published /\ ~calm /\ calm' = calm
  BY <1>1 DEF Published, RuntimeRestart
<1>3. Formers' \subseteq {config} /\ config' \in Configs
  BY UnderWayOK DEF Formers, RuntimeRestart, Restart
<1> QED
  BY <1>2, <1>3 DEF Desired!Next, Desired!TakeOver

(* The reconciler implements DesiredState: no partial rule set is ever     *)
(* published, nothing foreign is overwritten, the object is deleted only   *)
(* when no rule is configured, and an earlier process can do no more than  *)
(* finish the call it had under way.                                       *)
THEOREM ImplementsDesiredState == Spec => OnlyRepairs
<1>1. Init => Desired!Init
  <2> SUFFICES ASSUME Init PROVE Desired!Init
    OBVIOUS
  <2>1. Published = seen
    BY DEF Init, RuntimeInit, Published, Current
  <2>2. \A o \in Objects : seen[o] \in Others[o]
    BY DEF Init, RuntimeInit
  <2>3. seen \in [Objects -> UNION {Others[o] : o \in Objects}]
    BY <2>2 DEF Init, RuntimeInit
  <2>4. Formers = {} /\ calm = FALSE /\ config \in Configs
    BY DEF Init, RuntimeInit, Formers
  <2> QED
    BY <2>1, <2>2, <2>3, <2>4 DEF Desired!Init
<1>2. IInv /\ [Next]_vars => [Desired!Next]_(Desired!vars)
  <2> SUFFICES ASSUME IInv, [Next]_vars
               PROVE  Desired!Next \/ UNCHANGED <<Published, config, Formers, calm>>
    BY DEF Desired!vars
  <2>1. CASE UNCHANGED vars
    BY <2>1, QuietStep DEF vars, runtimeVars, reconcileVars, Current
  <2> QED
    BY <2>1, WorldRefines, ReconcileRefines, RestartRefines DEF Next
<1> QED
  BY <1>1, <1>2, SpecIInv, PTL DEF Spec, OnlyRepairs, Desired!Spec
=============================================================================
