--------------------------- MODULE PrometheusRule ---------------------------
(***************************************************************************)
(* PrometheusRuleReconciler (prometheusrule_controller.go) and the rules   *)
(* registry it fills (pkg/monitoring/rules): keeps one PrometheusRule that *)
(* holds the allowed alerts and recording rules, or none when no rule is   *)
(* allowed.                                                                *)
(*                                                                         *)
(* The content of the object is the set of the rules in its spec, plus     *)
(* "labels", "annotations" or "other" when those differ from the desired.  *)
(***************************************************************************)
EXTENDS ControllerRuntime

CONSTANTS
    Alerts, Records,  \* the alerts and recording rules compiled into the binary
    Configs           \* the configurations a process may be started with

VARIABLES
    config,    \* flags and environment of the running process
    registry,  \* the rules registered in it so far
    step,      \* "idle", or the next step of the running Reconcile
    copy       \* existing: what the Get before a write returned

reconcileVars == <<config, registry, step, copy>>
vars          == <<runtimeVars, reconcileVars>>

Rule    == "PrometheusRule"
Rules   == Alerts \cup Records
Managed == Rules \cup {"labels", "annotations"}

(* parseAllowlist: an empty flag allows everything; a name may be unknown. *)
Allowlist == [all : BOOLEAN, names : SUBSET STRING]

ASSUME RuleAssumption ==
    /\ Objects = {Rule}
    /\ Features = Managed \cup {"other"}
    /\ Rules \cap {"labels", "annotations", "other"} = {}
    /\ Configs \subseteq [alerts : Allowlist, records : Allowlist, template : BOOLEAN]

(* Fault: every name of the allowlist is taken for an alert. *)
AllowedNames(l) == IF l.all THEN Alerts ELSE l.names

filterAlerts(l)         == IF l.all THEN Alerts ELSE {r \in Alerts : r \in l.names}
filterRecordingRules(l) == IF l.all THEN Records ELSE {r \in Records : r \in l.names}

(* The rules a process is configured to publish. *)
WantedBy(g) == filterAlerts(g.alerts) \cup filterRecordingRules(g.records)
Wanted      == WantedBy(config)

HasRegisteredRules == registry # {}

(* Fault: the rules of the spec are not compared. *)
UpToDateLabels(c) == c # Absent /\ c \cap {"labels", "annotations"} = {}

(* Reconcile's comparison of spec, labels and annotations with the object  *)
(* built from the registry, and what it sends after reading c.             *)
UpToDate(c) == c # Absent /\ c \cap Managed = registry
Repair(c)   == IF c = Absent THEN registry ELSE (c \ Managed) \cup registry

-----------------------------------------------------------------------------
Init ==
    /\ RuntimeInit
    /\ config \in Configs
    /\ registry = {}
    /\ step = "idle"
    /\ copy = Absent

Begin ==
    /\ step = "idle"
    /\ Take
    /\ step' = "setup"
    /\ UNCHANGED <<config, registry, copy>>

Return == step' = "idle" /\ copy' = Absent

(* rules.SetupRules: recording rules first, then alerts. A bad runbook     *)
(* template makes alerts.Register panic; controller-runtime turns that     *)
(* into an error of Reconcile. The registry is never emptied.              *)
SetupRules ==
    /\ step = "setup"
    /\ config.template
    /\ registry' = registry \cup Wanted
    /\ step' = "get"
    /\ UNCHANGED <<runtimeVars, config, copy>>

(* Fault: Reconcile goes on with what was registered before the failure. *)
SetupIgnoresPanic ==
    /\ step = "setup"
    /\ ~config.template
    /\ registry' = registry \cup filterRecordingRules(config.records)
    /\ step' = "get"
    /\ UNCHANGED <<runtimeVars, config, copy>>

SetupPanics ==
    /\ step = "setup"
    /\ ~config.template
    /\ registry' = registry \cup filterRecordingRules(config.records)
    /\ Requeue
    /\ Return
    /\ UNCHANGED config

(* Fault: without rules there is nothing to do. *)
GetKeepsOldRule ==
    /\ step = "get"
    /\ HasRegisteredRules => UpToDate(seen[Rule])
    /\ Read(Rule)
    /\ Return
    /\ UNCHANGED <<config, registry>>

(* The Get, and the way Reconcile goes from there. *)
GetNothingToDo ==
    /\ step = "get"
    /\ IF HasRegisteredRules THEN UpToDate(seen[Rule]) ELSE seen[Rule] = Absent
    /\ Read(Rule)
    /\ Return
    /\ UNCHANGED <<config, registry>>

GetToDelete ==
    /\ step = "get"
    /\ ~HasRegisteredRules
    /\ seen[Rule] # Absent
    /\ Read(Rule)
    /\ step' = "delete"
    /\ UNCHANGED <<config, registry, copy>>

GetToWrite ==
    /\ step = "get"
    /\ HasRegisteredRules
    /\ ~UpToDate(seen[Rule])
    /\ Read(Rule)
    /\ copy' = seen[Rule]
    /\ step' = "write"
    /\ UNCHANGED <<config, registry>>

GetFails ==
    /\ step = "get"
    /\ ~calm
    /\ Requeue
    /\ Return
    /\ UNCHANGED <<config, registry>>

(* r.Delete carries no precondition; NotFound is not an error. *)
Delete ==
    /\ step = "delete"
    /\ IF Current(Rule) # Absent THEN Write(Rule, Absent) ELSE UNCHANGED runtimeVars
    /\ Return
    /\ UNCHANGED <<config, registry>>

WriteSucceeds ==
    /\ step = "write"
    /\ Accepts(Rule, copy)
    /\ Write(Rule, Repair(copy))
    /\ Return
    /\ UNCHANGED <<config, registry>>

(* AlreadyExists, Conflict or NotFound: the informer cache was behind. *)
WriteRejected ==
    /\ step = "write"
    /\ ~Accepts(Rule, copy)
    /\ Requeue
    /\ Return
    /\ UNCHANGED <<config, registry>>

(* The API server cannot be reached, or its answer is lost. *)
CallFails ==
    /\ ~calm
    /\ \/ step \in {"write", "delete"} /\ Requeue
       \/ /\ step = "write"
          /\ Accepts(Rule, copy)
          /\ WriteAndRequeue(Rule, Repair(copy))
       \/ /\ step = "delete"
          /\ Current(Rule) # Absent
          /\ WriteAndRequeue(Rule, Absent)
    /\ Return
    /\ UNCHANGED <<config, registry>>

(* The call this process has under way. *)
UnderWay ==
    CASE step = "delete" -> {[obj |-> Rule, kind |-> "delete", content |-> Absent, by |-> config]}
      [] step = "write" /\ copy = Absent ->
             {[obj |-> Rule, kind |-> "create", content |-> Repair(copy), by |-> config]}
      [] step = "write" /\ copy # Absent /\ Rule \in holding ->
             {[obj |-> Rule, kind |-> "update", content |-> Repair(copy), by |-> config]}
      [] OTHER -> {}

(* Another process, perhaps with other flags, takes over. *)
Restart ==
    /\ \E lagging \in SUBSET Objects : RuntimeRestart(lagging, UnderWay)
    /\ config' \in Configs
    /\ registry' = {}
    /\ Return

Reconcile == \/ Begin \/ SetupRules \/ SetupPanics
             \/ GetNothingToDo \/ GetToDelete \/ GetToWrite \/ GetFails
             \/ Delete \/ WriteSucceeds \/ WriteRejected \/ CallFails

Next == \/ World /\ UNCHANGED reconcileVars
        \/ Reconcile
        \/ Restart

Spec == Init /\ [][Next]_vars

(* As for MetricsResources: watches, handlers and the worker make          *)
(* progress, informers resync, API calls end.                              *)
WorldStep(A) == A /\ UNCHANGED reconcileVars
Fairness ==
    /\ WF_vars(WorldStep(Deliver(Rule)))
    /\ \A x \in Watched : WF_vars(WorldStep(Dispatch(x))) /\ WF_vars(WorldStep(Resync(x)))
    /\ WF_vars(Begin)
    /\ WF_vars(SetupRules \/ SetupPanics)
    /\ WF_vars(GetNothingToDo \/ GetToDelete \/ GetToWrite)
    /\ WF_vars(Delete \/ WriteSucceeds \/ WriteRejected)

FairSpec == Spec /\ Fairness

-----------------------------------------------------------------------------
(* Type invariant: the world's variables and the reconciler's. *)
TypeOK ==
    /\ RuntimeTypeOK
    /\ config \in Configs
    /\ registry \subseteq Rules
    /\ step \in {"idle", "setup", "get", "write", "delete"}
    /\ copy \in Contents

(* The content a process with the configuration g wants. *)
Fine(g, o, c)   == IF WantedBy(g) = {} THEN c = Absent
                                       ELSE c # Absent /\ c \cap Managed = WantedBy(g)
AsConfigured(c) == Fine(config, Rule, c)

(* No KubeVirt CR and no PrometheusRule: no watch has anything to report. *)
Dormant == ~kubevirt /\ Current(Rule) = Absent

(* When nothing is under way the PrometheusRule is the one the flags of    *)
(* the running process ask for, whatever an earlier process with other     *)
(* flags left behind: new rules added, dropped ones removed, the whole     *)
(* object deleted when no rule is allowed.                                 *)
SettledMeansConfigured ==
    Drained /\ step = "idle" => AsConfigured(Current(Rule)) \/ Dormant \/ missed

(* What the controller promises: see DesiredState. *)
Formers   == {w.by : w \in late}
Published == [o \in Objects |-> Current(o)]
OfManaged == [o \in Objects |-> Managed]
Desired == INSTANCE DesiredState
           WITH content <- Published, goal <- config, former <- Formers,
                Goals <- Configs, Managed <- OfManaged

(* The PrometheusRule changes only as DesiredState allows: every write     *)
(* publishes all of the rules its process is configured with and only      *)
(* those, also after a registration that failed half way; fields it does   *)
(* not manage survive an update; only a process without any rule deletes;  *)
(* and of the flags of an earlier process at most the call it had under    *)
(* way when it lost its lease is still applied.                            *)
OnlyRepairs == Desired!Spec

(* Once the world is calm the PrometheusRule becomes what the flags ask    *)
(* for and stays so, unless the runbook template is invalid.               *)
Converges == calm ~> [](AsConfigured(Current(Rule)) \/ Dormant \/ ~config.template)
=============================================================================
