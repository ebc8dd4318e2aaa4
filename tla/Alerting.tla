------------------------------ MODULE Alerting ------------------------------
(***************************************************************************)
(* A Prometheus that scrapes the cluster and evaluates the rules the       *)
(* controller publishes, while pods, nodes, VMs and VMIs change. The       *)
(* recording rules and the alerts are two groups, evaluated each at its    *)
(* own pace. Samples of VMs and VMIs are those of the collectors.          *)
(***************************************************************************)
EXTENDS Alerts, VMICollector, VMStatsReports

CONSTANTS
    KubeVirtNamespace,  \* the namespace KubeVirt's components run in
    Objects,     \* Objects[kind][key]: what may exist under a key
    Starts,      \* clusters a run begins with
    MaxChanges   \* bound on the changes of a run

VARIABLES
    cluster,    \* what exists, by kind and key
    changes,    \* changes so far
    recorded,   \* recorded[r]: the vector rule r gave in its last evaluation
    active,     \* label sets for which an alert's expression held when last evaluated
    firing,     \* label sets for which an alert fires
    calm        \* evaluations since the last change, up to four: twice each group

vars == <<cluster, changes, recorded, active, firing, calm>>

Kinds == DOMAIN Objects

(* A cluster holds at most one object under each of finitely many keys. A  *)
(* pod that is ready runs, and it has failed at most all of its requests   *)
(* to the API. VMs and VMIs have a name, and a status and a phase that are *)
(* told apart in lower case as well.                                       *)
ClusterKinds == {"pods", "nodes", "replicas", "config", "vms", "vmis", "statistics"}

WellFormed(kind, k, o) ==
    /\ kind = "pods" => /\ k = <<k[1], k[2]>>
                        /\ {o.running, o.up, o.ready, o.leading} \subseteq BOOLEAN
                        /\ o.ready => o.running
                        /\ o.failing \in 0..100
    /\ kind = "nodes" => {o.kvm, o.arbiter, o.schedulable, o.cordoned} \subseteq BOOLEAN
    /\ kind = "replicas" => o \in Nat
    /\ kind = "config" => o \in BOOLEAN
    /\ kind = "vms" => k[2] # "" /\ o.status \in DOMAIN Lower
    /\ kind = "vmis" => k[2] # "" /\ o.phase \in DOMAIN Lower
    /\ kind = "statistics" => StatsOK(o.stats)

ClusterOK(c) ==
    /\ c = [kind \in ClusterKinds |-> c[kind]]
    /\ \A kind \in ClusterKinds :
          /\ c[kind] = [k \in DOMAIN c[kind] |-> c[kind][k]]
          /\ IsFiniteSet(DOMAIN c[kind])
          /\ \A k \in DOMAIN c[kind] : \A o \in c[kind][k] : c[kind][k] = {o} /\ WellFormed(kind, k, o)

Lowered == [Provisioning |-> "provisioning", Starting |-> "starting", Running |-> "running",
            Stopping |-> "stopping", Terminating |-> "terminating"]

ASSUME AlertingAssumption ==
    /\ MaxChanges \in Nat
    /\ \A s \in DOMAIN Lower : \A t \in DOMAIN Lowered : Lower[s] = Lowered[t] <=> s = t
    /\ Kinds \subseteq ClusterKinds
    /\ \A kind \in Kinds : \A k \in DOMAIN Objects[kind] : \A o \in Objects[kind][k] : WellFormed(kind, k, o)
    /\ \A s \in Starts :
          /\ ClusterOK(s)
          /\ \A kind \in Kinds : \A k \in DOMAIN Objects[kind] :
                /\ k \in DOMAIN s[kind]
                /\ s[kind][k] \in {{}} \cup {{c} : c \in Objects[kind][k]}

Existing(kind) == {k \in DOMAIN cluster[kind] : cluster[kind][k] # {}}
Object(kind, k) == Value(cluster[kind][k])
PodsIn(app) == {k \in Existing("pods") : k[2] \in PodsOf[app]}
ComponentPods(app) == {k \in PodsIn(app) : k[1] = KubeVirtNamespace}

Init ==
    /\ cluster \in Starts
    /\ changes = 0
    /\ recorded = [rule \in ToSet(RuleOrder) |-> {}]
    /\ active = [a \in AlertNames |-> {}]
    /\ firing = [a \in AlertNames |-> {}]
    /\ calm = 0

-----------------------------------------------------------------------------
(* Scraped series. *)
Bit(b) == IF b THEN 1 ELSE 0
NonEmpty(labels) == [l \in {m \in DOMAIN labels : labels[m] # ""} |-> labels[l]]

(* kube-state-metrics. *)
PodSeries(k) ==
    LET o == Object("pods", k)
    IN  {Series("kube_pod_info", NonEmpty([namespace |-> k[1], pod |-> k[2], node |-> o.node]), 1),
         Series("kube_pod_status_phase", [namespace |-> k[1], pod |-> k[2], phase |-> "Running"],
                Bit(o.running)),
         Series("kube_pod_status_ready", [namespace |-> k[1], pod |-> k[2], condition |-> "true"],
                Bit(o.ready))}

NodeSeries(n) ==
    LET o == Object("nodes", n)
    IN  {Series("kube_node_status_allocatable", [node |-> n, resource |-> "cpu"], 8),
         Series("kube_node_status_allocatable", [node |-> n, resource |-> "devices_kubevirt_io_kvm"],
                Bit(o.kvm)),
         Series("kube_node_spec_unschedulable", [node |-> n], Bit(o.cordoned)),
         Series("kube_node_labels",
                [node |-> n, label_kubevirt_io_schedulable |-> IF o.schedulable THEN "true" ELSE "false"], 1)}
        \cup (IF o.arbiter THEN {Series("kube_node_role", [node |-> n, role |-> "arbiter"], 1)} ELSE {})

WorkloadSeries ==
    LET handlers == [namespace |-> KubeVirtNamespace, daemonset |-> "virt-handler"]
    IN  {Series("kube_deployment_spec_replicas", [namespace |-> KubeVirtNamespace, deployment |-> app],
                Object("replicas", app)) : app \in Existing("replicas")}
        \cup {Series("kube_daemonset_status_number_ready", handlers,
                     Cardinality({k \in ComponentPods("virt-handler") : Object("pods", k).ready})),
              Series("kube_daemonset_status_desired_number_scheduled", handlers,
                     Cardinality(Existing("nodes")))}

(* KubeVirt's components. *)
ComponentSeries(app, k) ==
    LET o == Object("pods", k)
        labels == [namespace |-> k[1], pod |-> k[2]]
        answered(code) == [namespace |-> k[1], pod |-> k[2], code |-> code]
    IN  {Series("up", labels, Bit(o.up))}
        \cup (IF ~o.up THEN {}
              ELSE {Series("kubevirt_rest_client_requests_total", answered("5xx"), o.failing),
                    Series("kubevirt_rest_client_requests_total", answered("2xx"), 100 - o.failing)}
                   \cup (IF app = "virt-controller"
                           THEN {Series("kubevirt_virt_controller_ready_status", labels, Bit(o.ready))} ELSE {})
                   \cup (IF app = "virt-operator"
                           THEN {Series("kubevirt_virt_operator_ready_status", labels, Bit(o.ready)),
                                 Series("kubevirt_virt_operator_leading_status", labels, Bit(o.leading))} ELSE {}))

(* The controller itself. Its ServiceMonitor does not honour the labels of *)
(* samples: namespace and pod are those of the target, the namespace of a  *)
(* sample becomes exported_namespace.                                      *)
Target(key) == [namespace |-> Namespace, pod |-> "observability", job |-> "metrics",
                name |-> key[2], exported_namespace |-> key[1]]
Scraped(key, labels) == NonEmpty(Extend(Target(key), labels))

VMSeries(k) ==
    LET info == Head(CollectVMsInfo(k, Object("vms", k), <<>>)).labels
    IN  {Series("kubevirt_vm_info", Scraped(k, [status |-> info.status, status_group |-> info.group]), 1)}

VMISeries(k) ==
    LET o == Object("vmis", k)
        pod == Value(getVMIPod(k, o, cluster.pods))
        info == Head(CollectVMIInfo(k, o, pod, <<>>)).labels
        blocker == Head(getEvictionBlocker(k, o))
    IN  {Series("kubevirt_vmi_info",
                Scraped(k, [node |-> info.node, phase |-> info.phase, vmi_pod |-> info.pod]), 1),
         Series("kubevirt_vmi_non_evictable", Scraped(k, [node |-> blocker.labels.node]), blocker.value)}

(* Fractions appear with their numerators: no rule reads a value that is    *)
(* not whole.                                                              *)
StatisticsSeries(k) ==
    LET e == Object("statistics", k)
        report == Report(k, e, Value(buildRuntimeLabels(e.vmi)))
        samples == VMStatsSamples(report)
    IN  {Series(s.metric, Scraped(k, Extend([node |-> s.labels.base.node],
                                           Extend(s.labels.base.runtime, s.labels.own))),
                s.value[1]) : s \in ToSet(samples)}

Components == {"virt-api", "virt-controller", "virt-operator", "virt-handler"}

Scrape == Database(
    (UNION {PodSeries(k) : k \in Existing("pods")})
    \cup (UNION {NodeSeries(n) : n \in Existing("nodes")})
    \cup WorkloadSeries
    \cup (UNION {UNION {ComponentSeries(app, k) : k \in ComponentPods(app)} : app \in Components})
    \cup {Series("kubevirt_configuration_emulation_enabled", [namespace |-> KubeVirtNamespace],
                 Bit(Object("config", k))) : k \in Existing("config")}
    \cup (UNION {VMSeries(k) : k \in Existing("vms")})
    \cup (UNION {VMISeries(k) : k \in Existing("vmis")})
    \cup (UNION {StatisticsSeries(k) : k \in Existing("statistics")}))

-----------------------------------------------------------------------------
Change(kind, k) ==
    /\ changes < MaxChanges
    /\ changes' = changes + 1
    /\ \E o \in {{}} \cup {{c} : c \in Objects[kind][k]} :
          /\ o # cluster[kind][k]
          /\ cluster' = [cluster EXCEPT ![kind][k] = o]
    /\ calm' = 0
    /\ UNCHANGED <<recorded, active, firing>>

(* The group of recording rules: each sees what those before it have       *)
(* recorded this time, and what those after it recorded the last time.     *)
Evaluate(database, rule) == Value({[db EXCEPT ![rule] = RuleExpr(rule, db)] : db \in {database}})
Evaluated(database) == FoldLeft(Evaluate, database, RuleOrder)

(* Fault: a rule sees nothing of what was recorded the last time. *)
EvalRecordingAfresh ==
    /\ \E db \in {Evaluated(Extend(Scrape, [rule \in DOMAIN recorded |-> {}]))} :
          recorded' = [rule \in DOMAIN recorded |-> db[rule]]
    /\ calm' = IF calm < 2 THEN calm + 1 ELSE calm
    /\ UNCHANGED <<cluster, changes, active, firing>>

EvalRecording ==
    /\ \E db \in {Evaluated(Extend(Scrape, recorded))} :
          recorded' = [rule \in DOMAIN recorded |-> db[rule]]
    /\ calm' = IF calm < 2 THEN calm + 1 ELSE calm
    /\ UNCHANGED <<cluster, changes, active, firing>>

(* Fault: an alert that fired does not stop. *)
EvalAlertsForGood ==
    /\ \E now \in {[a \in AlertNames |-> {e.labels : e \in AlertExpr(a, Extend(Scrape, recorded))}]} :
          /\ firing' = [a \in AlertNames |-> firing[a] \cup now[a]]
          /\ active' = now
    /\ calm' = IF calm \in {2, 3} THEN calm + 1 ELSE calm
    /\ UNCHANGED <<cluster, changes, recorded>>

(* The group of alerts: one with a "for" clause fires when its expression  *)
(* held in the evaluation before as well.                                  *)
EvalAlerts ==
    /\ \E db \in {Extend(Scrape, recorded)} :
       LET now == [a \in AlertNames |-> {e.labels : e \in AlertExpr(a, db)}]
       IN  /\ firing' = [a \in AlertNames |-> IF a \in Immediate THEN now[a] ELSE now[a] \cap active[a]]
           /\ active' = now
    /\ calm' = IF calm \in {2, 3} THEN calm + 1 ELSE calm
    /\ UNCHANGED <<cluster, changes, recorded>>

Next == \/ \E kind \in Kinds : \E k \in DOMAIN Objects[kind] : Change(kind, k)
        \/ EvalRecording
        \/ EvalAlerts

Spec == Init /\ [][Next]_vars

-----------------------------------------------------------------------------
(* Type invariant: a firing alert is one whose expression held last. *)
TypeOK ==
    /\ \A kind \in Kinds : \A k \in DOMAIN Objects[kind] :
          cluster[kind][k] \in {{}} \cup {{c} : c \in Objects[kind][k]}
    /\ changes \in 0..MaxChanges
    /\ \A rule \in ToSet(RuleOrder) : \A e \in recorded[rule] : e.value \in Int
    /\ \A a \in AlertNames : firing[a] \subseteq active[a]
    /\ calm \in 0..4

(* Since the last change both groups were evaluated often enough for their *)
(* values to follow and for alerts to fire.                                *)
Settled == calm = 4
Fires(alert) == firing[alert] # {}

(* The namespace of what a sample is about is not in its label namespace,  *)
(* and joins go by the name alone: they need names that are unique in the  *)
(* cluster.                                                                *)
UniqueNames(keys) == \A j, k \in keys : j[2] = k[2] => j = k

(* The pods the rules take for those of a component, and which of them     *)
(* also are and have an endpoint that Prometheus scrapes.                  *)
Watched(app) == {k \in PodsIn(app) : k[1] = Namespace}
Seen(app) == Watched(app) \cap ComponentPods(app)
Beside == Namespace = KubeVirtNamespace

UpPods(app) == {k \in Seen(app) : Object("pods", k).up}
RunningPods(app) == {k \in Watched(app) : Object("pods", k).running}
ReadyPods(app) == {k \in UpPods(app) : Object("pods", k).ready}

(* The alerts of KubeVirt's components fire exactly when the pods and      *)
(* deployments in the controller's namespace are as their expressions say, *)
(* also when all pods, and with them all series, of a component are gone.  *)
(* That are the components themselves only if the controller runs beside   *)
(* them (VirtAPIDownIsTrue). Some summaries say something else: that of    *)
(* LowVirtControllersCount tells of ready pods (virt-controller.go:79) and *)
(* those of LowVirtAPICount and LowVirtOperatorCount of running ones       *)
(* (virt-api.go:52, virt-operator.go:54), where pods are counted that      *)
(* answer a scrape; and "More than 80%" of failed calls (alerts.go:116)    *)
(* means 80% or more.                                                      *)
ComponentAlertsExact ==
    Settled =>
        /\ Fires("VirtAPIDown") <=> UpPods("virt-api") = {}
        /\ Fires("VirtOperatorDown") <=> UpPods("virt-operator") = {}
        /\ Fires("VirtControllerDown") <=> RunningPods("virt-controller") = {}
        /\ Fires("NoReadyVirtController") <=> ReadyPods("virt-controller") = {}
        /\ Fires("NoReadyVirtOperator") <=> ReadyPods("virt-operator") = {}
        /\ Fires("LowReadyVirtControllersCount") <=>
               ~(RunningPods("virt-controller") \subseteq ReadyPods("virt-controller"))
        /\ Fires("LowReadyVirtOperatorsCount") <=>
               ~(RunningPods("virt-operator") \subseteq ReadyPods("virt-operator"))
        /\ Fires("NoLeadingVirtOperator") <=>
               /\ UpPods("virt-operator") # {}
               /\ \A k \in UpPods("virt-operator") : ~Object("pods", k).leading
        /\ \A p \in {<<"LowVirtAPICount", "virt-api">>, <<"LowVirtControllersCount", "virt-controller">>,
                     <<"LowVirtOperatorCount", "virt-operator">>} :
              Fires(p[1]) <=> /\ Beside
                              /\ \E r \in Existing("replicas") \cap {p[2]} :
                                    4 * Cardinality(UpPods(p[2])) < 3 * Object("replicas", r)
        /\ \A p \in {<<"VirtApiRESTErrorsBurst", "virt-api">>,
                     <<"VirtControllerRESTErrorsBurst", "virt-controller">>,
                     <<"VirtHandlerRESTErrorsBurst", "virt-handler">>,
                     <<"VirtOperatorRESTErrorsBurst", "virt-operator">>} :
              Fires(p[1]) <=>
                  /\ UpPods(p[2]) # {}
                  /\ MapThenSumSet(LAMBDA k : Object("pods", k).failing, UpPods(p[2]))
                         >= 80 * Cardinality(UpPods(p[2]))

(* The alerts on nodes fire exactly when the cluster is as they say:       *)
(* fewer than two nodes with KVM among several that may run VMs, no node   *)
(* to run VMs on, and nodes with virtual machines but no ready             *)
(* virt-handler. The last needs that no pod of another namespace is called *)
(* as a virt-handler is. The alert on the rollout of virt-handlers needs a *)
(* controller beside them to fire.                                         *)
NodeAlertsExact ==
    LET nodes(Holds(_)) == {n \in Existing("nodes") : Holds(Object("nodes", n))}
        kvm == nodes(LAMBDA o : o.kvm)
        at(app, Holds(_)) == {Object("pods", k).node : k \in {q \in PodsIn(app) : Holds(Object("pods", q))}}
    IN  Settled =>
        /\ Fires("LowKVMNodesCount") <=>
               Cardinality(nodes(LAMBDA o : ~o.arbiter)) > 1 /\ Cardinality(kvm) < 2
        /\ Fires("KubeVirtNoAvailableNodesToRunVMs") <=>
               \/ kvm = {} /\ \A c \in Existing("config") : ~Object("config", c)
               \/ nodes(LAMBDA o : o.schedulable /\ ~o.cordoned) = {}
        /\ UniqueNames(PodsIn("virt-handler")) =>
               {l.node : l \in firing["OrphanedVirtualMachineInstances"]} =
                   (at("virt-launcher", LAMBDA o : TRUE) \ {""}) \ at("virt-handler", LAMBDA o : o.ready)
        /\ Fires("VirtHandlerDaemonSetRolloutFailing") <=>
               /\ Beside
               /\ Cardinality({k \in ComponentPods("virt-handler") : Object("pods", k).ready})
                      # Cardinality(Existing("nodes"))

(* A VM that is starting, terminating or in error raises exactly one of    *)
(* the two alerts on stuck VMs: with the node where it has an instance, if *)
(* that has one, and without where it has none.                            *)
StuckVMsAlertedOnce ==
    LET names(alert) == {l.name : l \in firing[alert]}
        stuck == {k \in Existing("vms") :
                     LET status == Object("vms", k).status
                     IN  status \in {"Starting", "Terminating"} \cup StatusGroups.error}
        at(k) == NonEmpty([name |-> k[2], node |-> Object("vmis", k).node])
    IN  Settled /\ UniqueNames(Existing("vms") \cup Existing("vmis")) =>
        /\ \A k \in stuck :
              IF k \in Existing("vmis")
                THEN /\ k[2] \notin names("VirtualMachineStuckInUnhealthyState")
                     /\ \E l \in firing["VirtualMachineStuckOnNode"] :
                           On(Element(l, 1), {"name", "node"}) = at(k)
                ELSE /\ k[2] \in names("VirtualMachineStuckInUnhealthyState")
                     /\ k[2] \notin names("VirtualMachineStuckOnNode")
        /\ names("VirtualMachineStuckInUnhealthyState") \cap names("VirtualMachineStuckOnNode") = {}

(* VMCannotBeEvicted fires exactly for the running VMIs that are to be     *)
(* migrated when their node is drained and cannot be.                      *)
EvictionAlertExact ==
    Settled /\ UniqueNames(Existing("vmis")) =>
        {l.name : l \in firing["VMCannotBeEvicted"]} =
            {k[2] : k \in {q \in Existing("vmis") :
                LET o == Object("vmis", q)
                IN  /\ o.phase = "Running"
                    /\ o.strategy \in {"LiveMigrate", "LiveMigrateIfPossible"}
                    /\ o.migratable # {TRUE}}}

(* Deprecated metrics have the values of those that replace them, although *)
(* most are evaluated before these.                                        *)
AliasesAgree ==
    Settled => \A d \in DOMAIN Replacement : All(recorded, d) = All(recorded, Replacement[d])

(* docs/metrics.md: namespace:kubevirt_vm:sum is "The number of VMs in the *)
(* cluster by namespace."                                                  *)
VMsCountedByNamespace ==
    Settled =>
        \A ns \in {k[1] : k \in Existing("vms")} :
            Element([namespace |-> ns], Cardinality({k \in Existing("vms") : k[1] = ns}))
                \in All(recorded, "namespace:kubevirt_vm:sum")

(* virt-api.go:36, the summary of VirtAPIDown: "All virt-api servers are   *)
(* down."                                                                  *)
VirtAPIDownIsTrue ==
    Settled /\ Fires("VirtAPIDown") => \A k \in ComponentPods("virt-api") : ~Object("pods", k).up

(* docs/metrics.md: vmi:kubevirt_vmi_guest_queue_length:sum is the "Guest  *)
(* queue length.": a guest that reports its load has one.                  *)
QueueLengthKnown ==
    Settled =>
        \A k \in Existing("statistics") :
            Object("statistics", k).stats.load # {} =>
                \E e \in All(recorded, "vmi:kubevirt_vmi_guest_queue_length:sum") : e.labels.name = k[2]
=============================================================================
