------------------------------- MODULE Alerts -------------------------------
(***************************************************************************)
(* The alerts (rules/alerts), as queries over the database db. Alerts on   *)
(* one metric of KubeVirt itself (outdated VMIs, hotplugged volumes),      *)
(* on counts of a day (migrations, failed launchers) and on requests to    *)
(* deprecated APIs are left out.                                           *)
(***************************************************************************)
EXTENDS RecordingRules

(* Values the rules recorded. *)
Equals(db, metric, n) == Where(All(db, metric), LAMBDA m : m = n)
Below(db, metric, n) == Where(All(db, metric), LAMBDA m : m < n)
Above(db, metric, n) == Where(All(db, metric), LAMBDA m : m > n)

-----------------------------------------------------------------------------
(* Components: virt-api.go, virt-controller.go, virt-operator.go,          *)
(* virt-handler.go.                                                        *)
LowCount(db, app, up) ==
    Where(PercentOn(All(db, up),
                    Select(db, "kube_deployment_spec_replicas",
                           [deployment |-> {app}, namespace |-> {Namespace}]), {}),
          LAMBDA n : n < 75)

RunningNotReady(db, ready, running) ==
    {e \in All(db, ready) : \E f \in All(db, running) : e.labels = f.labels /\ e.value < f.value}

getErrorRatio(db, app) ==
    LET calls(codes) == SumAll(Select(db, "kubevirt_rest_client_requests_total",
                                      [code |-> codes, namespace |-> {Namespace}, pod |-> PodsOf[app]]))
    IN  PercentOn(calls({"4xx", "5xx"}), calls({"2xx", "4xx", "5xx"}), {})

RolloutFailing(db) ==
    LET handlers(metric) == Select(db, metric, [daemonset |-> {"virt-handler"}, namespace |-> {Namespace}])
    IN  Where(Binary(handlers("kube_daemonset_status_number_ready"),
                     handlers("kube_daemonset_status_desired_number_scheduled"), Minus),
              LAMBDA n : n # 0)

(* Nodes: system.go. *)
LowKVMNodesCount(db) ==
    And(Above(db, "cluster:kubevirt_nodes_allocatable:count", 1),
        Below(db, "cluster:kubevirt_nodes_with_kvm:count", 2))

NoAvailableNodes(db) ==
    LET zero(v) == Where(v, LAMBDA n : n = 0)
        open == Map(All(db, "kube_node_spec_unschedulable"), LAMBDA n : 1 - n)
        labelled == Select(db, "kube_node_labels", [label_kubevirt_io_schedulable |-> {"true"}])
    IN  Or(And(zero(OrZero(All(db, "cluster:kubevirt_nodes_with_kvm:count"))),
               zero(OrZero(SumAll(All(db, "kubevirt_configuration_emulation_enabled"))))),
           zero(OrZero(SumAll(GroupLeft(labelled, open, {"node"}, {}, Times_)))))

-----------------------------------------------------------------------------
(* VMs: vms.go. *)
OnNode(db, app) == {e \in Select(db, "kube_pod_info", [pod |-> PodsOf[app]]) : "node" \in DOMAIN e.labels}

(* Fault: the nodes of virt-launcher pods are not looked at. *)
OrphanedWithoutLaunchers(db) ==
    LET ready == Select(db, "kube_pod_status_ready", [condition |-> {"true"}, pod |-> PodsOf["virt-handler"]])
    IN  Where(MaxBy(GroupLeft(ready, MaxBy(OnNode(db, "virt-handler"), {"pod", "node"}),
                              {"pod"}, {"node"}, Times_), {"node"}),
              LAMBDA n : n = 0)

Orphaned(db) ==
    LET ready == Select(db, "kube_pod_status_ready", [condition |-> {"true"}, pod |-> PodsOf["virt-handler"]])
        handled == MaxBy(GroupLeft(ready, MaxBy(OnNode(db, "virt-handler"), {"pod", "node"}),
                                   {"pod"}, {"node"}, Times_), {"node"})
    IN  Where(Or(Where(handled, LAMBDA n : n = 1),
                 Map(CountBy(OnNode(db, "virt-launcher"), {"node"}), LAMBDA n : n * 0)),
              LAMBDA n : n = 0)

(* Fault: VMIs that do not run count as well. *)
CannotBeEvictedInAnyPhase(db) ==
    Where(GroupLeft(All(db, "kubevirt_vmi_non_evictable"), All(db, "kubevirt_vmi_info"),
                    PerVMI, {}, Times_), LAMBDA n : n = 1)

CannotBeEvicted(db) ==
    Where(GroupLeft(All(db, "kubevirt_vmi_non_evictable"),
                    Select(db, "kubevirt_vmi_info", [phase |-> {"running"}]), PerVMI, {}, Times_),
          LAMBDA n : n = 1)

InStatus(db, statuses) == Select(db, "kubevirt_vm_info", [status |-> statuses])
InError(db) == Select(db, "kubevirt_vm_info", [status_group |-> {"error"}])

(* Fault: VMs with an instance count as well. *)
StuckAnywhere(db) ==
    SumBy(Or(InStatus(db, {"provisioning", "starting", "terminating"}), InError(db)),
          {"name", "namespace", "status"})

StuckInUnhealthyState(db) ==
    UnlessOn(SumBy(Or(InStatus(db, {"provisioning", "starting", "terminating"}), InError(db)),
                   {"name", "namespace", "status"}),
             All(db, "kubevirt_vmi_info"), PerVMI)

StuckOnNode(db) ==
    SumBy(GroupLeft(Or(InStatus(db, {"starting", "stopping", "terminating"}),
                       AndOn(InError(db), All(db, "kubevirt_vmi_info"), PerVMI)),
                    All(db, "kubevirt_vmi_info"), PerVMI, {"node"}, Times_),
          {"name", "namespace", "status", "node"})

(* The name of the VMI moves to the label vm, the pod's takes its place. *)
ByPod(db) ==
    LabelReplace(LabelReplace(Select(db, "kubevirt_vmi_info", [phase |-> {"running"}]), "vm", "name"),
                 "name", "vmi_pod")

MemoryPressure(db) ==
    LET low == Below(db, "vmi:kubevirt_vmi_memory_headroom_ratio:sum", 5)
        busy == Or(Above(db, "vmi:kubevirt_vmi_pgmajfaults:rate", 5),
                   Above(db, "vmi:kubevirt_vmi_swap_traffic_bytes:rate", 1048576))
    IN  GroupLeft(And(And(low, busy), Above(db, "vmi:kubevirt_vmi_memory_available_bytes:sum", 0)),
                  ByPod(db), PerVMI, {"vm"}, Times_)

MemoryAvailableLow(db) ==
    LET low == Below(db, "vmi:kubevirt_vmi_memory_headroom_ratio:sum", 3)
        quiet == And(Below(db, "vmi:kubevirt_vmi_swap_traffic_bytes:rate", 2048),
                     Below(db, "vmi:kubevirt_vmi_pgmajfaults:rate", 1))
    IN  GroupLeft(And(And(low, quiet), Above(db, "vmi:kubevirt_vmi_memory_available_bytes:sum", 0)),
                  ByPod(db), PerVMI, {"vm"}, Times_)

-----------------------------------------------------------------------------
(* Alerts without a "for" clause fire at once. *)
Immediate == {"GuestVCPUQueueHighWarning", "GuestVCPUQueueHighCritical"}

AlertNames ==
    {"LowKVMNodesCount", "KubeVirtNoAvailableNodesToRunVMs",
     "VirtAPIDown", "LowVirtAPICount", "VirtApiRESTErrorsBurst",
     "LowReadyVirtControllersCount", "NoReadyVirtController", "VirtControllerDown",
     "LowVirtControllersCount", "VirtControllerRESTErrorsBurst",
     "VirtHandlerDaemonSetRolloutFailing", "VirtHandlerRESTErrorsBurst",
     "VirtOperatorDown", "LowVirtOperatorCount", "VirtOperatorRESTErrorsBurst",
     "LowReadyVirtOperatorsCount", "NoReadyVirtOperator", "NoLeadingVirtOperator",
     "OrphanedVirtualMachineInstances", "VMCannotBeEvicted",
     "VirtualMachineStuckInUnhealthyState", "VirtualMachineStuckOnNode",
     "KubeVirtVMGuestMemoryPressure", "KubeVirtVMGuestMemoryAvailableLow"} \cup Immediate

Burst(db, app) == Where(getErrorRatio(db, app), LAMBDA n : n >= 80)

AlertExpr(alert, db) ==
    CASE alert = "LowKVMNodesCount"                 -> LowKVMNodesCount(db)
      [] alert = "KubeVirtNoAvailableNodesToRunVMs" -> NoAvailableNodes(db)
      [] alert = "VirtAPIDown"              -> Equals(db, "cluster:kubevirt_virt_api_up:sum", 0)
      [] alert = "LowVirtAPICount"          -> LowCount(db, "virt-api", "cluster:kubevirt_virt_api_up:sum")
      [] alert = "VirtApiRESTErrorsBurst"   -> Burst(db, "virt-api")
      [] alert = "LowReadyVirtControllersCount" ->
             RunningNotReady(db, "cluster:kubevirt_virt_controller_ready:sum",
                             "cluster:kubevirt_virt_controller_pods_running:count")
      [] alert = "NoReadyVirtController"    -> Equals(db, "cluster:kubevirt_virt_controller_ready:sum", 0)
      [] alert = "VirtControllerDown" ->
             Equals(db, "cluster:kubevirt_virt_controller_pods_running:count", 0)
      [] alert = "LowVirtControllersCount" ->
             LowCount(db, "virt-controller", "cluster:kubevirt_virt_controller_up:sum")
      [] alert = "VirtControllerRESTErrorsBurst" -> Burst(db, "virt-controller")
      [] alert = "VirtHandlerDaemonSetRolloutFailing" -> RolloutFailing(db)
      [] alert = "VirtHandlerRESTErrorsBurst" -> Burst(db, "virt-handler")
      [] alert = "VirtOperatorDown"         -> Equals(db, "cluster:kubevirt_virt_operator_up:sum", 0)
      [] alert = "LowVirtOperatorCount" ->
             LowCount(db, "virt-operator", "cluster:kubevirt_virt_operator_up:sum")
      [] alert = "VirtOperatorRESTErrorsBurst" -> Burst(db, "virt-operator")
      [] alert = "LowReadyVirtOperatorsCount" ->
             RunningNotReady(db, "cluster:kubevirt_virt_operator_ready:sum",
                             "cluster:kubevirt_virt_operator_pods_running:count")
      [] alert = "NoReadyVirtOperator"      -> Equals(db, "cluster:kubevirt_virt_operator_ready:sum", 0)
      [] alert = "NoLeadingVirtOperator"    -> Equals(db, "cluster:kubevirt_virt_operator_leading:sum", 0)
      [] alert = "OrphanedVirtualMachineInstances"     -> Orphaned(db)
      [] alert = "VMCannotBeEvicted"                   -> CannotBeEvicted(db)
      [] alert = "VirtualMachineStuckInUnhealthyState" -> StuckInUnhealthyState(db)
      [] alert = "VirtualMachineStuckOnNode"           -> StuckOnNode(db)
      [] alert = "KubeVirtVMGuestMemoryPressure"       -> MemoryPressure(db)
      [] alert = "KubeVirtVMGuestMemoryAvailableLow"   -> MemoryAvailableLow(db)
      [] alert = "GuestVCPUQueueHighWarning"  -> Above(db, "vmi:kubevirt_vmi_guest_queue_length:sum", 10)
      [] alert = "GuestVCPUQueueHighCritical" -> Above(db, "vmi:kubevirt_vmi_guest_queue_length:sum", 20)
=============================================================================
