--------------------------- MODULE RecordingRules ---------------------------
(***************************************************************************)
(* The recording rules (rules/recordingrules), as queries over the         *)
(* database db of series scraped and recorded before. Rules over the       *)
(* memory of containers, restored claims and requests to deprecated APIs,  *)
(* which no alert modelled here reads, are left out. Growth is steady, so  *)
(* that the rules over 5 and over 30 minutes are one.                      *)
(***************************************************************************)
EXTENDS PromQL, Sequences

CONSTANTS
    Namespace,  \* the controller's namespace, which the rules are rendered with
    PodsOf      \* PodsOf[a]: names of pods that begin with the name of app a

ASSUME PodsAssumption == "" \notin PodsOf["virt-handler"] \cup PodsOf["virt-launcher"]

Pods(app) == [namespace |-> {Namespace}, pod |-> PodsOf[app]]

OrZero(v) == Or(v, vector(0))

-----------------------------------------------------------------------------
(* Components of KubeVirt (virt.go). *)
(* Fault: a component without pods has no value instead of zero. *)
UpWithoutDefault(db, app) == SumAll(Select(db, "up", Pods(app)))

Up(db, app) == OrZero(SumAll(Select(db, "up", Pods(app))))

PodsRunning(db, app) ==
    OrZero(CountAll(Where(Select(db, "kube_pod_status_phase",
                                 [phase |-> {"Running"}, namespace |-> {Namespace}, pod |-> PodsOf[app]]),
                          LAMBDA n : n = 1)))

Ready(db, app, status, on) ==
    LET ready == Select(db, "kube_pod_status_ready",
                        [condition |-> {"true"}, namespace |-> {Namespace}, pod |-> PodsOf[app]])
    IN  OrZero(SumAll(BinaryOn(ready, Select(db, status, [namespace |-> {Namespace}]), on, Times_)))

Leading(db) == SumAll(Select(db, "kubevirt_virt_operator_leading_status", [namespace |-> {Namespace}]))

(* Nodes (nodes.go). *)
NonSchedulableNodes(db) ==
    OrZero(SumAll(CountBy(Select(db, "kube_node_role", [role |-> {"arbiter"}]), {"node"})))

NodesAllocatable(db) ==
    Binary(CountAll(CountBy(All(db, "kube_node_status_allocatable"), {"node"})),
           All(db, "cluster:kubevirt_non_schedulable_nodes:sum"), Minus)

NodesWithKVM(db) ==
    OrZero(CountAll(Where(Select(db, "kube_node_status_allocatable",
                                 [resource |-> {"devices_kubevirt_io_kvm"}]), LAMBDA n : n # 0)))

-----------------------------------------------------------------------------
(* VMs and VMIs (vm.go, vmi.go). *)
PerVMI == {"name", "namespace"}

NumberOfVMs(db) == SumBy(CountBy(All(db, "kubevirt_vm_info"), PerVMI), {"namespace"})

VMIPhase(db) == SumBy(All(db, "kubevirt_vmi_info"), {"node", "phase", "instance_type"})

MemoryUsed(db) ==
    Binary(All(db, "kubevirt_vmi_memory_available_bytes"),
           All(db, "kubevirt_vmi_memory_usable_bytes"), Minus)

VCPUs(db) == CountBy(All(db, "kubevirt_vmi_vcpu_seconds_total"), {"namespace", "name", "node"})

GuestQueueLength(db) ==
    SumBy(Map(Binary(All(db, "kubevirt_vmi_guest_load_1m"), All(db, "vmi:kubevirt_vmi_vcpu:count"), Minus),
              LAMBDA n : Max({n, 0})), PerVMI)

MemoryAvailable(db) == SumBy(All(db, "kubevirt_vmi_memory_available_bytes"), PerVMI)

MemoryHeadroom(db) ==
    PercentOn(SumBy(All(db, "kubevirt_vmi_memory_usable_bytes"), PerVMI), MemoryAvailable(db), PerVMI)

MajorFaults(db) == SumBy(All(db, "kubevirt_vmi_memory_pgmajfault_total"), PerVMI)

SwapTraffic(db) ==
    Binary(SumBy(All(db, "kubevirt_vmi_memory_swap_in_traffic_bytes"), PerVMI),
           SumBy(All(db, "kubevirt_vmi_memory_swap_out_traffic_bytes"), PerVMI), LAMBDA a, b : a + b)

-----------------------------------------------------------------------------
(* Deprecated names (deprecated.go). *)
Replacement ==
    [kubevirt_allocatable_nodes     |-> "cluster:kubevirt_nodes_allocatable:count",
     kubevirt_nodes_with_kvm        |-> "cluster:kubevirt_nodes_with_kvm:count",
     kubevirt_number_of_vms         |-> "namespace:kubevirt_vm:sum",
     kubevirt_vmi_guest_vcpu_queue  |-> "vmi:kubevirt_vmi_guest_queue_length:sum",
     kubevirt_vmi_memory_used_bytes |-> "vmi:kubevirt_vmi_memory_used_bytes:sum",
     kubevirt_vmi_phase_count       |-> "node:kubevirt_vmi_phase:sum",
     kubevirt_virt_api_up           |-> "cluster:kubevirt_virt_api_up:sum",
     kubevirt_virt_controller_up    |-> "cluster:kubevirt_virt_controller_up:sum",
     kubevirt_virt_controller_ready |-> "cluster:kubevirt_virt_controller_ready:sum",
     kubevirt_virt_operator_up      |-> "cluster:kubevirt_virt_operator_up:sum",
     kubevirt_virt_operator_ready   |-> "cluster:kubevirt_virt_operator_ready:sum",
     kubevirt_virt_operator_leading |-> "cluster:kubevirt_virt_operator_leading:sum",
     kubevirt_virt_handler_up       |-> "cluster:kubevirt_virt_handler_up:sum"]

(* The rules in the order of their names, which is the order of the group. *)
RuleOrder ==
    <<"cluster:kubevirt_nodes_allocatable:count", "cluster:kubevirt_nodes_with_kvm:count",
      "cluster:kubevirt_non_schedulable_nodes:sum", "cluster:kubevirt_virt_api_up:sum",
      "cluster:kubevirt_virt_controller_pods_running:count",
      "cluster:kubevirt_virt_controller_ready:sum", "cluster:kubevirt_virt_controller_up:sum",
      "cluster:kubevirt_virt_handler_up:sum", "cluster:kubevirt_virt_operator_leading:sum",
      "cluster:kubevirt_virt_operator_pods_running:count",
      "cluster:kubevirt_virt_operator_ready:sum", "cluster:kubevirt_virt_operator_up:sum",
      "kubevirt_allocatable_nodes", "kubevirt_nodes_with_kvm", "kubevirt_number_of_vms",
      "kubevirt_virt_api_up", "kubevirt_virt_controller_ready", "kubevirt_virt_controller_up",
      "kubevirt_virt_handler_up", "kubevirt_virt_operator_leading",
      "kubevirt_virt_operator_ready", "kubevirt_virt_operator_up",
      "kubevirt_vmi_guest_vcpu_queue", "kubevirt_vmi_memory_used_bytes", "kubevirt_vmi_phase_count",
      "namespace:kubevirt_vm:sum", "node:kubevirt_vmi_phase:sum",
      "vmi:kubevirt_vmi_guest_queue_length:sum", "vmi:kubevirt_vmi_memory_available_bytes:sum",
      "vmi:kubevirt_vmi_memory_headroom_ratio:sum", "vmi:kubevirt_vmi_memory_used_bytes:sum",
      "vmi:kubevirt_vmi_pgmajfaults:rate", "vmi:kubevirt_vmi_swap_traffic_bytes:rate",
      "vmi:kubevirt_vmi_vcpu:count">>

RuleExpr(rule, db) ==
    CASE rule = "cluster:kubevirt_nodes_allocatable:count"            -> NodesAllocatable(db)
      [] rule = "cluster:kubevirt_nodes_with_kvm:count"               -> NodesWithKVM(db)
      [] rule = "cluster:kubevirt_non_schedulable_nodes:sum"          -> NonSchedulableNodes(db)
      [] rule = "cluster:kubevirt_virt_api_up:sum"                    -> Up(db, "virt-api")
      [] rule = "cluster:kubevirt_virt_controller_pods_running:count" -> PodsRunning(db, "virt-controller")
      [] rule = "cluster:kubevirt_virt_controller_ready:sum" ->
             Ready(db, "virt-controller", "kubevirt_virt_controller_ready_status", {"pod", "namespace"})
      [] rule = "cluster:kubevirt_virt_controller_up:sum"             -> Up(db, "virt-controller")
      [] rule = "cluster:kubevirt_virt_handler_up:sum"                -> Up(db, "virt-handler")
      [] rule = "cluster:kubevirt_virt_operator_leading:sum"          -> Leading(db)
      [] rule = "cluster:kubevirt_virt_operator_pods_running:count"   -> PodsRunning(db, "virt-operator")
      [] rule = "cluster:kubevirt_virt_operator_ready:sum" ->
             Ready(db, "virt-operator", "kubevirt_virt_operator_ready_status", {"pod"})
      [] rule = "cluster:kubevirt_virt_operator_up:sum"               -> Up(db, "virt-operator")
      [] rule = "namespace:kubevirt_vm:sum"                           -> NumberOfVMs(db)
      [] rule = "node:kubevirt_vmi_phase:sum"                         -> VMIPhase(db)
      [] rule = "vmi:kubevirt_vmi_guest_queue_length:sum"             -> GuestQueueLength(db)
      [] rule = "vmi:kubevirt_vmi_memory_available_bytes:sum"         -> MemoryAvailable(db)
      [] rule = "vmi:kubevirt_vmi_memory_headroom_ratio:sum"          -> MemoryHeadroom(db)
      [] rule = "vmi:kubevirt_vmi_memory_used_bytes:sum"              -> MemoryUsed(db)
      [] rule = "vmi:kubevirt_vmi_pgmajfaults:rate"                   -> MajorFaults(db)
      [] rule = "vmi:kubevirt_vmi_swap_traffic_bytes:rate"            -> SwapTraffic(db)
      [] rule = "vmi:kubevirt_vmi_vcpu:count"                         -> VCPUs(db)
      [] OTHER                                                        -> All(db, Replacement[rule])
=============================================================================
