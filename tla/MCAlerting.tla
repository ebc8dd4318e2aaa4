----------------------------- MODULE MCAlerting -----------------------------
(* An instance of Alerting for TLC: two nodes and one that only votes, the *)
(* components of KubeVirt, and two VMs of two namespaces.                  *)
EXTENDS Alerting

KV(name) == <<KubeVirtNamespace, name>>
A == <<"ns", "a">>
B == <<"other", "b">>

MCPodsOf == ("virt-api" :> {"virt-api-1"}) @@ ("virt-controller" :> {"virt-controller-1", "virt-controller-2"})
         @@ ("virt-operator" :> {"virt-operator-1"})
         @@ ("virt-handler" :> {"virt-handler-1", "virt-handler-2"}) @@ ("virt-launcher" :> {"virt-launcher-a"})

MCSanitize == ("app" :> "app")
MCLower == ("Running" :> "running") @@ ("Starting" :> "starting")
             @@ ("ErrImagePull" :> "errimagepull") @@ ("Scheduling" :> "scheduling")

Pod(node) == [createdBy |-> "", running |-> TRUE, up |-> TRUE, ready |-> TRUE, leading |-> TRUE,
              failing |-> 0, node |-> node]
Unready(pod) == [pod EXCEPT !.ready = FALSE]
Starting(pod) == [pod EXCEPT !.ready = FALSE, !.up = FALSE, !.running = FALSE]
Failing(pod) == [pod EXCEPT !.failing = 80]
Launcher(node) == [Pod(node) EXCEPT !.createdBy = "u1"]

Node == [kvm |-> TRUE, arbiter |-> FALSE, schedulable |-> TRUE, cordoned |-> FALSE]
Arbiter == [Node EXCEPT !.kvm = FALSE, !.arbiter = TRUE, !.schedulable = FALSE]

VM(status) == [status |-> status, instancetype |-> {}, preference |-> {}]
VMI(phase) == [uid |-> "u1", node |-> "n1", phase |-> phase, strategy |-> "LiveMigrate",
               migratable |-> {TRUE}, instancetype |-> {}]

Statistics == [vmi   |-> [node |-> "n1", labels |-> ("app" :> "x")],
               stats |-> [cpu |-> {}, load |-> {[load1m |-> 30]},
                          memory |-> {[available |-> 100, usable |-> 2, majorFault |-> 7, swapIn |-> 0,
                                       swapOut |-> 0]},
                          vcpu |-> <<[state |-> 1, time |-> 4], [state |-> 1, time |-> 4]>>,
                          net |-> <<>>, block |-> <<>>, dirtyRate |-> {}, osInfo |-> {}, hostName |-> {},
                          timezone |-> {}, users |-> {}, disks |-> {}, interfaces |-> {}]]

MCObjects ==
    [pods     |-> (KV("virt-api-1") :> {Pod("n1"), Failing(Pod("n1"))})
               @@ (KV("virt-controller-1") :> {Pod("n1"), Unready(Pod("n1"))})
               @@ (KV("virt-controller-2") :> {Pod("n2"), Starting(Pod("n2"))})
               @@ (KV("virt-operator-1") :> {Pod("n2"), Unready([Pod("n2") EXCEPT !.leading = FALSE])})
               @@ (KV("virt-handler-1") :> {Pod("n1"), Unready(Pod("n1"))})
               @@ (<<"ns", "virt-launcher-a">> :> {Launcher("n1"), Launcher("")}),
     nodes    |-> ("n1" :> {Node, [Node EXCEPT !.kvm = FALSE, !.cordoned = TRUE]})
               @@ ("n2" :> {Node, [Node EXCEPT !.kvm = FALSE, !.schedulable = FALSE]}),
     config   |-> ("emulation" :> {TRUE}),
     vms      |-> A :> {VM(s) : s \in {"Running", "Starting", "ErrImagePull"}},
     vmis     |-> A :> {VMI("Running"), [VMI("Running") EXCEPT !.migratable = {}],
                        [VMI("Scheduling") EXCEPT !.migratable = {}]}]

(* What does not change is in the clusters a run begins with only: one at   *)
(* rest with a running VM, and one that is drained while the VM starts.    *)
Rest ==
    [pods     |-> (KV("virt-api-1") :> {Pod("n1")}) @@ (KV("virt-controller-1") :> {Pod("n1")})
               @@ (KV("virt-controller-2") :> {Pod("n2")}) @@ (KV("virt-operator-1") :> {Pod("n2")})
               @@ (KV("virt-handler-1") :> {Pod("n1")}) @@ (KV("virt-handler-2") :> {Pod("n2")})
               @@ (<<"ns", "virt-launcher-a">> :> {Launcher("n1")}),
     nodes    |-> ("n1" :> {Node}) @@ ("n2" :> {Node}) @@ ("n3" :> {Arbiter}),
     replicas |-> ("virt-api" :> {1}) @@ ("virt-controller" :> {2}) @@ ("virt-operator" :> {1}),
     config   |-> "emulation" :> {},
     vms      |-> (A :> {VM("Running")}) @@ (B :> {VM("Running")}),
     vmis     |-> A :> {VMI("Running")},
     statistics |-> A :> {Statistics}]
Drained ==
    [Rest EXCEPT !.nodes["n1"] = {[Node EXCEPT !.kvm = FALSE, !.cordoned = TRUE]},
                 !.pods[KV("virt-controller-1")] = {},
                 !.pods[KV("virt-handler-1")] = {Unready(Pod("n1"))},
                 !.vms[A] = {VM("Starting")},
                 !.vmis[A] = {},
                 !.statistics[A] = {}]

MCStarts == {Rest, Drained}
=============================================================================
