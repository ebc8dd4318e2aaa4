------------------------------ MODULE MCScrape ------------------------------
(* An instance of Scrape for TLC: a VM and its VMI, which is migrated and  *)
(* recreated, two pods and two migrations; another VMI of the namespace.   *)
EXTENDS Scrape

A == <<"ns", "a">>
B == <<"ns", "b">>
Key(name) == <<"ns", name>>

MCSanitize == ("a-b" :> "a_b") @@ ("a.b" :> "a_b") @@ ("app" :> "app")

MCLower == ("Running" :> "running") @@ ("Paused" :> "paused") @@ ("Stopped" :> "stopped")
             @@ ("WaitingForReceiver" :> "waitingforreceiver")

(* A topology of two factors; one claim used by two disks. *)
T1 == [guest |-> {}, memoryRequest |-> {2}, memoryLimit |-> {4}, hugepages |-> {},
       cpu |-> {[cores |-> 2, sockets |-> 0, threads |-> 3]}, cpuRequest |-> {}, cpuLimit |-> {2},
       volumes |-> <<[name |-> "root", claim |-> "d", dataVolume |-> TRUE],
                     [name |-> "data", claim |-> "d", dataVolume |-> FALSE],
                     [name |-> "init", claim |-> "", dataVolume |-> FALSE]>>,
       labels |-> ("app" :> "x"),
       interfaces |-> <<[name |-> "eth", binding |-> "bridge"], [name |-> "lost", binding |-> ""]>>,
       networks |-> ("eth" :> {"pod networking"})]
(* A topology that overflows on the way; a request of zero hides the limit. *)
T2 == [T1 EXCEPT !.memoryRequest = {0}, !.hugepages = {1},
                 !.cpu = {[cores |-> 4, sockets |-> 4, threads |-> 3]}, !.cpuRequest = {1}]
(* Guest memory, no topology; V5 has a guest memory of zero, and eight CPUs *)
(* where numbers have three bits.                                          *)
T3 == [T1 EXCEPT !.guest = {3}, !.cpu = {}]

V1 == [template |-> {T1}, status |-> "Running", conditions |-> ("Ready" :> 5),
       labels |-> ("app" :> "y") @@ ("a-b" :> "1"), dvTemplates |-> ("d" :> {4}), created |-> {1},
       instancetype |-> {[kind |-> "namespaced", name |-> "it"]}, preference |-> {}]
V2 == [V1 EXCEPT !.template = {T2}, !.status = "WaitingForReceiver", !.conditions = <<>>,
                 !.labels = ("a-b" :> "1") @@ ("a.b" :> ""),
                 !.preference = {[kind |-> "cluster", name |-> "it"]}]
V3 == [V1 EXCEPT !.template = {T3}, !.status = "Paused", !.dvTemplates = ("d" :> {}),
                 !.conditions = ("Ready" :> 5) @@ ("Paused" :> 7) @@ ("RestartRequired" :> 9)]
V4 == [V1 EXCEPT !.template = {}, !.status = "Stopped", !.labels = <<>>]
V5 == [V4 EXCEPT !.template = {[T1 EXCEPT !.guest = {0},
                                         !.cpu = {[cores |-> 2, sockets |-> 2, threads |-> 2]}]}]

(* The VMI before and after a migration, and one of the same name. *)
I1 == [uid |-> "u1", node |-> "n1", phase |-> "Running", strategy |-> "LiveMigrate",
       migratable |-> {TRUE}, instancetype |-> {[kind |-> "cluster", name |-> "it"]},
       addresses |-> <<[name |-> "eth", interface |-> "e0", ip |-> "10.0.0.1"],
                       [name |-> "", interface |-> "", ip |-> ""],
                       [name |-> "", interface |-> "e1", ip |-> ""]>>,
       migration |-> {}, overhead |-> {1}, interfaces |-> T1.interfaces, networks |-> T1.networks]
I2 == [I1 EXCEPT !.node = "n2", !.migratable = {},
                 !.migration = {[uid |-> "x1", start |-> {5}, end |-> {6},
                                 completed |-> TRUE, failed |-> FALSE]}]
I3 == [I1 EXCEPT !.uid = "u2", !.strategy = "None", !.overhead = {}]
I4 == [I1 EXCEPT !.uid = "v1", !.addresses = <<>>]

(* Statistics of the VMI with two vCPUs, an interface with an alias, a      *)
(* drive without a name and one whose alias is empty, and what an agent    *)
(* said; and of the VMI once it has moved, without the agent.              *)
S1 == [vmi   |-> [node |-> "n1", labels |-> ("a-b" :> "1") @@ ("a.b" :> "2")],
       stats |-> [cpu |-> {[time |-> 5, user |-> 3]}, load |-> {[load1m |-> 1]},
                  memory |-> {[rss |-> 2, majorFault |-> 7]},
                  vcpu |-> <<[state |-> 1, time |-> 4, wait |-> 1], [state |-> 3, time |-> 4, wait |-> 1]>>,
                  net |-> <<[name |-> "tap0", alias |-> "eth", rxBytes |-> 9], [rxBytes |-> 8]>>,
                  block |-> <<[name |-> "vda", alias |-> "", rdTimes |-> 6],
                              [name |-> "vdb", alias |-> "data", rdTimes |-> 6], [alias |-> "", rdTimes |-> 6]>>,
                  dirtyRate |-> {2}, osInfo |-> {[os_name |-> "f", os_id |-> ""]},
                  hostName |-> {[hostname |-> "h"]}, timezone |-> {}, users |-> {<<"root">>},
                  disks |-> {<<[name |-> "sda", mountpoint |-> "", total |-> 4, used |-> 1],
                               [name |-> "sda1", mountpoint |-> "", total |-> 4, used |-> 1]>>},
                  interfaces |-> {<<[name |-> "lo", mac |-> "", addresses |-> <<>>],
                                    [name |-> "e0", mac |-> "m", addresses |-> <<"10.0.0.1", "fe80">>]>>}]]
S2 == [vmi   |-> [node |-> "n2", labels |-> ("app" :> "x")],
       stats |-> [S1.stats EXCEPT !.cpu = {}, !.osInfo = {}, !.hostName = {}, !.users = {},
                                  !.disks = {}, !.interfaces = {}, !.dirtyRate = {}]]

Pod(uid, node, running_) == [createdBy |-> uid, node |-> node, running |-> running_]
Migration(uid, phase) == [uid |-> uid, vmi |-> "a", phase |-> phase]

MCVMs   == A :> {V1, V2, V3, V4, V5}
MCVMIs  == (A :> {I1, I2, I3}) @@ (B :> {I4})
MCPods  == (Key("p1") :> {Pod("u1", "n1", TRUE), Pod("u1", "n1", FALSE)}) @@
           (Key("p2") :> {Pod("u1", "n2", TRUE), Pod("u2", "n1", TRUE)}) @@
           (Key("p3") :> {Pod("v1", "n1", TRUE)})
MCMigrations == (Key("m1") :> {Migration("x1", p) : p \in {"Running", "Succeeded", "WaitingForSync"}}) @@
                (Key("m2") :> {Migration("x2", p) : p \in {"Pending", "Failed"}})
MCPVCs  == Key("d") :> {[size |-> 4, mode |-> "Block"], [size |-> 8, mode |-> "Block"]}
MCTypes == (Key("it") :> {TRUE, FALSE}) @@ (<<"", "it">> :> {TRUE})

MCStatistics == A :> {S1, S2}

(* A VM at rest, a migration under way, and a VM in an odd state. *)
Start(v, i, p2, m1, s) ==
    [vms |-> (A :> {v}), vmis |-> (A :> {i}) @@ (B :> {}),
     pods |-> (Key("p1") :> {Pod("u1", "n1", TRUE)}) @@ (Key("p2") :> p2) @@ (Key("p3") :> {}),
     migrations |-> (Key("m1") :> m1) @@ (Key("m2") :> {Migration("x2", "Pending")}),
     pvcs |-> (Key("d") :> {[size |-> 8, mode |-> "Block"]}),
     types |-> (Key("it") :> {TRUE}) @@ (<<"", "it">> :> {TRUE}),
     statistics |-> (A :> s)]
MCStarts == {[Start(V1, I1, {}, {}, {}) EXCEPT !.vmis[B] = {I4}, !.pods[Key("p3")] = {Pod("v1", "n1", TRUE)}],
             Start(V3, I1, {Pod("u1", "n2", TRUE)}, {Migration("x1", "Running")}, {S2}),
             Start(V2, I2, {Pod("u2", "n1", TRUE)}, {Migration("x1", "Succeeded")}, {})}
=============================================================================
