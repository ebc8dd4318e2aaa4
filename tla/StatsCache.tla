----------------------------- MODULE StatsCache -----------------------------
(***************************************************************************)
(* What the vmstats collector may rely on when it lists the StatsCache,    *)
(* without goroutines, semaphores or virt-handlers: the cache follows the  *)
(* successive listings of the VMIs. The poller implements this.            *)
(***************************************************************************)
EXTENDS Naturals

CONSTANTS
    Keys,     \* the names of the VMIs
    Nodes,    \* the nodes
    NoNode    \* the node of a VMI that is not scheduled

VARIABLES
    listing,  \* the VMIs as they were last listed: a node and an incarnation
    cache     \* the VMI object and the origin of the statistics of each VMI

NoVMI   == [node |-> NoNode, uid |-> 0]
NoEntry == [vmi |-> NoVMI, src |-> NoNode]

Scheduled == {k \in Keys : listing[k].node \in Nodes}

Init ==
    /\ listing = [k \in Keys |-> NoVMI]
    /\ cache = [k \in Keys |-> NoEntry]

(* The VMIs are listed again. *)
List ==
    /\ listing' \in [Keys -> [node : Nodes \cup {NoNode}, uid : Nat]]
    /\ \A k \in Keys : listing'[k].uid >= listing[k].uid
    /\ UNCHANGED cache

(* New statistics of a listed VMI arrive from its node. *)
Refresh(k) ==
    /\ k \in Scheduled
    /\ cache' = [cache EXCEPT ![k] = [vmi |-> listing[k], src |-> listing[k].node]]
    /\ UNCHANGED listing

(* The VMIs that were listed without a node, and only those, are dropped. *)
Expire ==
    /\ cache' = [k \in Keys |-> IF k \in Scheduled THEN cache[k] ELSE NoEntry]
    /\ UNCHANGED listing

Next == List \/ Expire \/ \E k \in Keys : Refresh(k)

Spec == Init /\ [][Next]_<<listing, cache>>
=============================================================================
