--------------------------- MODULE MCVMStatsPoller ---------------------------
(* Instances of VMStatsPoller for TLC: virt-handler pods of the nodes and  *)
(* a pod without the virt-handler label on the first node.                 *)
EXTENDS VMStatsPoller

CONSTANTS k1, k2, n1, n2, p1, p2, p3

MCPodNode      == [p \in Pods |-> IF p = p2 THEN n2 ELSE n1]
(* The first VMI may be deleted and created again. *)
MCMaxUID       == [k \in Keys |-> IF k = k1 THEN 1 ELSE 0]
MCMaxUIDOne    == [k \in Keys |-> 0]

MCPodIsHandler == [p \in Pods |-> p # p3]
=============================================================================
