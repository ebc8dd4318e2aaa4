--------------------------- MODULE AlertingProofs ---------------------------
(***************************************************************************)
(* Proofs about Alerting. The group of recording rules is a fold, taken    *)
(* apart into its stages; a rule depends on the database only through the  *)
(* metrics it names.                                                       *)
(***************************************************************************)
EXTENDS Alerting, CollectorProofs

-----------------------------------------------------------------------------
(* The stages of the group: f[n] is the database after n rules. *)
Rules == ToSet(RuleOrder)
Length == Len(RuleOrder)

LEMMA RuleOrderFacts ==
    /\ Length \in Nat \ {0} /\ DOMAIN RuleOrder = 1..Length
    /\ RuleOrder[1] = "cluster:kubevirt_nodes_allocatable:count"
BY DEF Length, RuleOrder

LEMMA RulesAre == \A r : r \in Rules <=> \E i \in 1..Length : RuleOrder[i] = r
BY RuleOrderFacts DEF Rules, ToSet

(* The last of a set of positions. *)
Top(s) == Max(s)

LEMMA TopFacts ==
    ASSUME NEW N \in Nat, NEW s \in SUBSET (1..N), s # {}
    PROVE  /\ Top(s) \in s
           /\ \A x \in s : x <= Top(s)
<1> DEFINE R == {N - x : x \in s}
<1>6. \A x \in s : x \in 1..N
  OBVIOUS
<1>7. \A x \in 1..N : x \in Int /\ N - x \in Nat
  OBVIOUS
<1>1. R \subseteq Nat /\ R # {}
  BY <1>6, <1>7
<1>2. PICK m \in R : \A k \in R : m <= k
  BY <1>1, LeastElement
<1>3. PICK x \in s : m = N - x
  BY <1>2
<1>4. \A y \in s : x >= y
  <2> SUFFICES ASSUME NEW y \in s PROVE x >= y
    OBVIOUS
  <2>1. m <= N - y
    BY <1>2
  <2>2. x \in Int /\ y \in Int
    BY <1>6, <1>7
  <2> QED
    BY <1>3, <2>1, <2>2
<1>5. Top(s) \in s /\ \A y \in s : Top(s) >= y
  BY <1>3, <1>4 DEF Top, Max
<1> QED
  BY <1>5

LEMMA FiniteRange == \A N \in Nat : \A s \in SUBSET (1..N) : IsFiniteSet(s)
<1> SUFFICES ASSUME NEW N \in Nat, NEW s \in SUBSET (1..N) PROVE IsFiniteSet(s)
  OBVIOUS
<1> DEFINE S == 1..N
<1>1. IsFiniteSet(S)
  BY FS_Interval
<1> HIDE DEF S
<1> QED
  BY <1>1, FS_Subset DEF S

LEMMA TopCount ==
    ASSUME NEW N \in Nat, NEW s \in SUBSET (1..N), s # {}
    PROVE  /\ Cardinality(s) \in Nat
           /\ s \ {Top(s)} \in SUBSET (1..N)
           /\ Cardinality(s \ {Top(s)}) = Cardinality(s) - 1
<1>1. IsFiniteSet(s)
  BY FiniteRange
<1> QED
  BY <1>1, TopFacts, FS_CardinalityType, FS_RemoveElement

LEMMA TopOfInterval ==
    ASSUME NEW n \in Nat \ {0}
    PROVE  Top(1..n) = n /\ (1..n) \ {n} = 1..(n - 1)
<1>1. 1..n \in SUBSET (1..n) /\ n \in 1..n
  OBVIOUS
<1>2. Top(1..n) \in 1..n /\ n <= Top(1..n)
  BY <1>1, TopFacts
<1> HIDE DEF Top
<1> QED
  BY <1>2

IsFold(g, base, N) ==
    g = [s \in SUBSET (1..N) |->
            IF s = {} THEN base ELSE Evaluate(g[s \ {Top(s)}], RuleOrder[Top(s)])]

LEMMA FoldExists ==
    ASSUME NEW base, NEW N \in Nat
    PROVE  \E g : IsFold(g, base, N)
<1> DEFINE S == 1..N
           Sub(n) == {s \in SUBSET S : Cardinality(s) <= n}
           P(n) == \E g : g = [s \in Sub(n) |->
                                  IF s = {} THEN base ELSE Evaluate(g[s \ {Top(s)}], RuleOrder[Top(s)])]
           T == {n \in Nat : ~P(n)}
<1>1. \A s \in SUBSET S : Cardinality(s) \in Nat /\ (Cardinality(s) = 0 <=> s = {})
  BY FiniteRange, FS_CardinalityType, FS_EmptySet
<1>2. P(0)
  <2> DEFINE g == [s \in Sub(0) |-> base]
  <2>1. \A s \in Sub(0) : s = {}
    BY <1>1
  <2>2. g = [s \in Sub(0) |-> IF s = {} THEN base ELSE Evaluate(g[s \ {Top(s)}], RuleOrder[Top(s)])]
    BY <2>1
  <2> QED
    BY <2>2
<1>3. ASSUME NEW n \in Nat, P(n) PROVE P(n + 1)
  <2>1. PICK g : g = [s \in Sub(n) |->
                         IF s = {} THEN base ELSE Evaluate(g[s \ {Top(s)}], RuleOrder[Top(s)])]
    BY <1>3
  <2> DEFINE h == [s \in Sub(n + 1) |->
                      IF s = {} THEN base ELSE Evaluate(g[s \ {Top(s)}], RuleOrder[Top(s)])]
  <2>2. ASSUME NEW s \in Sub(n + 1), s # {}
        PROVE  h[s] = Evaluate(h[s \ {Top(s)}], RuleOrder[Top(s)])
    <3> DEFINE r == s \ {Top(s)}
    <3>1. r \in SUBSET S /\ Cardinality(r) = Cardinality(s) - 1 /\ Cardinality(s) \in Nat
      BY <2>2, TopCount
    <3>2. r \in Sub(n) /\ r \in Sub(n + 1)
      BY <3>1
    <3>3. h[r] = g[r]
      BY <2>1, <3>2
    <3>4. h[s] = Evaluate(g[r], RuleOrder[Top(s)])
      BY <2>2
    <3> QED
      BY <3>3, <3>4
  <2>3. h = [s \in Sub(n + 1) |-> h[s]] /\ \A s \in Sub(n + 1) : s = {} => h[s] = base
    OBVIOUS
  <2> HIDE DEF h
  <2>4. h = [s \in Sub(n + 1) |->
                IF s = {} THEN base ELSE Evaluate(h[s \ {Top(s)}], RuleOrder[Top(s)])]
    BY <2>2, <2>3
  <2> QED
    BY <2>4
<1> HIDE DEF P
<1>4. T = {}
  <2> SUFFICES ASSUME T # {} PROVE FALSE
    OBVIOUS
  <2>1. PICK m \in T : \A k \in T : m <= k
    BY LeastElement
  <2>2. m - 1 \in Nat /\ m - 1 \notin T /\ (m - 1) + 1 = m
    BY <1>2, <2>1
  <2>3. P(m)
    BY <1>3, <2>1, <2>2
  <2> QED
    BY <2>1, <2>3
<1>5. Cardinality(S) \in Nat /\ Sub(Cardinality(S)) = SUBSET S
  <2>1. IsFiniteSet(S)
    BY FiniteRange
  <2> HIDE DEF S
  <2>2. \A s \in SUBSET S : Cardinality(s) <= Cardinality(S)
    BY <2>1, FS_Subset
  <2> QED
    BY <2>1, <2>2, FS_CardinalityType
<1>6. P(Cardinality(S))
  BY <1>4, <1>5
<1> QED
  BY <1>5, <1>6 DEF P, IsFold

Staged(f, base) ==
    /\ f[0] = base
    /\ \A n \in 1..Length : f[n] = Evaluate(f[n - 1], RuleOrder[n])

LEMMA Stages ==
    ASSUME NEW base
    PROVE  \E f : Staged(f, base) /\ Evaluated(base) = f[Length]
<1> DEFINE Rec(g) == g = [s \in SUBSET (DOMAIN RuleOrder) |->
                             IF s = {} THEN base ELSE Evaluate(g[s \ {Max(s)}], RuleOrder[Max(s)])]
           iter == CHOOSE g : Rec(g)
           f == [n \in 0..Length |-> iter[1..n]]
<1>1. Evaluated(base) = iter[DOMAIN RuleOrder]
  BY DEF Evaluated, FoldLeft, MapThenFoldSet
<1>2. \A g : Rec(g) <=> IsFold(g, base, Length)
  BY RuleOrderFacts DEF IsFold, Top
<1>3. \E g : Rec(g)
  BY <1>2, RuleOrderFacts, FoldExists
<1>4. Rec(iter)
  BY <1>3
<1>5. IsFold(iter, base, Length)
  BY <1>2, <1>4
<1> HIDE DEF iter
<1>6. f[0] = base
  <2>1. 1..0 = {} /\ {} \in SUBSET (1..Length) /\ 0 \in 0..Length
    BY RuleOrderFacts
  <2>2. f[0] = iter[{}]
    BY <2>1
  <2> QED
    BY <1>5, <2>1, <2>2 DEF IsFold
<1>7. ASSUME NEW n \in 1..Length PROVE f[n] = Evaluate(f[n - 1], RuleOrder[n])
  <2>1. n \in Nat \ {0} /\ 1..n \in SUBSET (1..Length) /\ 1..n # {} /\ n \in 0..Length /\ n - 1 \in 0..Length
    BY RuleOrderFacts
  <2> DEFINE s == 1..n
  <2>2. Top(s) = n /\ s \ {n} = 1..(n - 1)
    BY <2>1, TopOfInterval
  <2> HIDE DEF s
  <2>3. iter[s] = Evaluate(iter[s \ {Top(s)}], RuleOrder[Top(s)])
    BY <1>5, <2>1 DEF IsFold, s
  <2>4. iter[s] = Evaluate(iter[1..(n - 1)], RuleOrder[n])
    BY <2>2, <2>3
  <2> QED
    BY <2>1, <2>4 DEF s
<1>8. f[Length] = iter[DOMAIN RuleOrder]
  BY RuleOrderFacts
<1> QED
  BY <1>1, <1>6, <1>7, <1>8 DEF Staged

LEMMA EvaluateIs ==
    ASSUME NEW db, NEW rule
    PROVE  Evaluate(db, rule) = [db EXCEPT ![rule] = RuleExpr(rule, db)]
<1> DEFINE new == [db EXCEPT ![rule] = RuleExpr(rule, db)]
<1>1. {[d EXCEPT ![rule] = RuleExpr(rule, d)] : d \in {db}} = {new}
  OBVIOUS
<1>2. Value({new}) = new
  BY DEF Value
<1> QED
  BY <1>1, <1>2 DEF Evaluate

-----------------------------------------------------------------------------
(* The rules by what they read: aliases, two that read other rules, and    *)
(* those that read scraped metrics only.                                   *)
Allocatable == "cluster:kubevirt_nodes_allocatable:count"
QueueLength == "vmi:kubevirt_vmi_guest_queue_length:sum"
VCPUCount == "vmi:kubevirt_vmi_vcpu:count"
Unschedulable == "cluster:kubevirt_non_schedulable_nodes:sum"

BaseRules ==
    {"cluster:kubevirt_nodes_with_kvm:count", "cluster:kubevirt_non_schedulable_nodes:sum",
     "cluster:kubevirt_virt_api_up:sum", "cluster:kubevirt_virt_controller_pods_running:count",
     "cluster:kubevirt_virt_controller_ready:sum", "cluster:kubevirt_virt_controller_up:sum",
     "cluster:kubevirt_virt_handler_up:sum", "cluster:kubevirt_virt_operator_leading:sum",
     "cluster:kubevirt_virt_operator_pods_running:count", "cluster:kubevirt_virt_operator_ready:sum",
     "cluster:kubevirt_virt_operator_up:sum", "namespace:kubevirt_vm:sum", "node:kubevirt_vmi_phase:sum",
     "vmi:kubevirt_vmi_memory_available_bytes:sum", "vmi:kubevirt_vmi_memory_headroom_ratio:sum",
     "vmi:kubevirt_vmi_memory_used_bytes:sum", "vmi:kubevirt_vmi_pgmajfaults:rate",
     "vmi:kubevirt_vmi_swap_traffic_bytes:rate", "vmi:kubevirt_vmi_vcpu:count"}

Aliases ==
    {"kubevirt_allocatable_nodes", "kubevirt_nodes_with_kvm", "kubevirt_number_of_vms",
     "kubevirt_vmi_guest_vcpu_queue", "kubevirt_vmi_memory_used_bytes", "kubevirt_vmi_phase_count",
     "kubevirt_virt_api_up", "kubevirt_virt_controller_up", "kubevirt_virt_controller_ready",
     "kubevirt_virt_operator_up", "kubevirt_virt_operator_ready", "kubevirt_virt_operator_leading",
     "kubevirt_virt_handler_up"}

LEMMA AliasFacts ==
    /\ DOMAIN Replacement = Aliases
    /\ Replacement["kubevirt_allocatable_nodes"] = Allocatable
    /\ Replacement["kubevirt_vmi_guest_vcpu_queue"] = QueueLength
    /\ \A d \in Aliases \ {"kubevirt_allocatable_nodes", "kubevirt_vmi_guest_vcpu_queue"} :
          Replacement[d] \in BaseRules
<1>1. DOMAIN Replacement = Aliases
  BY DEF Replacement, Aliases
<1>2. /\ Replacement["kubevirt_allocatable_nodes"] = Allocatable
      /\ Replacement["kubevirt_vmi_guest_vcpu_queue"] = QueueLength
  BY DEF Replacement, Allocatable, QueueLength
<1>3. \A d \in Aliases \ {"kubevirt_allocatable_nodes", "kubevirt_vmi_guest_vcpu_queue"} :
          Replacement[d] \in BaseRules
  BY DEF Replacement, Aliases, BaseRules
<1> QED
  BY <1>1, <1>2, <1>3

LEMMA RuleKinds == Rules = BaseRules \cup Aliases \cup {Allocatable, QueueLength}
<1>1. \A i \in 1..34 : RuleOrder[i] \in BaseRules \cup Aliases \cup {Allocatable, QueueLength}
  BY DEF RuleOrder, BaseRules, Aliases, Allocatable, QueueLength
<1>2. Length = 34
  BY DEF Length, RuleOrder
<1>3. \A r \in BaseRules : \E i \in 1..34 : RuleOrder[i] = r
  BY DEF RuleOrder, BaseRules
<1>4. \A r \in Aliases : \E i \in 1..34 : RuleOrder[i] = r
  BY DEF RuleOrder, Aliases
<1>5. \A r \in {Allocatable, QueueLength} : \E i \in 1..34 : RuleOrder[i] = r
  BY DEF RuleOrder, Allocatable, QueueLength
<1> HIDE DEF Allocatable, QueueLength
<1>6. \A r : r \in Rules <=> r \in BaseRules \cup Aliases \cup {Allocatable, QueueLength}
  BY <1>1, <1>2, <1>3, <1>4, <1>5, RulesAre
<1> QED
  BY <1>6

LEMMA RuleKindsApart ==
    /\ Allocatable \notin BaseRules \cup Aliases /\ QueueLength \notin BaseRules \cup Aliases
    /\ Allocatable # QueueLength /\ \A d \in Aliases : d \notin BaseRules
BY DEF BaseRules, Aliases, Allocatable, QueueLength

(* The metrics the rules and the alerts read, as the statistics that are   *)
(* scraped, are none of the rules'.                                        *)
Inputs ==
    {"up", "kube_pod_status_phase", "kube_pod_status_ready", "kube_pod_info",
     "kubevirt_virt_controller_ready_status", "kubevirt_virt_operator_ready_status",
     "kubevirt_virt_operator_leading_status", "kubevirt_rest_client_requests_total",
     "kube_node_role", "kube_node_status_allocatable", "kube_node_spec_unschedulable",
     "kube_node_labels", "kube_deployment_spec_replicas", "kube_daemonset_status_number_ready",
     "kube_daemonset_status_desired_number_scheduled", "kubevirt_configuration_emulation_enabled",
     "kubevirt_vm_info", "kubevirt_vmi_info", "kubevirt_vmi_non_evictable",
     "kubevirt_vmi_memory_available_bytes", "kubevirt_vmi_memory_usable_bytes",
     "kubevirt_vmi_memory_pgmajfault_total", "kubevirt_vmi_memory_swap_in_traffic_bytes",
     "kubevirt_vmi_memory_swap_out_traffic_bytes", "kubevirt_vmi_vcpu_seconds_total",
     "kubevirt_vmi_guest_load_1m"}

LEMMA InputsAreNoRules == \A m \in Inputs : m \notin Rules
<1>1. \A m \in Inputs : m \notin BaseRules
  BY DEF Inputs, BaseRules
<1>2. \A m \in Inputs : m \notin Aliases
  BY DEF Inputs, Aliases
<1>3. \A m \in Inputs : m # Allocatable /\ m # QueueLength
  BY DEF Inputs, Allocatable, QueueLength
<1> QED
  BY <1>1, <1>2, <1>3, RuleKinds

LEMMA StatisticsAreNoRules == \A m \in StatisticsMetrics : m \notin Rules
<1>1. \A m \in StatisticsMetrics : m \notin BaseRules
  BY DEF BaseRules, StatisticsMetrics, CPUNames, LoadNames, MemoryNames, VCPUNames, NetworkNames,
         BlockNames, GuestNames
<1>2. \A m \in StatisticsMetrics : m \notin Aliases
  BY DEF Aliases, StatisticsMetrics, CPUNames, LoadNames, MemoryNames, VCPUNames, NetworkNames,
         BlockNames, GuestNames
<1>3. \A m \in StatisticsMetrics : m # Allocatable /\ m # QueueLength
  BY DEF Allocatable, QueueLength, StatisticsMetrics, CPUNames, LoadNames, MemoryNames, VCPUNames,
         NetworkNames, BlockNames, GuestNames
<1> QED
  BY <1>1, <1>2, <1>3, RuleKinds

-----------------------------------------------------------------------------
(* Vectors. *)
Total(v) == MapThenSumSet(LAMBDA e : e.value, v)
IntVec(v) == IsFiniteSet(v) /\ \A e \in v : e.value \in Int
NatVec(v) == IsFiniteSet(v) /\ \A e \in v : e.value \in Nat

LEMMA ElementFacts ==
    \A l, n : Element(l, n).labels = l /\ Element(l, n).value = n
BY DEF Element

LEMMA FiniteImage ==
    ASSUME NEW S, IsFiniteSet(S), NEW f, S \subseteq DOMAIN f
    PROVE  IsFiniteSet({f[x] : x \in S})
<1> DEFINE T == {f[x] : x \in S}
           g == [x \in S |-> f[x]]
<1>1. g \in Surjection(S, T)
  BY DEF Surjection
<1> HIDE DEF g, T
<1>2. IsFiniteSet(T)
  BY <1>1, FS_Surjection
<1> QED
  BY <1>2 DEF T

LEMMA VecSubset ==
    ASSUME NEW v, NEW w, w \subseteq v
    PROVE  /\ IsFiniteSet(v) => IsFiniteSet(w)
           /\ IntVec(v) => IntVec(w)
           /\ NatVec(v) => NatVec(w)
BY FS_Subset DEF IntVec, NatVec

LEMMA VecUnion ==
    ASSUME NEW v, NEW w
    PROVE  /\ IntVec(v) /\ IntVec(w) => IntVec(v \cup w)
           /\ NatVec(v) /\ NatVec(w) => NatVec(v \cup w)
<1>1. IsFiniteSet(v) /\ IsFiniteSet(w) => IsFiniteSet(v \cup w)
  BY FS_Union
<1> QED
  BY <1>1 DEF IntVec, NatVec

LEMMA NatIsInt == \A v : NatVec(v) => IntVec(v)
BY DEF NatVec, IntVec

LEMMA TotalFacts ==
    ASSUME NEW v, IntVec(v)
    PROVE  /\ Total(v) \in Int
           /\ Total({}) = 0
           /\ \A x \in v : Total(v) = x.value + Total(v \ {x})
BY ValueSumFacts DEF Total, IntVec

LEMMA TotalNat ==
    ASSUME NEW v, NatVec(v)
    PROVE  Total(v) \in Nat /\ \A x \in v : x.value <= Total(v)
<1> DEFINE Bad == {w \in SUBSET v : Total(w) \notin Nat}
           N == {Cardinality(w) : w \in Bad}
<1>1. \A w \in SUBSET v : NatVec(w) /\ IntVec(w) /\ IsFiniteSet(w) /\ Cardinality(w) \in Nat
  BY VecSubset, NatIsInt, FS_CardinalityType DEF NatVec
<1>2. Bad = {}
  <2> SUFFICES ASSUME Bad # {} PROVE FALSE
    OBVIOUS
  <2>1. N \subseteq Nat /\ N # {}
    BY <1>1
  <2>2. PICK m \in N : \A k \in N : m <= k
    BY <2>1, LeastElement
  <2>3. PICK w \in Bad : Cardinality(w) = m /\ \A u \in Bad : Cardinality(w) <= Cardinality(u)
    BY <2>2
  <2>4. Total(w) \in Int /\ Total({}) = 0 /\ \A x \in w : Total(w) = x.value + Total(w \ {x})
    BY <1>1, TotalFacts
  <2>5. PICK x \in w : TRUE
    BY <2>3, <2>4
  <2>6. w \ {x} \in SUBSET v /\ Cardinality(w \ {x}) = Cardinality(w) - 1 /\ Cardinality(w) \in Nat
    BY <1>1, FS_RemoveElement
  <2>7. Total(w \ {x}) \in Nat
    BY <2>3, <2>6
  <2>8. x.value \in Nat
    BY <1>1 DEF NatVec
  <2> QED
    BY <2>3, <2>4, <2>7, <2>8
<1>3. ASSUME NEW x \in v PROVE x.value <= Total(v)
  <2>1. v \ {x} \in SUBSET v /\ v \in SUBSET v
    OBVIOUS
  <2>2. Total(v \ {x}) \in Nat /\ Total(v) = x.value + Total(v \ {x}) /\ x.value \in Nat
    BY <1>1, <1>2, <2>1, TotalFacts DEF NatVec
  <2> QED
    BY <2>2
<1> QED
  BY <1>2, <1>3

(* Aggregation: one element for each combination of labels. *)
Part(v, names, g) == {e \in v : On(e, names) = g}
Parts(v, names) == {On(e, names) : e \in v}

LEMMA SumByIs ==
    ASSUME NEW v, NEW names
    PROVE  SumBy(v, names) = {Element(g, Total(Part(v, names, g))) : g \in Parts(v, names)}
BY DEF SumBy, AggregateBy, Total, Part, Parts

LEMMA CountByIs ==
    ASSUME NEW v, NEW names
    PROVE  CountBy(v, names) = {Element(g, Cardinality(Part(v, names, g))) : g \in Parts(v, names)}
BY DEF CountBy, AggregateBy, Part, Parts

LEMMA PartFacts ==
    ASSUME NEW v, NEW names, IsFiniteSet(v)
    PROVE  /\ IsFiniteSet(Parts(v, names))
           /\ \A g : Part(v, names, g) \subseteq v /\ IsFiniteSet(Part(v, names, g))
<1> DEFINE f == [e \in v |-> On(e, names)]
<1>1. {f[e] : e \in v} = Parts(v, names)
  BY DEF Parts
<1>2. IsFiniteSet({f[e] : e \in v})
  BY FiniteImage
<1>3. \A g : Part(v, names, g) \subseteq v
  BY DEF Part
<1> QED
  BY <1>1, <1>2, <1>3, VecSubset

LEMMA SumByVec ==
    ASSUME NEW v, NEW names
    PROVE  /\ IntVec(v) => IntVec(SumBy(v, names))
           /\ NatVec(v) => NatVec(SumBy(v, names))
<1> DEFINE f == [g \in Parts(v, names) |-> Element(g, Total(Part(v, names, g)))]
<1>1. SumBy(v, names) = {f[g] : g \in Parts(v, names)}
  BY SumByIs
<1>2. \A e \in SumBy(v, names) : \E g \in Parts(v, names) : e.value = Total(Part(v, names, g))
  BY SumByIs, ElementFacts
<1>3. ASSUME IsFiniteSet(v) PROVE IsFiniteSet(SumBy(v, names))
  <2>1. IsFiniteSet(Parts(v, names))
    BY <1>3, PartFacts
  <2>2. DOMAIN f = Parts(v, names)
    OBVIOUS
  <2> HIDE DEF f
  <2> QED
    BY <1>1, <2>1, <2>2, FiniteImage
<1>4. ASSUME IntVec(v) PROVE IntVec(SumBy(v, names))
  <2>1. IsFiniteSet(v) /\ \A g : Part(v, names, g) \subseteq v
    BY <1>4, PartFacts DEF IntVec
  <2>2. \A g : Total(Part(v, names, g)) \in Int
    BY <1>4, <2>1, VecSubset, TotalFacts
  <2> QED
    BY <1>2, <1>3, <2>1, <2>2 DEF IntVec
<1>5. ASSUME NatVec(v) PROVE NatVec(SumBy(v, names))
  <2>1. IsFiniteSet(v) /\ \A g : Part(v, names, g) \subseteq v
    BY <1>5, PartFacts DEF NatVec
  <2>2. \A g : Total(Part(v, names, g)) \in Nat
    BY <1>5, <2>1, VecSubset, TotalNat
  <2> QED
    BY <1>2, <1>3, <2>1, <2>2 DEF NatVec
<1> QED
  BY <1>4, <1>5

LEMMA CountByVec ==
    ASSUME NEW v, NEW names, IsFiniteSet(v)
    PROVE  NatVec(CountBy(v, names))
<1> DEFINE f == [g \in Parts(v, names) |-> Element(g, Cardinality(Part(v, names, g)))]
<1>1. CountBy(v, names) = {f[g] : g \in Parts(v, names)}
  BY CountByIs
<1>2. \A e \in CountBy(v, names) : \E g \in Parts(v, names) : e.value = Cardinality(Part(v, names, g))
  BY CountByIs, ElementFacts
<1>3. IsFiniteSet(Parts(v, names)) /\ \A g : IsFiniteSet(Part(v, names, g))
  BY PartFacts
<1>4. IsFiniteSet(CountBy(v, names))
  <2>1. DOMAIN f = Parts(v, names)
    OBVIOUS
  <2> HIDE DEF f
  <2> QED
    BY <1>1, <1>3, <2>1, FiniteImage
<1> QED
  BY <1>2, <1>3, <1>4, FS_CardinalityType DEF NatVec

LEMMA SumVec ==
    ASSUME NEW v
    PROVE  /\ IntVec(v) => IntVec(SumAll(v))
           /\ NatVec(v) => NatVec(SumAll(v))
BY SumByVec DEF SumAll

LEMMA CountVec ==
    ASSUME NEW v, IsFiniteSet(v)
    PROVE  NatVec(CountAll(v))
BY CountByVec DEF CountAll

LEMMA OrZeroVec ==
    ASSUME NEW v
    PROVE  /\ IntVec(v) => IntVec(OrZero(v))
           /\ NatVec(v) => NatVec(OrZero(v))
<1>1. NatVec(vector(0)) /\ IntVec(vector(0))
  <2> DEFINE e == Element(NoLabels, 0)
  <2>1. vector(0) = {e} /\ e.value = 0
    BY ElementFacts DEF vector
  <2> HIDE DEF e
  <2> QED
    BY <2>1, FS_Singleton DEF NatVec, IntVec
<1>2. OrZero(v) \subseteq v \cup vector(0)
  BY DEF OrZero, Or
<1> QED
  BY <1>1, <1>2, VecUnion, VecSubset

(* Operators between vectors. *)
LEMMA PairsFinite ==
    ASSUME NEW v, NEW w, IsFiniteSet(v), IsFiniteSet(w)
    PROVE  \A P \in SUBSET (v \X w) : IsFiniteSet(P)
BY FS_Product, FS_Subset

Difference(v, w) == Binary(v, w, Minus)
Addition(v, w) == Binary(v, w, LAMBDA a, b : a + b)
Product(v, w, on) == BinaryOn(v, w, on, Times_)

LEMMA DifferenceVec ==
    ASSUME NEW v, NEW w, IntVec(v), IntVec(w)
    PROVE  IntVec(Difference(v, w))
<1> DEFINE P == {q \in v \X w : q[1].labels = q[2].labels}
           f == [p \in P |-> Element(p[1].labels, p[1].value - p[2].value)]
<1>1. IsFiniteSet(P)
  BY PairsFinite DEF IntVec, NatVec
<1>2. \A p \in P : p[1] \in v /\ p[2] \in w
  OBVIOUS
<1>3. DOMAIN f = P /\ \A p \in P : f[p].value = p[1].value - p[2].value
  BY ElementFacts
<1>4. Difference(v, w) \subseteq {f[p] : p \in P}
  BY DEF Difference, Binary, Minus
<1> HIDE DEF f, P
<1>5. IsFiniteSet({f[p] : p \in P})
  BY <1>1, <1>3, FiniteImage
<1>6. \A p \in P : f[p].value \in Int
  BY <1>2, <1>3 DEF IntVec, NatVec
<1>7. IntVec({f[p] : p \in P})
  BY <1>5, <1>6 DEF IntVec
<1> QED
  BY <1>4, <1>7, VecSubset

LEMMA AdditionVec ==
    ASSUME NEW v, NEW w, IntVec(v), IntVec(w)
    PROVE  IntVec(Addition(v, w))
<1> DEFINE P == {q \in v \X w : q[1].labels = q[2].labels}
           f == [p \in P |-> Element(p[1].labels, p[1].value + p[2].value)]
<1>1. IsFiniteSet(P)
  BY PairsFinite DEF IntVec, NatVec
<1>2. \A p \in P : p[1] \in v /\ p[2] \in w
  OBVIOUS
<1>3. DOMAIN f = P /\ \A p \in P : f[p].value = p[1].value + p[2].value
  BY ElementFacts
<1>4. Addition(v, w) \subseteq {f[p] : p \in P}
  BY DEF Addition, Binary
<1> HIDE DEF f, P
<1>5. IsFiniteSet({f[p] : p \in P})
  BY <1>1, <1>3, FiniteImage
<1>6. \A p \in P : f[p].value \in Int
  BY <1>2, <1>3 DEF IntVec, NatVec
<1>7. IntVec({f[p] : p \in P})
  BY <1>5, <1>6 DEF IntVec
<1> QED
  BY <1>4, <1>7, VecSubset

LEMMA ProductVec ==
    ASSUME NEW v, NEW w, NEW on, NatVec(v), NatVec(w)
    PROVE  NatVec(Product(v, w, on))
<1> DEFINE P == {q \in v \X w : On(q[1], on) = On(q[2], on)}
           f == [p \in P |-> Element(On(p[1], on), p[1].value * p[2].value)]
<1>1. IsFiniteSet(P)
  BY PairsFinite DEF IntVec, NatVec
<1>2. \A p \in P : p[1] \in v /\ p[2] \in w
  OBVIOUS
<1>3. DOMAIN f = P /\ \A p \in P : f[p].value = p[1].value * p[2].value
  BY ElementFacts
<1>4. Product(v, w, on) \subseteq {f[p] : p \in P}
  BY DEF Product, BinaryOn, Times_
<1> HIDE DEF f, P
<1>5. IsFiniteSet({f[p] : p \in P})
  BY <1>1, <1>3, FiniteImage
<1>6. \A p \in P : f[p].value \in Nat
  BY <1>2, <1>3 DEF IntVec, NatVec
<1>7. NatVec({f[p] : p \in P})
  BY <1>5, <1>6 DEF NatVec
<1> QED
  BY <1>4, <1>7, VecSubset

LEMMA PercentVec ==
    ASSUME NEW v, NEW w, NEW on, NatVec(v), NatVec(w)
    PROVE  NatVec(PercentOn(v, w, on))
<1> DEFINE P == {q \in v \X w : On(q[1], on) = On(q[2], on) /\ q[2].value # 0}
           f == [p \in P |-> Element(On(p[1], on), (100 * p[1].value) \div p[2].value)]
<1>1. IsFiniteSet(P)
  BY PairsFinite DEF IntVec, NatVec
<1>2. \A p \in P : p[1] \in v /\ p[2] \in w /\ p[2].value # 0
  OBVIOUS
<1>8. \A a, b \in Nat : b # 0 => (100 * a) \div b \in Nat
  OBVIOUS
<1>3. DOMAIN f = P /\ \A p \in P : f[p].value = (100 * p[1].value) \div p[2].value
  BY ElementFacts
<1>4. PercentOn(v, w, on) \subseteq {f[p] : p \in P}
  BY DEF PercentOn, BinaryOn, Where
<1> HIDE DEF f, P
<1>5. IsFiniteSet({f[p] : p \in P})
  BY <1>1, <1>3, FiniteImage
<1>9. \A p \in P : p[1].value \in Nat /\ p[2].value \in Nat
  BY <1>2 DEF NatVec
<1>6. \A p \in P : f[p].value \in Nat
  BY <1>2, <1>3, <1>8, <1>9
<1>7. NatVec({f[p] : p \in P})
  BY <1>5, <1>6 DEF NatVec
<1> QED
  BY <1>4, <1>7, VecSubset

-----------------------------------------------------------------------------
(* The rules as functions of the vectors they read. *)
RunningOf(v) == OrZero(CountAll(Where(v, LAMBDA n : n = 1)))
KVMOf(v) == OrZero(CountAll(Where(v, LAMBDA n : n # 0)))
UpOf(v) == OrZero(SumAll(v))
ReadyOf(v, w, on) == OrZero(SumAll(Product(v, w, on)))
UnschedulableOf(v) == OrZero(SumAll(CountBy(v, {"node"})))
AllocatableOf(v, w) == Difference(CountAll(CountBy(v, {"node"})), w)
VMsOf(v) == SumBy(CountBy(v, PerVMI), {"namespace"})
PhasesOf(v) == SumBy(v, {"node", "phase", "instance_type"})
VCPUsOf(v) == CountBy(v, {"namespace", "name", "node"})
NotNegative(v) == Map(v, LAMBDA n : Max({n, 0}))
QueueOf(v, w) == SumBy(NotNegative(Difference(v, w)), PerVMI)
HeadroomOf(v, w) == PercentOn(SumBy(v, PerVMI), SumBy(w, PerVMI), PerVMI)
SwapOf(v, w) == Addition(SumBy(v, PerVMI), SumBy(w, PerVMI))

(* What the rules select. *)
UpOfApp(db, app) == Select(db, "up", Pods(app))
PhaseOfApp(db, app) ==
    Select(db, "kube_pod_status_phase",
           [phase |-> {"Running"}, namespace |-> {Namespace}, pod |-> PodsOf[app]])
ReadyOfApp(db, app) ==
    Select(db, "kube_pod_status_ready",
           [condition |-> {"true"}, namespace |-> {Namespace}, pod |-> PodsOf[app]])
StatusIn(db, status) == Select(db, status, [namespace |-> {Namespace}])
ArbitersIn(db) == Select(db, "kube_node_role", [role |-> {"arbiter"}])
KVMIn(db) == Select(db, "kube_node_status_allocatable", [resource |-> {"devices_kubevirt_io_kvm"}])

LEMMA ComponentRules ==
    ASSUME NEW db
    PROVE  /\ RuleExpr("cluster:kubevirt_virt_api_up:sum", db) = UpOf(UpOfApp(db, "virt-api"))
           /\ RuleExpr("cluster:kubevirt_virt_controller_up:sum", db) = UpOf(UpOfApp(db, "virt-controller"))
           /\ RuleExpr("cluster:kubevirt_virt_handler_up:sum", db) = UpOf(UpOfApp(db, "virt-handler"))
           /\ RuleExpr("cluster:kubevirt_virt_operator_up:sum", db) = UpOf(UpOfApp(db, "virt-operator"))
           /\ RuleExpr("cluster:kubevirt_virt_controller_pods_running:count", db)
                = RunningOf(PhaseOfApp(db, "virt-controller"))
           /\ RuleExpr("cluster:kubevirt_virt_operator_pods_running:count", db)
                = RunningOf(PhaseOfApp(db, "virt-operator"))
           /\ RuleExpr("cluster:kubevirt_virt_controller_ready:sum", db)
                = ReadyOf(ReadyOfApp(db, "virt-controller"),
                          StatusIn(db, "kubevirt_virt_controller_ready_status"), {"pod", "namespace"})
           /\ RuleExpr("cluster:kubevirt_virt_operator_ready:sum", db)
                = ReadyOf(ReadyOfApp(db, "virt-operator"),
                          StatusIn(db, "kubevirt_virt_operator_ready_status"), {"pod"})
           /\ RuleExpr("cluster:kubevirt_virt_operator_leading:sum", db)
                = SumAll(StatusIn(db, "kubevirt_virt_operator_leading_status"))
<1>1. /\ RuleExpr("cluster:kubevirt_virt_api_up:sum", db) = Up(db, "virt-api")
      /\ RuleExpr("cluster:kubevirt_virt_controller_up:sum", db) = Up(db, "virt-controller")
      /\ RuleExpr("cluster:kubevirt_virt_handler_up:sum", db) = Up(db, "virt-handler")
      /\ RuleExpr("cluster:kubevirt_virt_operator_up:sum", db) = Up(db, "virt-operator")
  BY DEF RuleExpr
<1>2. /\ RuleExpr("cluster:kubevirt_virt_controller_pods_running:count", db) = PodsRunning(db, "virt-controller")
      /\ RuleExpr("cluster:kubevirt_virt_operator_pods_running:count", db) = PodsRunning(db, "virt-operator")
  BY DEF RuleExpr
<1>3. /\ RuleExpr("cluster:kubevirt_virt_controller_ready:sum", db)
            = Ready(db, "virt-controller", "kubevirt_virt_controller_ready_status", {"pod", "namespace"})
      /\ RuleExpr("cluster:kubevirt_virt_operator_ready:sum", db)
            = Ready(db, "virt-operator", "kubevirt_virt_operator_ready_status", {"pod"})
      /\ RuleExpr("cluster:kubevirt_virt_operator_leading:sum", db) = Leading(db)
  BY DEF RuleExpr
<1>4. \A app : Up(db, app) = UpOf(UpOfApp(db, app))
  BY DEF Up, UpOf, UpOfApp
<1>5. \A app : PodsRunning(db, app) = RunningOf(PhaseOfApp(db, app))
  BY DEF PodsRunning, RunningOf, PhaseOfApp
<1>6. \A app, status, on : Ready(db, app, status, on) = ReadyOf(ReadyOfApp(db, app), StatusIn(db, status), on)
  BY DEF Ready, ReadyOf, ReadyOfApp, StatusIn, Product
<1>7. Leading(db) = SumAll(StatusIn(db, "kubevirt_virt_operator_leading_status"))
  BY DEF Leading, StatusIn
<1> QED
  BY <1>1, <1>2, <1>3, <1>4, <1>5, <1>6, <1>7

LEMMA NodeRules ==
    ASSUME NEW db
    PROVE  /\ RuleExpr("cluster:kubevirt_nodes_with_kvm:count", db) = KVMOf(KVMIn(db))
           /\ RuleExpr("cluster:kubevirt_non_schedulable_nodes:sum", db) = UnschedulableOf(ArbitersIn(db))
           /\ RuleExpr(Allocatable, db)
                = AllocatableOf(All(db, "kube_node_status_allocatable"), All(db, Unschedulable))
<1>1. /\ RuleExpr("cluster:kubevirt_nodes_with_kvm:count", db) = NodesWithKVM(db)
      /\ RuleExpr("cluster:kubevirt_non_schedulable_nodes:sum", db) = NonSchedulableNodes(db)
      /\ RuleExpr(Allocatable, db) = NodesAllocatable(db)
  BY DEF RuleExpr, Allocatable
<1>2. NodesWithKVM(db) = KVMOf(KVMIn(db))
  BY DEF NodesWithKVM, KVMOf, KVMIn
<1>3. NonSchedulableNodes(db) = UnschedulableOf(ArbitersIn(db))
  BY DEF NonSchedulableNodes, UnschedulableOf, ArbitersIn
<1>4. NodesAllocatable(db) = AllocatableOf(All(db, "kube_node_status_allocatable"), All(db, Unschedulable))
  BY DEF NodesAllocatable, AllocatableOf, Difference, Unschedulable
<1> QED
  BY <1>1, <1>2, <1>3, <1>4

LEMMA VMRules ==
    ASSUME NEW db
    PROVE  /\ RuleExpr("namespace:kubevirt_vm:sum", db) = VMsOf(All(db, "kubevirt_vm_info"))
           /\ RuleExpr("node:kubevirt_vmi_phase:sum", db) = PhasesOf(All(db, "kubevirt_vmi_info"))
           /\ RuleExpr("vmi:kubevirt_vmi_memory_available_bytes:sum", db)
                = SumBy(All(db, "kubevirt_vmi_memory_available_bytes"), PerVMI)
           /\ RuleExpr("vmi:kubevirt_vmi_memory_headroom_ratio:sum", db)
                = HeadroomOf(All(db, "kubevirt_vmi_memory_usable_bytes"),
                             All(db, "kubevirt_vmi_memory_available_bytes"))
           /\ RuleExpr("vmi:kubevirt_vmi_memory_used_bytes:sum", db)
                = Difference(All(db, "kubevirt_vmi_memory_available_bytes"),
                             All(db, "kubevirt_vmi_memory_usable_bytes"))
           /\ RuleExpr("vmi:kubevirt_vmi_pgmajfaults:rate", db)
                = SumBy(All(db, "kubevirt_vmi_memory_pgmajfault_total"), PerVMI)
           /\ RuleExpr("vmi:kubevirt_vmi_swap_traffic_bytes:rate", db)
                = SwapOf(All(db, "kubevirt_vmi_memory_swap_in_traffic_bytes"),
                         All(db, "kubevirt_vmi_memory_swap_out_traffic_bytes"))
           /\ RuleExpr(VCPUCount, db) = VCPUsOf(All(db, "kubevirt_vmi_vcpu_seconds_total"))
           /\ RuleExpr(QueueLength, db) = QueueOf(All(db, "kubevirt_vmi_guest_load_1m"), All(db, VCPUCount))
<1>1. /\ RuleExpr("namespace:kubevirt_vm:sum", db) = NumberOfVMs(db)
      /\ RuleExpr("node:kubevirt_vmi_phase:sum", db) = VMIPhase(db)
      /\ RuleExpr("vmi:kubevirt_vmi_memory_available_bytes:sum", db) = MemoryAvailable(db)
      /\ RuleExpr("vmi:kubevirt_vmi_memory_headroom_ratio:sum", db) = MemoryHeadroom(db)
      /\ RuleExpr("vmi:kubevirt_vmi_memory_used_bytes:sum", db) = MemoryUsed(db)
  BY DEF RuleExpr
<1>2. /\ RuleExpr("vmi:kubevirt_vmi_pgmajfaults:rate", db) = MajorFaults(db)
      /\ RuleExpr("vmi:kubevirt_vmi_swap_traffic_bytes:rate", db) = SwapTraffic(db)
      /\ RuleExpr(VCPUCount, db) = VCPUs(db)
      /\ RuleExpr(QueueLength, db) = GuestQueueLength(db)
  BY DEF RuleExpr, VCPUCount, QueueLength
<1>3. /\ NumberOfVMs(db) = VMsOf(All(db, "kubevirt_vm_info"))
      /\ VMIPhase(db) = PhasesOf(All(db, "kubevirt_vmi_info"))
      /\ VCPUs(db) = VCPUsOf(All(db, "kubevirt_vmi_vcpu_seconds_total"))
  BY DEF NumberOfVMs, VMsOf, VMIPhase, PhasesOf, VCPUs, VCPUsOf
<1>4. /\ MemoryAvailable(db) = SumBy(All(db, "kubevirt_vmi_memory_available_bytes"), PerVMI)
      /\ MajorFaults(db) = SumBy(All(db, "kubevirt_vmi_memory_pgmajfault_total"), PerVMI)
  BY DEF MemoryAvailable, MajorFaults
<1>5. MemoryHeadroom(db) = HeadroomOf(All(db, "kubevirt_vmi_memory_usable_bytes"),
                                      All(db, "kubevirt_vmi_memory_available_bytes"))
  BY DEF MemoryHeadroom, HeadroomOf, MemoryAvailable
<1>6. MemoryUsed(db) = Difference(All(db, "kubevirt_vmi_memory_available_bytes"),
                                  All(db, "kubevirt_vmi_memory_usable_bytes"))
  BY DEF MemoryUsed, Difference
<1>7. SwapTraffic(db) = SwapOf(All(db, "kubevirt_vmi_memory_swap_in_traffic_bytes"),
                               All(db, "kubevirt_vmi_memory_swap_out_traffic_bytes"))
  BY DEF SwapTraffic, SwapOf, Addition
<1>8. GuestQueueLength(db) = QueueOf(All(db, "kubevirt_vmi_guest_load_1m"), All(db, VCPUCount))
  BY DEF GuestQueueLength, QueueOf, NotNegative, Difference, VCPUCount
<1> QED
  BY <1>1, <1>2, <1>3, <1>4, <1>5, <1>6, <1>7, <1>8

LEMMA AliasRules == \A d \in Aliases : \A db : RuleExpr(d, db) = All(db, Replacement[d])
BY DEF RuleExpr, Aliases

(* Rules that read scraped metrics only are functions of these. *)
Agree(a, b) == \A m \in Inputs : All(a, m) = All(b, m)

LEMMA SelectIs ==
    ASSUME NEW db, NEW m, NEW want
    PROVE  /\ Select(db, m, want) \subseteq All(db, m)
           /\ \A b : All(b, m) = All(db, m) => Select(b, m, want) = Select(db, m, want)
BY DEF Select

LEMMA SelectionsAgree ==
    ASSUME NEW a, NEW b, Agree(a, b)
    PROVE  /\ \A app : /\ UpOfApp(a, app) = UpOfApp(b, app)
                        /\ PhaseOfApp(a, app) = PhaseOfApp(b, app)
                        /\ ReadyOfApp(a, app) = ReadyOfApp(b, app)
           /\ \A m \in Inputs : StatusIn(a, m) = StatusIn(b, m)
           /\ ArbitersIn(a) = ArbitersIn(b) /\ KVMIn(a) = KVMIn(b)
<1>1. /\ All(a, "up") = All(b, "up")
      /\ All(a, "kube_pod_status_phase") = All(b, "kube_pod_status_phase")
      /\ All(a, "kube_pod_status_ready") = All(b, "kube_pod_status_ready")
      /\ All(a, "kube_node_role") = All(b, "kube_node_role")
      /\ All(a, "kube_node_status_allocatable") = All(b, "kube_node_status_allocatable")
  BY DEF Agree, Inputs
<1>2. \A app : UpOfApp(a, app) = UpOfApp(b, app)
  BY <1>1, SelectIs DEF UpOfApp
<1>3. \A app : PhaseOfApp(a, app) = PhaseOfApp(b, app)
  BY <1>1, SelectIs DEF PhaseOfApp
<1>4. \A app : ReadyOfApp(a, app) = ReadyOfApp(b, app)
  BY <1>1, SelectIs DEF ReadyOfApp
<1>5. \A m \in Inputs : StatusIn(a, m) = StatusIn(b, m)
  BY SelectIs DEF StatusIn, Agree
<1>6. ArbitersIn(a) = ArbitersIn(b)
  BY <1>1, SelectIs DEF ArbitersIn
<1>7. KVMIn(a) = KVMIn(b)
  BY <1>1, SelectIs DEF KVMIn
<1> QED
  BY <1>2, <1>3, <1>4, <1>5, <1>6, <1>7

LEMMA BaseAgree ==
    ASSUME NEW a, NEW b, Agree(a, b)
    PROVE  \A r \in BaseRules : RuleExpr(r, a) = RuleExpr(r, b)
<1>1. \A app : /\ UpOfApp(a, app) = UpOfApp(b, app)
               /\ PhaseOfApp(a, app) = PhaseOfApp(b, app)
               /\ ReadyOfApp(a, app) = ReadyOfApp(b, app)
  BY SelectionsAgree
<1>2. /\ ArbitersIn(a) = ArbitersIn(b) /\ KVMIn(a) = KVMIn(b)
      /\ StatusIn(a, "kubevirt_virt_controller_ready_status") = StatusIn(b, "kubevirt_virt_controller_ready_status")
      /\ StatusIn(a, "kubevirt_virt_operator_ready_status") = StatusIn(b, "kubevirt_virt_operator_ready_status")
      /\ StatusIn(a, "kubevirt_virt_operator_leading_status") = StatusIn(b, "kubevirt_virt_operator_leading_status")
  BY SelectionsAgree DEF Inputs
<1>3. /\ All(a, "kubevirt_vm_info") = All(b, "kubevirt_vm_info")
      /\ All(a, "kubevirt_vmi_info") = All(b, "kubevirt_vmi_info")
      /\ All(a, "kubevirt_vmi_memory_available_bytes") = All(b, "kubevirt_vmi_memory_available_bytes")
      /\ All(a, "kubevirt_vmi_memory_usable_bytes") = All(b, "kubevirt_vmi_memory_usable_bytes")
      /\ All(a, "kubevirt_vmi_memory_pgmajfault_total") = All(b, "kubevirt_vmi_memory_pgmajfault_total")
      /\ All(a, "kubevirt_vmi_memory_swap_in_traffic_bytes") = All(b, "kubevirt_vmi_memory_swap_in_traffic_bytes")
      /\ All(a, "kubevirt_vmi_memory_swap_out_traffic_bytes") = All(b, "kubevirt_vmi_memory_swap_out_traffic_bytes")
      /\ All(a, "kubevirt_vmi_vcpu_seconds_total") = All(b, "kubevirt_vmi_vcpu_seconds_total")
  BY DEF Agree, Inputs
<1> DEFINE Same(r) == RuleExpr(r, a) = RuleExpr(r, b)
<1>4. /\ Same("cluster:kubevirt_virt_api_up:sum") /\ Same("cluster:kubevirt_virt_controller_up:sum")
      /\ Same("cluster:kubevirt_virt_handler_up:sum") /\ Same("cluster:kubevirt_virt_operator_up:sum")
      /\ Same("cluster:kubevirt_virt_controller_pods_running:count")
      /\ Same("cluster:kubevirt_virt_operator_pods_running:count")
      /\ Same("cluster:kubevirt_virt_controller_ready:sum") /\ Same("cluster:kubevirt_virt_operator_ready:sum")
      /\ Same("cluster:kubevirt_virt_operator_leading:sum")
  BY <1>1, <1>2, ComponentRules
<1>5. /\ Same("cluster:kubevirt_nodes_with_kvm:count")
      /\ Same("cluster:kubevirt_non_schedulable_nodes:sum")
  BY <1>2, NodeRules
<1>6. /\ Same("namespace:kubevirt_vm:sum") /\ Same("node:kubevirt_vmi_phase:sum")
      /\ Same("vmi:kubevirt_vmi_memory_available_bytes:sum")
      /\ Same("vmi:kubevirt_vmi_memory_headroom_ratio:sum")
      /\ Same("vmi:kubevirt_vmi_memory_used_bytes:sum") /\ Same("vmi:kubevirt_vmi_pgmajfaults:rate")
      /\ Same("vmi:kubevirt_vmi_swap_traffic_bytes:rate") /\ Same("vmi:kubevirt_vmi_vcpu:count")
  BY <1>3, VMRules DEF VCPUCount
<1> HIDE DEF Same
<1>7. \A r \in BaseRules : Same(r)
  BY <1>4, <1>5, <1>6 DEF BaseRules
<1> QED
  BY <1>7 DEF Same

(* Values are numbers. *)
Typed(db) == /\ \A m \in Inputs : NatVec(All(db, m))
             /\ \A r \in Rules : IntVec(All(db, r))

LEMMA WhereVec ==
    ASSUME NEW v, IsFiniteSet(v)
    PROVE  NatVec(RunningOf(v)) /\ NatVec(KVMOf(v))
<1> DEFINE x == Where(v, LAMBDA n : n = 1)
           y == Where(v, LAMBDA n : n # 0)
<1>1. x \subseteq v /\ y \subseteq v
  BY DEF Where
<1>2. RunningOf(v) = OrZero(CountAll(x)) /\ KVMOf(v) = OrZero(CountAll(y))
  BY DEF RunningOf, KVMOf
<1> HIDE DEF x, y
<1>3. IsFiniteSet(x) /\ IsFiniteSet(y)
  BY <1>1, VecSubset
<1> QED
  BY <1>2, <1>3, CountVec, OrZeroVec

LEMMA NotNegativeVec ==
    ASSUME NEW v, IntVec(v)
    PROVE  IntVec(NotNegative(v))
<1> DEFINE f == [e \in v |-> Element(e.labels, Max({e.value, 0}))]
<1>1. NotNegative(v) = {f[e] : e \in v} /\ DOMAIN f = v
  BY DEF NotNegative, Map
<1>2. \A n \in Int : Max({n, 0}) \in Int
  <2> SUFFICES ASSUME NEW n \in Int PROVE Max({n, 0}) \in {n, 0}
    OBVIOUS
  <2>1. \E x \in {n, 0} : \A y \in {n, 0} : x >= y
    OBVIOUS
  <2> QED
    BY <2>1 DEF Max
<1>3. \A e \in v : f[e].value \in Int
  BY <1>2, ElementFacts DEF IntVec
<1> HIDE DEF f
<1>4. IsFiniteSet({f[e] : e \in v})
  BY <1>1, FiniteImage DEF IntVec
<1> QED
  BY <1>1, <1>3, <1>4 DEF IntVec

LEMMA SelectionsVec ==
    ASSUME NEW db, Typed(db)
    PROVE  /\ \A app : NatVec(UpOfApp(db, app)) /\ NatVec(PhaseOfApp(db, app)) /\ NatVec(ReadyOfApp(db, app))
           /\ \A m \in Inputs : NatVec(StatusIn(db, m))
           /\ NatVec(ArbitersIn(db)) /\ NatVec(KVMIn(db))
<1>1. \A m \in Inputs : \A want : NatVec(Select(db, m, want))
  BY SelectIs, VecSubset DEF Typed
<1>2. \A m \in Inputs : NatVec(StatusIn(db, m))
  BY <1>1 DEF StatusIn
<1>3. \A app : NatVec(UpOfApp(db, app)) /\ NatVec(PhaseOfApp(db, app)) /\ NatVec(ReadyOfApp(db, app))
  BY <1>1 DEF UpOfApp, PhaseOfApp, ReadyOfApp, Inputs
<1>4. NatVec(ArbitersIn(db)) /\ NatVec(KVMIn(db))
  BY <1>1 DEF ArbitersIn, KVMIn, Inputs
<1> QED
  BY <1>2, <1>3, <1>4

LEMMA RuleVec ==
    ASSUME NEW db, Typed(db)
    PROVE  \A r \in Rules : IntVec(RuleExpr(r, db))
<1> DEFINE OK(r) == IntVec(RuleExpr(r, db))
<1>1. \A v : NatVec(v) => IntVec(v) /\ IsFiniteSet(v)
  BY NatIsInt DEF NatVec
<1>2. \A app : NatVec(UpOfApp(db, app)) /\ NatVec(PhaseOfApp(db, app)) /\ NatVec(ReadyOfApp(db, app))
  BY SelectionsVec
<1>3. /\ NatVec(ArbitersIn(db)) /\ NatVec(KVMIn(db))
      /\ NatVec(StatusIn(db, "kubevirt_virt_controller_ready_status"))
      /\ NatVec(StatusIn(db, "kubevirt_virt_operator_ready_status"))
      /\ NatVec(StatusIn(db, "kubevirt_virt_operator_leading_status"))
  BY SelectionsVec DEF Inputs
<1>4. \A v : NatVec(v) => NatVec(UpOf(v)) /\ NatVec(SumAll(v))
  BY SumVec, OrZeroVec DEF UpOf
<1>5. \A v : NatVec(v) => NatVec(RunningOf(v)) /\ NatVec(KVMOf(v))
  BY WhereVec DEF NatVec
<1>6. \A v, w, on : NatVec(v) /\ NatVec(w) => NatVec(ReadyOf(v, w, on))
  BY ProductVec, SumVec, OrZeroVec DEF ReadyOf
<1>7. \A v : NatVec(v) => NatVec(UnschedulableOf(v))
  BY <1>1, CountByVec, SumVec, OrZeroVec DEF UnschedulableOf
<1>8. \A v, w : NatVec(v) /\ IntVec(w) => IntVec(AllocatableOf(v, w))
  BY <1>1, CountByVec, CountVec, DifferenceVec DEF AllocatableOf
<1>9. \A v : NatVec(v) => /\ NatVec(VMsOf(v)) /\ NatVec(PhasesOf(v)) /\ NatVec(VCPUsOf(v))
                          /\ NatVec(SumBy(v, PerVMI))
  BY <1>1, CountByVec, SumByVec DEF VMsOf, PhasesOf, VCPUsOf
<1>10. \A v, w : NatVec(v) /\ NatVec(w) => NatVec(HeadroomOf(v, w))
  BY <1>9, PercentVec DEF HeadroomOf
<1>11. \A v, w : NatVec(v) /\ NatVec(w) => IntVec(Difference(v, w)) /\ IntVec(SwapOf(v, w))
  BY <1>1, <1>9, DifferenceVec, AdditionVec DEF SwapOf
<1>12. \A v, w : NatVec(v) /\ IntVec(w) => IntVec(QueueOf(v, w))
  BY <1>1, DifferenceVec, NotNegativeVec, SumByVec DEF QueueOf
<1>13. OK("cluster:kubevirt_virt_api_up:sum") /\ OK("cluster:kubevirt_virt_controller_up:sum")
       /\ OK("cluster:kubevirt_virt_handler_up:sum") /\ OK("cluster:kubevirt_virt_operator_up:sum")
       /\ OK("cluster:kubevirt_virt_operator_leading:sum")
  BY <1>1, <1>2, <1>3, <1>4, ComponentRules
<1>14. OK("cluster:kubevirt_virt_controller_pods_running:count")
       /\ OK("cluster:kubevirt_virt_operator_pods_running:count")
  BY <1>1, <1>2, <1>5, ComponentRules
<1>15. OK("cluster:kubevirt_virt_controller_ready:sum") /\ OK("cluster:kubevirt_virt_operator_ready:sum")
  BY <1>1, <1>2, <1>3, <1>6, ComponentRules
<1>16. /\ NatVec(All(db, "kubevirt_vm_info")) /\ NatVec(All(db, "kubevirt_vmi_info"))
       /\ NatVec(All(db, "kubevirt_vmi_memory_available_bytes"))
       /\ NatVec(All(db, "kubevirt_vmi_memory_usable_bytes"))
       /\ NatVec(All(db, "kubevirt_vmi_memory_pgmajfault_total"))
       /\ NatVec(All(db, "kubevirt_vmi_memory_swap_in_traffic_bytes"))
       /\ NatVec(All(db, "kubevirt_vmi_memory_swap_out_traffic_bytes"))
       /\ NatVec(All(db, "kubevirt_vmi_vcpu_seconds_total"))
       /\ NatVec(All(db, "kubevirt_vmi_guest_load_1m"))
       /\ NatVec(All(db, "kube_node_status_allocatable"))
  BY DEF Typed, Inputs
<1>17. IntVec(All(db, VCPUCount)) /\ IntVec(All(db, Unschedulable))
  BY RuleKinds DEF Typed, BaseRules, VCPUCount, Unschedulable
<1>18. /\ OK("cluster:kubevirt_nodes_with_kvm:count")
       /\ OK("cluster:kubevirt_non_schedulable_nodes:sum") /\ OK(Allocatable)
  BY <1>1, <1>3, <1>5, <1>7, <1>8, <1>16, <1>17, NodeRules
<1>19. OK("namespace:kubevirt_vm:sum") /\ OK("node:kubevirt_vmi_phase:sum")
       /\ OK("vmi:kubevirt_vmi_memory_available_bytes:sum") /\ OK("vmi:kubevirt_vmi_pgmajfaults:rate")
       /\ OK("vmi:kubevirt_vmi_vcpu:count")
  BY <1>1, <1>9, <1>16, VMRules DEF VCPUCount
<1>20. OK("vmi:kubevirt_vmi_memory_headroom_ratio:sum") /\ OK("vmi:kubevirt_vmi_memory_used_bytes:sum")
       /\ OK("vmi:kubevirt_vmi_swap_traffic_bytes:rate") /\ OK(QueueLength)
  BY <1>1, <1>10, <1>11, <1>12, <1>16, <1>17, VMRules
<1>21. \A d \in Aliases : Replacement[d] \in Rules
  BY AliasFacts, RuleKinds
<1>22. \A d \in Aliases : OK(d)
  BY <1>21, AliasRules DEF Typed
<1> HIDE DEF OK
<1>23. \A r \in BaseRules : OK(r)
  BY <1>13, <1>14, <1>15, <1>18, <1>19, <1>20 DEF BaseRules
<1>24. \A r \in Rules : OK(r)
  BY <1>18, <1>20, <1>22, <1>23, RuleKinds
<1> QED
  BY <1>24 DEF OK

-----------------------------------------------------------------------------
(* What is scraped. *)
LEMMA DatabaseFacts ==
    ASSUME NEW S
    PROVE  /\ DOMAIN Database(S) = {s.metric : s \in S}
           /\ \A m : All(Database(S), m) = {s.element : s \in {t \in S : t.metric = m}}
<1>1. DOMAIN Database(S) = {s.metric : s \in S}
  BY DEF Database
<1>2. ASSUME NEW m PROVE All(Database(S), m) = {s.element : s \in {t \in S : t.metric = m}}
  <2>1. CASE m \in {s.metric : s \in S}
    BY <1>1, <2>1 DEF All, Database
  <2>2. CASE m \notin {s.metric : s \in S}
    <3>1. All(Database(S), m) = {}
      BY <1>1, <2>2 DEF All
    <3>2. {t \in S : t.metric = m} = {}
      BY <2>2
    <3> QED
      BY <3>1, <3>2
  <2> QED
    BY <2>1, <2>2
<1> QED
  BY <1>1, <1>2

LEMMA SeriesFacts ==
    \A m, l, n : /\ Series(m, l, n).metric = m
                 /\ Series(m, l, n).element.labels = l
                 /\ Series(m, l, n).element.value = n
                 /\ Series(m, l, n).element = Element(l, n)
BY ElementFacts DEF Series

ObjectOf(c, kind, k) == Value(c[kind][k])

LEMMA ObjectFacts ==
    ASSUME ClusterOK(cluster), NEW kind \in ClusterKinds, NEW k \in Existing(kind)
    PROVE  /\ k \in DOMAIN cluster[kind]
           /\ cluster[kind][k] = {Object(kind, k)}
           /\ WellFormed(kind, k, Object(kind, k))
<1>1. k \in DOMAIN cluster[kind] /\ cluster[kind][k] # {}
  BY DEF Existing
<1>2. Object(kind, k) \in cluster[kind][k]
  BY <1>1, ValueFacts DEF Object
<1> QED
  BY <1>1, <1>2 DEF ClusterOK

LEMMA ExistingFinite ==
    ASSUME ClusterOK(cluster), NEW kind \in ClusterKinds
    PROVE  IsFiniteSet(Existing(kind))
<1>1. IsFiniteSet(DOMAIN cluster[kind])
  BY DEF ClusterOK
<1>2. Existing(kind) \subseteq DOMAIN cluster[kind]
  BY DEF Existing
<1> QED
  BY <1>1, <1>2, FS_Subset

(* The parts of a scrape. *)
AllPods == UNION {PodSeries(k) : k \in Existing("pods")}
AllNodes == UNION {NodeSeries(n) : n \in Existing("nodes")}
AllComponents == UNION {UNION {ComponentSeries(app, k) : k \in ComponentPods(app)} : app \in Components}
AllConfig == {Series("kubevirt_configuration_emulation_enabled", [namespace |-> KubeVirtNamespace],
                     Bit(Object("config", k))) : k \in Existing("config")}
AllVMs == UNION {VMSeries(k) : k \in Existing("vms")}
AllVMIs == UNION {VMISeries(k) : k \in Existing("vmis")}
AllStatistics == UNION {StatisticsSeries(k) : k \in Existing("statistics")}
AllSeries == AllPods \cup AllNodes \cup WorkloadSeries \cup AllComponents \cup AllConfig \cup AllVMs
             \cup AllVMIs \cup AllStatistics

LEMMA ScrapeIs == Scrape = Database(AllSeries)
BY DEF Scrape, AllSeries, AllPods, AllNodes, AllComponents, AllConfig, AllVMs, AllVMIs, AllStatistics

(* A series that is not of a rule and whose value is a number; the load of *)
(* a guest comes with the job that scraped it.                             *)
Load == "kubevirt_vmi_guest_load_1m"
SeriesOK(s) ==
    /\ s.metric \notin Rules
    /\ s.element.value \in Nat
    /\ s.metric = Load => "job" \in DOMAIN s.element.labels
AllOK(S) == IsFiniteSet(S) /\ \A s \in S : SeriesOK(s)

LEMMA OKUnion ==
    ASSUME NEW S, NEW T, AllOK(S), AllOK(T)
    PROVE  AllOK(S \cup T)
BY FS_Union DEF AllOK

LEMMA OKSmall ==
    /\ AllOK({})
    /\ \A a : SeriesOK(a) => AllOK({a})
    /\ \A a, b : SeriesOK(a) /\ SeriesOK(b) => AllOK({a, b})
    /\ \A a, b, c : SeriesOK(a) /\ SeriesOK(b) /\ SeriesOK(c) => AllOK({a, b, c})
    /\ \A a, b, c, d : SeriesOK(a) /\ SeriesOK(b) /\ SeriesOK(c) /\ SeriesOK(d) => AllOK({a, b, c, d})
<1>1. AllOK({})
  BY FS_EmptySet DEF AllOK
<1>2. \A a : SeriesOK(a) => AllOK({a})
  BY FS_Singleton DEF AllOK
<1>3. \A a, b : SeriesOK(a) /\ SeriesOK(b) => AllOK({a, b})
  <2> SUFFICES ASSUME NEW a, NEW b, SeriesOK(a), SeriesOK(b) PROVE AllOK({a, b})
    OBVIOUS
  <2> DEFINE S == {a}
             T == {b}
  <2>1. {a, b} = S \cup T /\ AllOK(S) /\ AllOK(T)
    BY <1>2
  <2> HIDE DEF S, T
  <2> QED
    BY <2>1, OKUnion
<1>4. \A a, b, c : SeriesOK(a) /\ SeriesOK(b) /\ SeriesOK(c) => AllOK({a, b, c})
  <2> SUFFICES ASSUME NEW a, NEW b, NEW c, SeriesOK(a), SeriesOK(b), SeriesOK(c) PROVE AllOK({a, b, c})
    OBVIOUS
  <2> DEFINE S == {a, b}
             T == {c}
  <2>1. {a, b, c} = S \cup T /\ AllOK(S) /\ AllOK(T)
    BY <1>2, <1>3
  <2> HIDE DEF S, T
  <2> QED
    BY <2>1, OKUnion
<1>5. \A a, b, c, d : SeriesOK(a) /\ SeriesOK(b) /\ SeriesOK(c) /\ SeriesOK(d) => AllOK({a, b, c, d})
  <2> SUFFICES ASSUME NEW a, NEW b, NEW c, NEW d, SeriesOK(a), SeriesOK(b), SeriesOK(c), SeriesOK(d)
               PROVE AllOK({a, b, c, d})
    OBVIOUS
  <2> DEFINE S == {a, b}
             T == {c, d}
  <2>1. {a, b, c, d} = S \cup T /\ AllOK(S) /\ AllOK(T)
    BY <1>3
  <2> HIDE DEF S, T
  <2> QED
    BY <2>1, OKUnion
<1> QED
  BY <1>1, <1>2, <1>3, <1>4, <1>5

LEMMA OKEach ==
    ASSUME NEW S, IsFiniteSet(S), NEW f, DOMAIN f = S, \A k \in S : AllOK(f[k])
    PROVE  AllOK(UNION {f[k] : k \in S})
<1> DEFINE T == {f[k] : k \in S}
<1>1. IsFiniteSet(T)
  BY FiniteImage
<1>2. \A t \in T : AllOK(t)
  OBVIOUS
<1> HIDE DEF T
<1>3. IsFiniteSet(UNION T)
  BY <1>1, <1>2, FS_UNION DEF AllOK
<1>4. AllOK(UNION T)
  BY <1>2, <1>3 DEF AllOK
<1> QED
  BY <1>4 DEF T

(* Metrics of other parts of the cluster. *)
LEMMA OKSeries ==
    \A m \in Inputs \ {Load} : \A l : \A n \in Nat : SeriesOK(Series(m, l, n))
BY InputsAreNoRules, SeriesFacts DEF SeriesOK

LEMMA BitFacts == \A b : Bit(b) \in Nat
BY DEF Bit

LEMMA PodsOK ==
    ASSUME ClusterOK(cluster)
    PROVE  AllOK(AllPods)
<1> DEFINE f == [k \in Existing("pods") |-> PodSeries(k)]
<1>1. \A k : AllOK(PodSeries(k))
  <2> SUFFICES ASSUME NEW k PROVE AllOK(PodSeries(k))
    OBVIOUS
  <2>1. \A l : SeriesOK(Series("kube_pod_info", l, 1))
    BY OKSeries DEF Inputs, Load
  <2>2. \A l, b : /\ SeriesOK(Series("kube_pod_status_phase", l, Bit(b)))
                  /\ SeriesOK(Series("kube_pod_status_ready", l, Bit(b)))
    BY OKSeries, BitFacts DEF Inputs, Load
  <2> QED
    BY <2>1, <2>2, OKSmall DEF PodSeries
<1>2. IsFiniteSet(Existing("pods"))
  BY ExistingFinite DEF ClusterKinds
<1>3. DOMAIN f = Existing("pods") /\ (\A k \in Existing("pods") : AllOK(f[k]))
      /\ AllPods = UNION {f[k] : k \in Existing("pods")}
  BY <1>1 DEF AllPods
<1> HIDE DEF f
<1> QED
  BY <1>2, <1>3, OKEach

LEMMA NodesOK ==
    ASSUME ClusterOK(cluster)
    PROVE  AllOK(AllNodes)
<1> DEFINE f == [n \in Existing("nodes") |-> NodeSeries(n)]
<1>1. \A n : AllOK(NodeSeries(n))
  <2> SUFFICES ASSUME NEW n PROVE AllOK(NodeSeries(n))
    OBVIOUS
  <2> DEFINE o == Object("nodes", n)
             a == Series("kube_node_status_allocatable", [node |-> n, resource |-> "cpu"], 8)
             b == Series("kube_node_status_allocatable", [node |-> n, resource |-> "devices_kubevirt_io_kvm"],
                         Bit(o.kvm))
             c == Series("kube_node_spec_unschedulable", [node |-> n], Bit(o.cordoned))
             d == Series("kube_node_labels",
                         [node |-> n,
                          label_kubevirt_io_schedulable |-> IF o.schedulable THEN "true" ELSE "false"], 1)
             e == Series("kube_node_role", [node |-> n, role |-> "arbiter"], 1)
             S == {a, b, c, d}
             T == IF o.arbiter THEN {e} ELSE {}
  <2>1. \A l : \A x \in Nat : /\ SeriesOK(Series("kube_node_status_allocatable", l, x))
                              /\ SeriesOK(Series("kube_node_spec_unschedulable", l, x))
                              /\ SeriesOK(Series("kube_node_labels", l, x))
                              /\ SeriesOK(Series("kube_node_role", l, x))
    BY OKSeries DEF Inputs, Load
  <2>2. NodeSeries(n) = S \cup T
    BY DEF NodeSeries
  <2>3. SeriesOK(a) /\ SeriesOK(b) /\ SeriesOK(c) /\ SeriesOK(d) /\ SeriesOK(e)
    BY <2>1, BitFacts
  <2> HIDE DEF a, b, c, d, e
  <2>4. AllOK(S) /\ AllOK(T)
    BY <2>3, OKSmall
  <2> HIDE DEF S, T
  <2> QED
    BY <2>2, <2>4, OKUnion
<1>2. IsFiniteSet(Existing("nodes"))
  BY ExistingFinite DEF ClusterKinds
<1>3. DOMAIN f = Existing("nodes") /\ (\A n \in Existing("nodes") : AllOK(f[n]))
      /\ AllNodes = UNION {f[n] : n \in Existing("nodes")}
  BY <1>1 DEF AllNodes
<1> HIDE DEF f
<1> QED
  BY <1>2, <1>3, OKEach

LEMMA OKImage ==
    ASSUME NEW S, IsFiniteSet(S), NEW f, DOMAIN f = S, \A k \in S : SeriesOK(f[k])
    PROVE  AllOK({f[k] : k \in S})
BY FiniteImage DEF AllOK

LEMMA WorkloadOK ==
    ASSUME ClusterOK(cluster)
    PROVE  AllOK(WorkloadSeries)
<1> DEFINE H == [namespace |-> KubeVirtNamespace, daemonset |-> "virt-handler"]
           f == [app \in Existing("replicas") |->
                    Series("kube_deployment_spec_replicas", [namespace |-> KubeVirtNamespace, deployment |-> app],
                           Object("replicas", app))]
           R == {k \in ComponentPods("virt-handler") : Object("pods", k).ready}
           a == Series("kube_daemonset_status_number_ready", H, Cardinality(R))
           b == Series("kube_daemonset_status_desired_number_scheduled", H, Cardinality(Existing("nodes")))
           S == {f[app] : app \in Existing("replicas")}
           T == {a, b}
<1>1. WorkloadSeries = S \cup T
  BY DEF WorkloadSeries
<1>2. \A l : \A x \in Nat : /\ SeriesOK(Series("kube_deployment_spec_replicas", l, x))
                            /\ SeriesOK(Series("kube_daemonset_status_number_ready", l, x))
                            /\ SeriesOK(Series("kube_daemonset_status_desired_number_scheduled", l, x))
  BY OKSeries DEF Inputs, Load
<1>3. IsFiniteSet(Existing("pods")) /\ IsFiniteSet(Existing("nodes")) /\ IsFiniteSet(Existing("replicas"))
  BY ExistingFinite DEF ClusterKinds
<1>4. R \subseteq Existing("pods")
  BY DEF ComponentPods, PodsIn
<1> HIDE DEF R
<1>5. Cardinality(R) \in Nat /\ Cardinality(Existing("nodes")) \in Nat
  BY <1>3, <1>4, FS_Subset, FS_CardinalityType
<1>6. SeriesOK(a) /\ SeriesOK(b)
  BY <1>2, <1>5
<1>7. AllOK(T)
  BY <1>6, OKSmall
<1>8. \A app \in Existing("replicas") : Object("replicas", app) \in Nat
  BY ObjectFacts DEF ClusterKinds, WellFormed
<1>9. DOMAIN f = Existing("replicas") /\ \A app \in Existing("replicas") : SeriesOK(f[app])
  BY <1>2, <1>8
<1> HIDE DEF f
<1>10. AllOK(S)
  BY <1>3, <1>9, OKImage
<1> HIDE DEF S, T
<1> QED
  BY <1>1, <1>7, <1>10, OKUnion

LEMMA ConfigOK ==
    ASSUME ClusterOK(cluster)
    PROVE  AllOK(AllConfig)
<1> DEFINE f == [k \in Existing("config") |->
                    Series("kubevirt_configuration_emulation_enabled", [namespace |-> KubeVirtNamespace],
                           Bit(Object("config", k)))]
<1>1. \A l : \A x \in Nat : SeriesOK(Series("kubevirt_configuration_emulation_enabled", l, x))
  BY OKSeries DEF Inputs, Load
<1>2. IsFiniteSet(Existing("config"))
  BY ExistingFinite DEF ClusterKinds
<1>3. DOMAIN f = Existing("config") /\ (\A k \in Existing("config") : SeriesOK(f[k]))
      /\ AllConfig = {f[k] : k \in Existing("config")}
  BY <1>1, BitFacts DEF AllConfig
<1> HIDE DEF f
<1> QED
  BY <1>2, <1>3, OKImage

LEMMA ComponentsOK ==
    ASSUME ClusterOK(cluster)
    PROVE  AllOK(AllComponents)
<1>1. \A l : \A x \in Nat : /\ SeriesOK(Series("up", l, x))
                            /\ SeriesOK(Series("kubevirt_rest_client_requests_total", l, x))
                            /\ SeriesOK(Series("kubevirt_virt_controller_ready_status", l, x))
                            /\ SeriesOK(Series("kubevirt_virt_operator_ready_status", l, x))
                            /\ SeriesOK(Series("kubevirt_virt_operator_leading_status", l, x))
  BY OKSeries DEF Inputs, Load
<1>2. ASSUME NEW app, NEW k \in Existing("pods") PROVE AllOK(ComponentSeries(app, k))
  <2> DEFINE o == Object("pods", k)
             l == [namespace |-> k[1], pod |-> k[2]]
             answered(code) == [namespace |-> k[1], pod |-> k[2], code |-> code]
             a == Series("up", l, Bit(o.up))
             b == Series("kubevirt_rest_client_requests_total", answered("5xx"), o.failing)
             c == Series("kubevirt_rest_client_requests_total", answered("2xx"), 100 - o.failing)
             d == Series("kubevirt_virt_controller_ready_status", l, Bit(o.ready))
             e == Series("kubevirt_virt_operator_ready_status", l, Bit(o.ready))
             g == Series("kubevirt_virt_operator_leading_status", l, Bit(o.leading))
             T == {b, c}
             U == IF app = "virt-controller" THEN {d} ELSE {}
             V == IF app = "virt-operator" THEN {e, g} ELSE {}
             A == {a}
             W == T \cup U \cup V
  <2>1. ComponentSeries(app, k) = A \cup (IF ~o.up THEN {} ELSE W)
    BY DEF ComponentSeries
  <2>2. o.failing \in 0..100
    BY ObjectFacts DEF ClusterKinds, WellFormed
  <2>3. o.failing \in Nat /\ 100 - o.failing \in Nat
    BY <2>2
  <2>4. SeriesOK(a) /\ SeriesOK(b) /\ SeriesOK(c) /\ SeriesOK(d) /\ SeriesOK(e) /\ SeriesOK(g)
    BY <1>1, <2>3, BitFacts
  <2> HIDE DEF a, b, c, d, e, g, o
  <2>5. AllOK(A) /\ AllOK(T) /\ AllOK(U) /\ AllOK(V)
    BY <2>4, OKSmall
  <2> HIDE DEF A, T, U, V
  <2>6. AllOK(T \cup U)
    BY <2>5, OKUnion
  <2>7. AllOK(W) /\ AllOK({})
    BY <2>5, <2>6, OKUnion, OKSmall
  <2> HIDE DEF W
  <2>8. AllOK(A \cup W) /\ A \cup {} = A
    BY <2>5, <2>7, OKUnion
  <2> QED
    BY <2>1, <2>5, <2>8
<1> DEFINE Of(app) == UNION {ComponentSeries(app, k) : k \in ComponentPods(app)}
           h == [app \in Components |-> Of(app)]
<1>3. ASSUME NEW app PROVE AllOK(Of(app))
  <2> DEFINE f == [k \in ComponentPods(app) |-> ComponentSeries(app, k)]
  <2>1. ComponentPods(app) \subseteq Existing("pods")
    BY DEF ComponentPods, PodsIn
  <2>2. IsFiniteSet(ComponentPods(app))
    BY <2>1, ExistingFinite, FS_Subset DEF ClusterKinds
  <2>3. DOMAIN f = ComponentPods(app) /\ (\A k \in ComponentPods(app) : AllOK(f[k]))
        /\ Of(app) = UNION {f[k] : k \in ComponentPods(app)}
    BY <1>2, <2>1
  <2> HIDE DEF f, Of
  <2> QED
    BY <2>2, <2>3, OKEach
<1>4. AllComponents = UNION {h[app] : app \in Components} /\ DOMAIN h = Components
  BY DEF AllComponents
<1>5. \A app \in Components : AllOK(h[app])
  BY <1>3
<1> HIDE DEF h
<1>6. IsFiniteSet(Components)
  <2>1. Components = {"virt-api"} \cup {"virt-controller"} \cup {"virt-operator"} \cup {"virt-handler"}
    BY DEF Components
  <2> QED
    BY <2>1, FS_Singleton, FS_Union
<1> QED
  BY <1>4, <1>5, <1>6, OKEach

LEMMA VMsOK ==
    ASSUME ClusterOK(cluster)
    PROVE  AllOK(AllVMs)
<1> DEFINE f == [k \in Existing("vms") |-> VMSeries(k)]
<1>1. \A k : AllOK(VMSeries(k))
  <2> SUFFICES ASSUME NEW k PROVE AllOK(VMSeries(k))
    OBVIOUS
  <2>1. \A l : SeriesOK(Series("kubevirt_vm_info", l, 1))
    BY OKSeries DEF Inputs, Load
  <2>2. \E l : VMSeries(k) = {Series("kubevirt_vm_info", l, 1)}
    BY DEF VMSeries
  <2> QED
    BY <2>1, <2>2, OKSmall
<1>2. IsFiniteSet(Existing("vms"))
  BY ExistingFinite DEF ClusterKinds
<1>3. DOMAIN f = Existing("vms") /\ (\A k \in Existing("vms") : AllOK(f[k]))
      /\ AllVMs = UNION {f[k] : k \in Existing("vms")}
  BY <1>1 DEF AllVMs
<1> HIDE DEF f
<1> QED
  BY <1>2, <1>3, OKEach

LEMMA BlockerValue == \A k, o : Head(getEvictionBlocker(k, o)).value \in Nat
<1> SUFFICES ASSUME NEW k, NEW o PROVE Head(getEvictionBlocker(k, o)).value \in Nat
  OBVIOUS
<1> DEFINE s == Sample("kubevirt_vmi_non_evictable", [key |-> k, node |-> o.node],
                       IF IsVMIEvictable(o) THEN 0 ELSE 1)
<1>1. getEvictionBlocker(k, o) = <<s>> /\ s.value \in Nat
  BY DEF getEvictionBlocker, Sample
<1> HIDE DEF s
<1>2. Head(<<s>>) = s
  OBVIOUS
<1> QED
  BY <1>1, <1>2

LEMMA VMIsOK ==
    ASSUME ClusterOK(cluster)
    PROVE  AllOK(AllVMIs)
<1> DEFINE f == [k \in Existing("vmis") |-> VMISeries(k)]
<1>1. \A k : AllOK(VMISeries(k))
  <2> SUFFICES ASSUME NEW k PROVE AllOK(VMISeries(k))
    OBVIOUS
  <2>1. \A l : \A n \in Nat : /\ SeriesOK(Series("kubevirt_vmi_info", l, n))
                              /\ SeriesOK(Series("kubevirt_vmi_non_evictable", l, n))
    BY OKSeries DEF Inputs, Load
  <2>2. \E l, m : VMISeries(k) = {Series("kubevirt_vmi_info", l, 1),
                                  Series("kubevirt_vmi_non_evictable", m,
                                         Head(getEvictionBlocker(k, Object("vmis", k))).value)}
    BY DEF VMISeries
  <2> QED
    BY <2>1, <2>2, BlockerValue, OKSmall
<1>2. IsFiniteSet(Existing("vmis"))
  BY ExistingFinite DEF ClusterKinds
<1>3. DOMAIN f = Existing("vmis") /\ (\A k \in Existing("vmis") : AllOK(f[k]))
      /\ AllVMIs = UNION {f[k] : k \in Existing("vmis")}
  BY <1>1 DEF AllVMIs
<1> HIDE DEF f
<1> QED
  BY <1>2, <1>3, OKEach

(* Whatever labels a series of the controller has, it has the job's. *)
LEMMA ScrapedByJob == \A k, l : "job" \in DOMAIN Scraped(k, l)
BY DEF Scraped, NonEmpty, Extend, Target

LEMMA SeqFinite ==
    ASSUME NEW s, IsSeq(s)
    PROVE  IsFiniteSet(ToSet(s))
<1>1. Len(s) \in Nat /\ DOMAIN s = 1..Len(s)
  BY SeqFacts
<1>2. IsFiniteSet(DOMAIN s)
  BY <1>1, FS_Interval
<1>3. ToSet(s) = {s[i] : i \in DOMAIN s}
  BY DEF ToSet
<1> QED
  BY <1>2, <1>3, FiniteImage

LEMMA StatisticsOK ==
    ASSUME ClusterOK(cluster)
    PROVE  AllOK(AllStatistics)
<1> DEFINE f == [k \in Existing("statistics") |-> StatisticsSeries(k)]
<1>1. ASSUME NEW k \in Existing("statistics") PROVE AllOK(StatisticsSeries(k))
  <2> DEFINE e == Object("statistics", k)
             report == Report(k, e, Value(buildRuntimeLabels(e.vmi)))
             samples == VMStatsSamples(report)
             g == [s \in ToSet(samples) |->
                      Series(s.metric, Scraped(k, Extend([node |-> s.labels.base.node],
                                                         Extend(s.labels.base.runtime, s.labels.own))),
                             s.value[1])]
  <2>1. StatisticsSeries(k) = {g[s] : s \in ToSet(samples)}
    BY DEF StatisticsSeries
  <2>2. StatsOK(report.stats)
    BY ObjectFacts DEF ClusterKinds, WellFormed, Report
  <2> HIDE DEF report
  <2>3. Good(samples) /\ Stat(samples, StatisticsMetrics, report.base)
    BY <2>2, StatisticsStat
  <2>4. /\ \A s \in ToSet(samples) : s.metric \in StatisticsMetrics /\ s.value[1] \in Nat
        /\ IsFiniteSet(ToSet(samples))
    BY <2>3, SeqFinite DEF Stat, Good
  <2>5. DOMAIN g = ToSet(samples)
    OBVIOUS
  <2>6. \A s \in ToSet(samples) : SeriesOK(g[s])
    BY <2>4, SeriesFacts, StatisticsAreNoRules, ScrapedByJob DEF SeriesOK
  <2> HIDE DEF g, samples
  <2> QED
    BY <2>1, <2>4, <2>5, <2>6, OKImage
<1>2. IsFiniteSet(Existing("statistics"))
  BY ExistingFinite DEF ClusterKinds
<1>3. DOMAIN f = Existing("statistics") /\ (\A k \in Existing("statistics") : AllOK(f[k]))
      /\ AllStatistics = UNION {f[k] : k \in Existing("statistics")}
  BY <1>1 DEF AllStatistics
<1> HIDE DEF f
<1> QED
  BY <1>2, <1>3, OKEach

LEMMA AllSeriesOK ==
    ASSUME ClusterOK(cluster)
    PROVE  AllOK(AllSeries)
<1>1. /\ AllOK(AllPods) /\ AllOK(AllNodes) /\ AllOK(WorkloadSeries) /\ AllOK(AllComponents)
      /\ AllOK(AllConfig) /\ AllOK(AllVMs) /\ AllOK(AllVMIs) /\ AllOK(AllStatistics)
  BY PodsOK, NodesOK, WorkloadOK, ComponentsOK, ConfigOK, VMsOK, VMIsOK, StatisticsOK
<1> QED
  BY <1>1, OKUnion DEF AllSeries

LEMMA ScrapeFacts ==
    ASSUME ClusterOK(cluster)
    PROVE  /\ \A m \in DOMAIN Scrape : m \notin Rules
           /\ \A m : NatVec(All(Scrape, m))
           /\ \A e \in All(Scrape, Load) : "job" \in DOMAIN e.labels
<1> DEFINE S == AllSeries
           Of(m) == {t \in S : t.metric = m}
           f == [s \in S |-> s.element]
<1>1. AllOK(S)
  BY AllSeriesOK
<1> HIDE DEF S
<1>2. Scrape = Database(S)
  BY ScrapeIs DEF S
<1>3. DOMAIN Scrape = {s.metric : s \in S}
  BY <1>2, DatabaseFacts
<1>4. \A m : All(Scrape, m) = {s.element : s \in Of(m)}
  <2>1. \A m : All(Database(S), m) = {s.element : s \in {t \in S : t.metric = m}}
    BY DatabaseFacts
  <2> QED
    BY <1>2, <2>1
<1>5. ASSUME NEW m PROVE NatVec(All(Scrape, m))
  <2>1. Of(m) \subseteq S /\ DOMAIN f = S /\ All(Scrape, m) = {f[s] : s \in Of(m)}
    BY <1>4
  <2> HIDE DEF Of, f
  <2>2. IsFiniteSet(Of(m))
    BY <1>1, <2>1, FS_Subset DEF AllOK
  <2>3. IsFiniteSet(All(Scrape, m))
    BY <2>1, <2>2, FiniteImage
  <2>4. \A e \in All(Scrape, m) : e.value \in Nat
    BY <1>1, <1>4 DEF AllOK, SeriesOK, Of
  <2> QED
    BY <2>3, <2>4 DEF NatVec
<1>6. \A m \in DOMAIN Scrape : m \notin Rules
  BY <1>1, <1>3 DEF AllOK, SeriesOK
<1>7. \A e \in All(Scrape, Load) : "job" \in DOMAIN e.labels
  BY <1>1, <1>4 DEF AllOK, SeriesOK
<1> QED
  BY <1>5, <1>6, <1>7

(* A scrape depends on the cluster only. *)
LEMMA ScrapeUnchanged == UNCHANGED cluster => Scrape' = Scrape
<1> SUFFICES ASSUME UNCHANGED cluster PROVE Scrape' = Scrape
  OBVIOUS
<1>1. \A kind : Existing(kind)' = Existing(kind)
  BY DEF Existing
<1>2. \A kind, k : Object(kind, k)' = Object(kind, k)
  BY DEF Object
<1>3. \A app : ComponentPods(app)' = ComponentPods(app)
  BY <1>1 DEF ComponentPods, PodsIn
<1>4. \A k : PodSeries(k)' = PodSeries(k) /\ NodeSeries(k)' = NodeSeries(k)
  BY <1>2 DEF PodSeries, NodeSeries
<1>5. \A k : VMSeries(k)' = VMSeries(k)
  BY <1>2 DEF VMSeries
<1>6. \A k : VMISeries(k)' = VMISeries(k)
  BY <1>2 DEF VMISeries
<1>7. \A k : StatisticsSeries(k)' = StatisticsSeries(k)
  BY <1>2 DEF StatisticsSeries
<1>8. \A app, k : ComponentSeries(app, k)' = ComponentSeries(app, k)
  BY <1>2 DEF ComponentSeries
<1>9. WorkloadSeries' = WorkloadSeries
  BY <1>1, <1>2, <1>3 DEF WorkloadSeries
<1>10. AllPods' = AllPods
  BY <1>1, <1>4 DEF AllPods
<1>11. AllNodes' = AllNodes
  BY <1>1, <1>4 DEF AllNodes
<1>12. AllComponents' = AllComponents
  BY <1>3, <1>8 DEF AllComponents
<1>13. AllConfig' = AllConfig
  BY <1>1, <1>2 DEF AllConfig
<1>14. AllVMs' = AllVMs
  BY <1>1, <1>5 DEF AllVMs
<1>15. AllVMIs' = AllVMIs
  BY <1>1, <1>6 DEF AllVMIs
<1>16. AllStatistics' = AllStatistics
  BY <1>1, <1>7 DEF AllStatistics
<1>17. AllSeries' = AllSeries
  BY <1>9, <1>10, <1>11, <1>12, <1>13, <1>14, <1>15, <1>16 DEF AllSeries
<1>18. Scrape = Database(AllSeries) /\ (Scrape = Database(AllSeries))'
  BY ScrapeIs, PTL
<1> QED
  BY <1>17, <1>18

-----------------------------------------------------------------------------
(* One evaluation of the group over a scrape sc, from a database db.       *)
GuestQueue == "kubevirt_vmi_guest_vcpu_queue"
AllocatableAlias == "kubevirt_allocatable_nodes"

(* What every evaluation keeps of the vectors recorded: they hold numbers, *)
(* vCPUs are counted without the label of the job, and so no queue is ever *)
(* found.                                                                  *)
RecordedOK(db) ==
    /\ \A r \in Rules : IntVec(db[r])
    /\ db[QueueLength] = {} /\ db[GuestQueue] = {}
    /\ \A e \in db[VCPUCount] : "job" \notin DOMAIN e.labels

ScrapeOK(sc) ==
    /\ \A m \in DOMAIN sc : m \notin Rules
    /\ \A m : NatVec(All(sc, m))
    /\ \A e \in All(sc, Load) : "job" \in DOMAIN e.labels

Sound(db, sc) ==
    /\ DOMAIN db = DOMAIN sc \cup Rules
    /\ \A m : m \notin Rules => All(db, m) = All(sc, m)
    /\ RecordedOK(db)

LEMMA SpecialRules ==
    /\ Allocatable \in Rules /\ QueueLength \in Rules /\ GuestQueue \in Aliases
    /\ AllocatableAlias \in Aliases /\ VCPUCount \in BaseRules /\ Unschedulable \in BaseRules
    /\ \A r \in BaseRules \cup Aliases : r \in Rules
    /\ Load \in Inputs
<1>1. GuestQueue \in Aliases /\ AllocatableAlias \in Aliases
  BY DEF GuestQueue, AllocatableAlias, Aliases
<1>2. VCPUCount \in BaseRules /\ Unschedulable \in BaseRules
  BY DEF VCPUCount, Unschedulable, BaseRules
<1> QED
  BY <1>1, <1>2, RuleKinds DEF Load, Inputs

LEMMA SoundFacts ==
    ASSUME NEW db, NEW sc, Sound(db, sc), ScrapeOK(sc)
    PROVE  /\ Typed(db) /\ Agree(db, sc)
           /\ \A r \in Rules : All(db, r) = db[r]
<1>1. \A r \in Rules : All(db, r) = db[r]
  BY DEF Sound, All
<1>2. Agree(db, sc)
  BY InputsAreNoRules DEF Agree, Sound
<1>3. Typed(db)
  BY <1>1, <1>2 DEF Typed, Agree, ScrapeOK, Sound, RecordedOK
<1> QED
  BY <1>1, <1>2, <1>3

LEMMA NoQueue ==
    ASSUME NEW v, NEW w, \A e \in v : "job" \in DOMAIN e.labels, \A e \in w : "job" \notin DOMAIN e.labels
    PROVE  QueueOf(v, w) = {}
<1>1. Difference(v, w) = {}
  BY DEF Difference, Binary
<1>2. NotNegative({}) = {}
  BY DEF NotNegative, Map
<1>3. SumBy({}, PerVMI) = {}
  BY SumByIs DEF Parts
<1> QED
  BY <1>1, <1>2, <1>3 DEF QueueOf

LEMMA CountedWithoutJob ==
    \A v : \A e \in VCPUsOf(v) : "job" \notin DOMAIN e.labels
<1> SUFFICES ASSUME NEW v, NEW e \in VCPUsOf(v) PROVE "job" \notin DOMAIN e.labels
  OBVIOUS
<1> DEFINE N == {"namespace", "name", "node"}
<1>1. "job" \notin N
  OBVIOUS
<1>2. e \in CountBy(v, N)
  BY DEF VCPUsOf
<1> HIDE DEF N
<1>3. PICK g \in Parts(v, N) : e = Element(g, Cardinality(Part(v, N, g)))
  BY <1>2, CountByIs
<1>4. DOMAIN g \subseteq N
  BY DEF Parts, On
<1> QED
  BY <1>1, <1>3, <1>4, ElementFacts

LEMMA QueueFacts ==
    ASSUME NEW db, NEW sc, Sound(db, sc), ScrapeOK(sc)
    PROVE  /\ RuleExpr(QueueLength, db) = {} /\ RuleExpr(GuestQueue, db) = {}
           /\ \A e \in RuleExpr(VCPUCount, db) : "job" \notin DOMAIN e.labels
<1>1. All(db, Load) = All(sc, Load)
  BY SoundFacts, SpecialRules DEF Agree
<1>2. All(db, VCPUCount) = db[VCPUCount] /\ All(db, QueueLength) = db[QueueLength]
  BY SoundFacts, SpecialRules
<1>3. RuleExpr(QueueLength, db) = {}
  <2>1. RuleExpr(QueueLength, db) = QueueOf(All(db, Load), All(db, VCPUCount))
    BY VMRules DEF Load
  <2> QED
    BY <1>1, <1>2, <2>1, NoQueue DEF Sound, RecordedOK, ScrapeOK
<1>4. RuleExpr(GuestQueue, db) = {}
  <2>1. RuleExpr(GuestQueue, db) = All(db, Replacement[GuestQueue])
    BY AliasRules, SpecialRules
  <2>2. Replacement[GuestQueue] = QueueLength
    BY AliasFacts DEF GuestQueue
  <2> QED
    BY <1>2, <2>1, <2>2 DEF Sound, RecordedOK
<1>5. \A e \in RuleExpr(VCPUCount, db) : "job" \notin DOMAIN e.labels
  BY VMRules, CountedWithoutJob
<1> QED
  BY <1>3, <1>4, <1>5

LEMMA SoundStep ==
    ASSUME NEW db, NEW sc, Sound(db, sc), ScrapeOK(sc), NEW r \in Rules
    PROVE  Sound([db EXCEPT ![r] = RuleExpr(r, db)], sc)
<1> DEFINE x == RuleExpr(r, db)
           new == [db EXCEPT ![r] = x]
<1>1. IntVec(x)
  BY SoundFacts, RuleVec
<1>2. /\ r = QueueLength => x = {}
      /\ r = GuestQueue => x = {}
      /\ r = VCPUCount => \A e \in x : "job" \notin DOMAIN e.labels
  BY QueueFacts
<1> HIDE DEF x
<1>3. DOMAIN new = DOMAIN db /\ r \in DOMAIN db
  BY DEF Sound
<1>4. \A q \in DOMAIN db : new[q] = IF q = r THEN x ELSE db[q]
  OBVIOUS
<1>5. \A q \in Rules : q \in DOMAIN db
  BY DEF Sound
<1> HIDE DEF new
<1>6. \A m : m \notin Rules => All(new, m) = All(db, m)
  BY <1>3, <1>4 DEF All
<1>7. RecordedOK(new)
  <2>1. \A q \in Rules : IntVec(new[q])
    BY <1>1, <1>4, <1>5 DEF Sound, RecordedOK
  <2>2. QueueLength \in Rules /\ GuestQueue \in Rules /\ VCPUCount \in Rules
    BY SpecialRules
  <2>3. new[QueueLength] = {} /\ new[GuestQueue] = {}
    BY <1>2, <1>4, <1>5, <2>2 DEF Sound, RecordedOK
  <2>4. \A e \in new[VCPUCount] : "job" \notin DOMAIN e.labels
    BY <1>2, <1>4, <1>5, <2>2 DEF Sound, RecordedOK
  <2> QED
    BY <2>1, <2>3, <2>4 DEF RecordedOK
<1> QED
  BY <1>3, <1>6, <1>7 DEF Sound, new, x

(* The values the rules settle at. *)
Settles(sc, r) == IF r = Allocatable THEN AllocatableOf(All(sc, "kube_node_status_allocatable"),
                                                       RuleExpr(Unschedulable, sc))
                  ELSE IF r = QueueLength THEN {} ELSE RuleExpr(r, sc)
Final(sc, r) == IF r \in Aliases THEN Settles(sc, Replacement[r]) ELSE Settles(sc, r)

BaseRight(db, sc) == \A r \in BaseRules : db[r] = RuleExpr(r, sc)

LEMMA FinalBase ==
    ASSUME NEW sc
    PROVE  \A r \in BaseRules : Final(sc, r) = RuleExpr(r, sc)
BY RuleKindsApart DEF Final, Settles

LEMMA BaseStep ==
    ASSUME NEW db, NEW sc, Sound(db, sc), ScrapeOK(sc)
    PROVE  \A r \in BaseRules : RuleExpr(r, db) = RuleExpr(r, sc)
BY SoundFacts, BaseAgree

LEMMA FinalStep ==
    ASSUME NEW db, NEW sc, Sound(db, sc), ScrapeOK(sc), BaseRight(db, sc), NEW r \in Rules,
           r = AllocatableAlias => db[Allocatable] = Final(sc, Allocatable)
    PROVE  RuleExpr(r, db) = Final(sc, r)
<1>1. CASE r \in BaseRules
  BY <1>1, BaseStep, FinalBase
<1>2. CASE r = Allocatable
  <2>1. All(db, Unschedulable) = RuleExpr(Unschedulable, sc)
    BY SoundFacts, SpecialRules DEF BaseRight
  <2>2. All(db, "kube_node_status_allocatable") = All(sc, "kube_node_status_allocatable")
    BY SoundFacts DEF Agree, Inputs
  <2>3. RuleExpr(Allocatable, db)
          = AllocatableOf(All(db, "kube_node_status_allocatable"), All(db, Unschedulable))
    BY NodeRules
  <2> QED
    BY <1>2, <2>1, <2>2, <2>3, RuleKindsApart DEF Final, Settles
<1>3. CASE r = QueueLength
  BY <1>3, QueueFacts, RuleKindsApart DEF Final, Settles
<1>4. CASE r \in Aliases
  <2>1. RuleExpr(r, db) = All(db, Replacement[r]) /\ Final(sc, r) = Settles(sc, Replacement[r])
    BY <1>4, AliasRules DEF Final
  <2>2. CASE r = GuestQueue
    <3>1. Replacement[r] = QueueLength
      BY <2>2, AliasFacts DEF GuestQueue
    <3> QED
      BY <2>1, <2>2, <3>1, QueueFacts, RuleKindsApart DEF Settles
  <2>3. CASE r = AllocatableAlias
    <3>1. Replacement[r] = Allocatable
      BY <2>3, AliasFacts DEF AllocatableAlias
    <3>2. All(db, Allocatable) = Final(sc, Allocatable)
      BY <2>3, SoundFacts, SpecialRules
    <3>3. Final(sc, Allocatable) = Settles(sc, Allocatable)
      BY RuleKindsApart DEF Final
    <3> QED
      BY <2>1, <3>1, <3>2, <3>3
  <2>4. CASE r # GuestQueue /\ r # AllocatableAlias
    <3>1. Replacement[r] \in BaseRules
      BY <1>4, <2>4, AliasFacts DEF GuestQueue, AllocatableAlias
    <3>2. All(db, Replacement[r]) = RuleExpr(Replacement[r], sc)
      BY <3>1, SoundFacts, SpecialRules DEF BaseRight
    <3>3. Settles(sc, Replacement[r]) = RuleExpr(Replacement[r], sc)
      BY <3>1, RuleKindsApart DEF Settles
    <3> QED
      BY <2>1, <3>2, <3>3
  <2> QED
    BY <2>2, <2>3, <2>4
<1> QED
  BY <1>1, <1>2, <1>3, <1>4, RuleKinds

LEMMA ExtendFacts ==
    ASSUME NEW sc, NEW rec, ScrapeOK(sc), DOMAIN rec = Rules, RecordedOK(rec)
    PROVE  /\ Sound(Extend(sc, rec), sc)
           /\ \A r \in Rules : Extend(sc, rec)[r] = rec[r] /\ All(Extend(sc, rec), r) = rec[r]
<1> DEFINE db == Extend(sc, rec)
<1>1. DOMAIN db = DOMAIN sc \cup Rules
  BY DEF Extend
<1>2. \A m \in DOMAIN db : db[m] = IF m \in DOMAIN sc THEN sc[m] ELSE rec[m]
  BY DEF Extend
<1> HIDE DEF db
<1>3. \A r \in Rules : db[r] = rec[r] /\ All(db, r) = rec[r]
  BY <1>1, <1>2 DEF ScrapeOK, All
<1>4. \A m : m \notin Rules => All(db, m) = All(sc, m)
  BY <1>1, <1>2 DEF All
<1>5. RecordedOK(db)
  BY <1>3, SpecialRules DEF RecordedOK
<1> QED
  BY <1>1, <1>3, <1>4, <1>5 DEF Sound, db

(* After one evaluation the rules over scraped metrics are right; after    *)
(* one that began with these being right, all rules are at their values.   *)
LEMMA Evaluation ==
    ASSUME NEW sc, NEW rec, ScrapeOK(sc), DOMAIN rec = Rules, RecordedOK(rec)
    PROVE  /\ Sound(Evaluated(Extend(sc, rec)), sc)
           /\ BaseRight(Evaluated(Extend(sc, rec)), sc)
           /\ BaseRight(rec, sc) => \A r \in Rules : Evaluated(Extend(sc, rec))[r] = Final(sc, r)
<1> DEFINE base == Extend(sc, rec)
<1>1. PICK f : Staged(f, base) /\ Evaluated(base) = f[Length]
  BY Stages
<1>2. f[0] = base /\ Sound(f[0], sc)
  BY <1>1, ExtendFacts DEF Staged
<1>3. \A n \in 1..Length : /\ f[n] = [f[n - 1] EXCEPT ![RuleOrder[n]] = RuleExpr(RuleOrder[n], f[n - 1])]
                            /\ RuleOrder[n] \in Rules
  BY <1>1, EvaluateIs, RulesAre DEF Staged
<1>4. Length \in Nat \ {0}
  BY RuleOrderFacts
<1> DEFINE BadS == {n \in 0..Length : ~Sound(f[n], sc)}
<1>5. \A n \in 0..Length : Sound(f[n], sc)
  <2> SUFFICES ASSUME BadS # {} PROVE FALSE
    OBVIOUS
  <2>0. BadS \subseteq Nat /\ BadS # {}
    BY <1>4
  <2>1. PICK m \in BadS : \A k \in BadS : m <= k
    <3> HIDE DEF BadS
    <3> QED
      BY <2>0, LeastElement
  <2>2. m \in 1..Length /\ m - 1 \in 0..Length
    BY <1>2, <1>4, <2>1
  <2>3. Sound(f[m - 1], sc)
    BY <2>1, <2>2
  <2>4. Sound(f[m], sc)
    <3> DEFINE g == f[m - 1]
               o == RuleOrder[m]
    <3>1. o \in Rules /\ Sound(g, sc) /\ f[m] = [g EXCEPT ![o] = RuleExpr(o, g)]
      BY <1>3, <2>2, <2>3
    <3> HIDE DEF g, o
    <3>2. Sound([g EXCEPT ![o] = RuleExpr(o, g)], sc)
      BY <3>1, SoundStep
    <3> QED
      BY <3>1, <3>2
  <2> QED
    BY <2>1, <2>4
<1>6. ASSUME NEW n \in 1..Length
      PROVE  /\ f[n][RuleOrder[n]] = RuleExpr(RuleOrder[n], f[n - 1])
             /\ \A r \in Rules : r # RuleOrder[n] => f[n][r] = f[n - 1][r]
             /\ n - 1 \in 0..Length /\ Sound(f[n - 1], sc)
  <2>1. n - 1 \in 0..Length
    BY <1>4
  <2>2. Sound(f[n - 1], sc)
    BY <1>5, <2>1
  <2>3. \A r \in Rules : r \in DOMAIN f[n - 1]
    BY <2>2 DEF Sound
  <2>4. RuleOrder[n] \in Rules /\ f[n] = [f[n - 1] EXCEPT ![RuleOrder[n]] = RuleExpr(RuleOrder[n], f[n - 1])]
    BY <1>3
  <2> DEFINE g == f[n - 1]
             o == RuleOrder[n]
             x == RuleExpr(o, g)
  <2>5. f[n] = [g EXCEPT ![o] = x] /\ o \in DOMAIN g
    BY <2>3, <2>4
  <2> HIDE DEF g, o, x
  <2>6. f[n][o] = x /\ \A r \in DOMAIN g : r # o => f[n][r] = g[r]
    BY <2>5
  <2> QED
    BY <2>1, <2>2, <2>3, <2>6 DEF g, o, x
<1> DEFINE B(n) == \A i \in 1..n : RuleOrder[i] \in BaseRules => f[n][RuleOrder[i]] = RuleExpr(RuleOrder[i], sc)
           BadB == {n \in 0..Length : ~B(n)}
<1>7. \A n \in 0..Length : B(n)
  <2> SUFFICES ASSUME BadB # {} PROVE FALSE
    OBVIOUS
  <2>0. BadB \subseteq Nat /\ BadB # {}
    BY <1>4
  <2>1. PICK m \in BadB : \A k \in BadB : m <= k
    <3> HIDE DEF BadB
    <3> QED
      BY <2>0, LeastElement
  <2>2. m \in 1..Length
    BY <1>4, <2>1
  <2>3. B(m - 1) /\ m - 1 \in 0..Length
    BY <1>6, <2>1, <2>2
  <2>4. ASSUME NEW i \in 1..m, RuleOrder[i] \in BaseRules
        PROVE  f[m][RuleOrder[i]] = RuleExpr(RuleOrder[i], sc)
    <3>1. CASE RuleOrder[i] = RuleOrder[m]
      BY <1>6, <2>2, <2>4, <3>1, BaseStep
    <3>2. CASE RuleOrder[i] # RuleOrder[m]
      <4>1. i \in 1..(m - 1) /\ RuleOrder[i] \in Rules
        BY <2>2, <2>4, <3>2, SpecialRules
      <4>2. f[m - 1][RuleOrder[i]] = RuleExpr(RuleOrder[i], sc)
        BY <2>3, <2>4, <4>1
      <4> QED
        BY <1>6, <2>2, <3>2, <4>1, <4>2
    <3> QED
      BY <3>1, <3>2
  <2>5. B(m)
    BY <2>4
  <2> QED
    BY <2>1, <2>5
<1>8. BaseRight(f[Length], sc)
  <2>1. B(Length)
    BY <1>4, <1>7
  <2> QED
    BY <2>1, RulesAre, SpecialRules DEF BaseRight
<1>9. ASSUME BaseRight(rec, sc) PROVE \A r \in Rules : f[Length][r] = Final(sc, r)
  <2> DEFINE C(n) == /\ BaseRight(f[n], sc)
                     /\ \A i \in 1..n : f[n][RuleOrder[i]] = Final(sc, RuleOrder[i])
             BadC == {n \in 0..Length : ~C(n)}
  <2>1. C(0)
    <3>1. BaseRight(f[0], sc)
      BY <1>2, <1>9, ExtendFacts, SpecialRules DEF BaseRight
    <3>2. 1..0 = {}
      OBVIOUS
    <3> QED
      BY <3>1, <3>2
  <2>2. ASSUME NEW m \in 1..Length, C(m - 1) PROVE C(m)
    <3>1. RuleOrder[m] \in Rules
      BY <1>3
    <3>2. RuleOrder[m] = AllocatableAlias => f[m - 1][Allocatable] = Final(sc, Allocatable)
      <4> SUFFICES ASSUME RuleOrder[m] = AllocatableAlias
                   PROVE  f[m - 1][Allocatable] = Final(sc, Allocatable)
        OBVIOUS
      <4>1. RuleOrder[1] = Allocatable /\ Allocatable # AllocatableAlias
        BY RuleOrderFacts DEF Allocatable, AllocatableAlias
      <4>2. 1 \in 1..(m - 1)
        BY <1>4, <4>1
      <4> QED
        BY <2>2, <4>1, <4>2
    <3>3. RuleExpr(RuleOrder[m], f[m - 1]) = Final(sc, RuleOrder[m])
      BY <1>6, <2>2, <3>1, <3>2, FinalStep
    <3>4. BaseRight(f[m], sc)
      BY <1>6, <2>2, <3>3, FinalBase, SpecialRules DEF BaseRight
    <3>5. ASSUME NEW i \in 1..m PROVE f[m][RuleOrder[i]] = Final(sc, RuleOrder[i])
      <4>1. CASE RuleOrder[i] = RuleOrder[m]
        BY <1>6, <3>3, <4>1
      <4>2. CASE RuleOrder[i] # RuleOrder[m]
        <5>1. i \in 1..(m - 1) /\ i \in 1..Length
          BY <1>4, <4>2
        <5>2. RuleOrder[i] \in Rules
          BY <1>3, <5>1
        <5> QED
          BY <1>6, <2>2, <4>2, <5>1, <5>2
      <4> QED
        BY <4>1, <4>2
    <3> QED
      BY <3>4, <3>5
  <2> HIDE DEF C
  <2>3. \A n \in 0..Length : C(n)
    <3> SUFFICES ASSUME BadC # {} PROVE FALSE
      OBVIOUS
    <3>0. BadC \subseteq Nat /\ BadC # {}
      BY <1>4
    <3>1. PICK m \in BadC : \A k \in BadC : m <= k
      <4> HIDE DEF BadC
      <4> QED
        BY <3>0, LeastElement
    <3>2. m \in 1..Length /\ m - 1 \in 0..Length
      BY <1>4, <2>1, <3>1
    <3>3. C(m - 1)
      BY <3>1, <3>2
    <3> QED
      BY <2>2, <3>1, <3>2, <3>3
  <2>4. C(Length)
    BY <1>4, <2>3
  <2> QED
    BY <2>4, RulesAre DEF C
<1>10. Sound(f[Length], sc)
  BY <1>4, <1>5
<1> QED
  BY <1>1, <1>8, <1>9, <1>10

-----------------------------------------------------------------------------
(* The inductive invariant. The cluster has a shape the scrape can be      *)
(* computed from; what is recorded are vectors of integers, without a      *)
(* guest queue; and the number of evaluations since the last change tells  *)
(* how far these have come: after one the rules over scraped metrics have  *)
(* the values of the scrape, after two all rules have, after the third the *)
(* active alerts are those whose expressions hold, and after the fourth    *)
(* they fire.                                                              *)
ClusterInv ==
    /\ ClusterOK(cluster)
    /\ \A kind \in Kinds : \A k \in DOMAIN Objects[kind] : k \in DOMAIN cluster[kind]

ShapeInv ==
    /\ DOMAIN recorded = Rules /\ recorded = [r \in Rules |-> recorded[r]] /\ RecordedOK(recorded)
    /\ DOMAIN active = AlertNames /\ active = [a \in AlertNames |-> active[a]]
    /\ DOMAIN firing = AlertNames /\ firing = [a \in AlertNames |-> firing[a]]

Expressed(db) == [a \in AlertNames |-> {e.labels : e \in AlertExpr(a, db)}]

SettledInv(sc) ==
    /\ calm >= 1 => BaseRight(recorded, sc)
    /\ calm >= 2 => \A r \in Rules : recorded[r] = Final(sc, r)
    /\ calm >= 3 => active = Expressed(Extend(sc, recorded))
    /\ calm >= 4 => firing = active

IInv == TypeOK /\ ClusterInv /\ ShapeInv /\ SettledInv(Scrape)

LEMMA ScrapeIsOK == ClusterOK(cluster) => ScrapeOK(Scrape)
BY ScrapeFacts DEF ScrapeOK

LEMMA InitInv == Init => IInv
<1> SUFFICES ASSUME Init PROVE IInv
  OBVIOUS
<1>1. ClusterInv
  BY AlertingAssumption DEF ClusterInv, Init
<1>2. recorded = [r \in Rules |-> {}]
  BY DEF Init, Rules
<1>3. \A r \in Rules : recorded[r] = {}
  BY <1>2
<1>4. \A r \in Rules : IntVec(recorded[r])
  BY <1>3, FS_EmptySet DEF IntVec
<1>5. RecordedOK(recorded)
  BY <1>3, <1>4, SpecialRules DEF RecordedOK
<1>6. ShapeInv
  BY <1>2, <1>5 DEF ShapeInv, Init
<1>7. TypeOK
  BY <1>3, AlertingAssumption DEF TypeOK, Init, Rules
<1>8. SettledInv(Scrape)
  BY DEF SettledInv, Init
<1> QED
  BY <1>1, <1>6, <1>7, <1>8 DEF IInv

(* A change leaves a cluster of this shape. *)
LEMMA ChangeStep ==
    ASSUME IInv, NEW kind \in Kinds, NEW k \in DOMAIN Objects[kind], Change(kind, k)
    PROVE  IInv'
<1>1. PICK o \in {{}} \cup {{c} : c \in Objects[kind][k]} : cluster' = [cluster EXCEPT ![kind][k] = o]
  BY DEF Change
<1>2. kind \in ClusterKinds /\ k \in DOMAIN cluster[kind]
  BY AlertingAssumption DEF IInv, ClusterInv
<1>3. /\ cluster = [x \in ClusterKinds |-> cluster[x]]
      /\ cluster[kind] = [x \in DOMAIN cluster[kind] |-> cluster[kind][x]]
  BY <1>2 DEF IInv, ClusterInv, ClusterOK
<1>4. /\ DOMAIN cluster' = ClusterKinds
      /\ cluster' = [x \in ClusterKinds |-> cluster'[x]]
      /\ \A x \in ClusterKinds : x # kind => cluster'[x] = cluster[x]
      /\ cluster'[kind] = [cluster[kind] EXCEPT ![k] = o]
  BY <1>1, <1>2, <1>3
<1>5. /\ DOMAIN cluster'[kind] = DOMAIN cluster[kind]
      /\ cluster'[kind] = [x \in DOMAIN cluster[kind] |-> cluster'[kind][x]]
      /\ \A x \in DOMAIN cluster[kind] : cluster'[kind][x] = IF x = k THEN o ELSE cluster[kind][x]
  BY <1>2, <1>3, <1>4
<1>6. \A c \in o : o = {c} /\ WellFormed(kind, k, c)
  BY AlertingAssumption
<1>7. ASSUME NEW x \in ClusterKinds
      PROVE  /\ DOMAIN cluster'[x] = DOMAIN cluster[x]
             /\ cluster'[x] = [y \in DOMAIN cluster'[x] |-> cluster'[x][y]]
             /\ IsFiniteSet(DOMAIN cluster'[x])
             /\ \A y \in DOMAIN cluster'[x] : \A c \in cluster'[x][y] :
                   cluster'[x][y] = {c} /\ WellFormed(x, y, c)
  <2>1. /\ cluster[x] = [y \in DOMAIN cluster[x] |-> cluster[x][y]]
        /\ IsFiniteSet(DOMAIN cluster[x])
        /\ \A y \in DOMAIN cluster[x] : \A c \in cluster[x][y] : cluster[x][y] = {c} /\ WellFormed(x, y, c)
    BY DEF IInv, ClusterInv, ClusterOK
  <2>2. CASE x # kind
    BY <1>4, <2>1, <2>2
  <2>3. CASE x = kind
    <3>1. \A y \in DOMAIN cluster[kind] : \A c \in cluster'[kind][y] :
              cluster'[kind][y] = {c} /\ WellFormed(kind, y, c)
      BY <1>5, <1>6, <2>1, <2>3
    <3> QED
      BY <1>5, <2>1, <2>3, <3>1
  <2> QED
    BY <2>2, <2>3
<1>8. ClusterOK(cluster')
  BY <1>4, <1>7 DEF ClusterOK
<1>9. ClusterInv'
  BY <1>7, <1>8, AlertingAssumption DEF ClusterInv, IInv
<1>10. ASSUME NEW x \in Kinds, NEW y \in DOMAIN Objects[x]
       PROVE  cluster'[x][y] \in {{}} \cup {{c} : c \in Objects[x][y]}
  <2>1. x \in ClusterKinds /\ y \in DOMAIN cluster[x] /\ cluster[x][y] \in {{}} \cup {{c} : c \in Objects[x][y]}
    BY AlertingAssumption DEF IInv, ClusterInv, TypeOK
  <2>2. CASE x # kind
    BY <1>4, <2>1, <2>2
  <2>3. CASE x = kind
    BY <1>5, <2>1, <2>3
  <2> QED
    BY <2>2, <2>3
<1>11. changes' \in 0..MaxChanges /\ calm' = 0 /\ recorded' = recorded /\ active' = active /\ firing' = firing
  BY AlertingAssumption DEF Change, IInv, TypeOK
<1>12. TypeOK'
  BY <1>10, <1>11 DEF IInv, TypeOK
<1>13. ShapeInv'
  BY <1>11 DEF IInv, ShapeInv
<1>14. SettledInv(Scrape)'
  BY <1>11 DEF SettledInv
<1> QED
  BY <1>9, <1>12, <1>13, <1>14 DEF IInv

(* Evaluating the rules brings them one step closer to their values, and   *)
(* leaves them where they are once they have these.                        *)
LEMMA RecordingStep == IInv /\ EvalRecording => IInv'
<1> SUFFICES ASSUME IInv, EvalRecording PROVE IInv'
  OBVIOUS
<1> DEFINE db == Evaluated(Extend(Scrape, recorded))
<1>1. /\ recorded' = [rule \in DOMAIN recorded |-> db[rule]]
      /\ calm' = IF calm < 2 THEN calm + 1 ELSE calm
      /\ UNCHANGED <<cluster, changes, active, firing>>
  BY DEF EvalRecording
<1>2. ScrapeOK(Scrape) /\ DOMAIN recorded = Rules /\ RecordedOK(recorded)
  BY ScrapeIsOK DEF IInv, ClusterInv, ShapeInv
<1>3. /\ Sound(db, Scrape) /\ BaseRight(db, Scrape)
      /\ BaseRight(recorded, Scrape) => \A r \in Rules : db[r] = Final(Scrape, r)
  BY <1>2, Evaluation
<1> HIDE DEF db
<1>4. DOMAIN recorded' = Rules /\ \A r \in Rules : recorded'[r] = db[r]
  BY <1>1, <1>2
<1>5. RecordedOK(recorded')
  BY <1>3, <1>4, SpecialRules DEF Sound, RecordedOK
<1>6. BaseRight(recorded', Scrape)
  BY <1>3, <1>4, SpecialRules DEF BaseRight
<1>7. calm \in 0..4 /\ calm' \in 0..4 /\ (calm' >= 2 => calm >= 1) /\ (calm' >= 3 => calm >= 3 /\ calm' = calm)
  BY <1>1 DEF IInv, TypeOK
<1>8. calm' >= 2 => \A r \in Rules : recorded'[r] = Final(Scrape, r)
  BY <1>3, <1>4, <1>7 DEF IInv, SettledInv
<1>9. calm' >= 3 => recorded' = recorded
  <2> SUFFICES ASSUME calm' >= 3 PROVE recorded' = recorded
    OBVIOUS
  <2>1. \A r \in Rules : recorded'[r] = recorded[r]
    BY <1>7, <1>8 DEF IInv, SettledInv
  <2>2. recorded = [rule \in Rules |-> recorded[rule]]
    BY DEF IInv, ShapeInv
  <2>3. recorded' = [rule \in Rules |-> recorded'[rule]]
    BY <1>1, <1>2
  <2> QED
    BY <2>1, <2>2, <2>3
<1>10. Scrape' = Scrape
  BY <1>1, ScrapeUnchanged
<1>11. SettledInv(Scrape)'
  BY <1>1, <1>6, <1>7, <1>8, <1>9, <1>10 DEF IInv, SettledInv
<1>12. TypeOK'
  BY <1>1, <1>5, <1>7 DEF IInv, TypeOK, RecordedOK, IntVec, Rules
<1>13. ClusterInv' /\ ShapeInv'
  BY <1>1, <1>4, <1>5 DEF IInv, ClusterInv, ShapeInv
<1> QED
  BY <1>11, <1>12, <1>13 DEF IInv

(* Evaluating the alerts twice over the same recorded values makes those   *)
(* fire whose expressions hold.                                            *)
LEMMA AlertsStep == IInv /\ EvalAlerts => IInv'
<1> SUFFICES ASSUME IInv, EvalAlerts PROVE IInv'
  OBVIOUS
<1> DEFINE now == Expressed(Extend(Scrape, recorded))
<1>1. /\ firing' = [a \in AlertNames |-> IF a \in Immediate THEN now[a] ELSE now[a] \cap active[a]]
      /\ active' = now
      /\ calm' = IF calm \in {2, 3} THEN calm + 1 ELSE calm
      /\ UNCHANGED <<cluster, changes, recorded>>
  BY DEF EvalAlerts, Expressed
<1>2. now = [a \in AlertNames |-> now[a]]
  BY DEF Expressed
<1>3. Scrape' = Scrape
  BY <1>1, ScrapeUnchanged
<1>4. calm \in 0..4 /\ calm' \in 0..4 /\ (calm' = 4 => calm >= 3) /\ (calm' >= 1 => calm >= 1)
      /\ (calm' >= 2 => calm >= 2)
  BY <1>1 DEF IInv, TypeOK
<1>5. calm' >= 4 => firing' = active'
  <2> SUFFICES ASSUME calm' >= 4 PROVE firing' = active'
    OBVIOUS
  <2>1. active = now
    BY <1>4 DEF IInv, SettledInv
  <2> HIDE DEF now
  <2> QED
    BY <1>1, <1>2, <2>1
<1>6. active' = Expressed(Extend(Scrape', recorded'))
  BY <1>1, <1>3
<1>7. SettledInv(Scrape)'
  BY <1>1, <1>3, <1>4, <1>5, <1>6 DEF IInv, SettledInv
<1> HIDE DEF now
<1>8. ShapeInv'
  BY <1>1, <1>2 DEF IInv, ShapeInv
<1>9. \A a \in AlertNames : firing'[a] \subseteq active'[a]
  BY <1>1
<1>10. TypeOK'
  BY <1>1, <1>4, <1>9 DEF IInv, TypeOK
<1>11. ClusterInv'
  BY <1>1 DEF IInv, ClusterInv
<1> QED
  BY <1>7, <1>8, <1>10, <1>11 DEF IInv

LEMMA NextInv == IInv /\ [Next]_vars => IInv'
<1> SUFFICES ASSUME IInv, [Next]_vars PROVE IInv'
  OBVIOUS
<1>1. CASE \E kind \in Kinds : \E k \in DOMAIN Objects[kind] : Change(kind, k)
  BY <1>1, ChangeStep
<1>2. CASE EvalRecording
  BY <1>2, RecordingStep
<1>3. CASE EvalAlerts
  BY <1>3, AlertsStep
<1>4. CASE UNCHANGED vars
  <2>1. Scrape' = Scrape
    BY <1>4, ScrapeUnchanged DEF vars
  <2> QED
    BY <1>4, <2>1 DEF IInv, TypeOK, ClusterInv, ShapeInv, SettledInv, vars
<1> QED
  BY <1>1, <1>2, <1>3, <1>4 DEF Next

-----------------------------------------------------------------------------
(* The invariant holds in every reachable state: whatever the cluster and  *)
(* however it changes, the group of recording rules needs two evaluations  *)
(* for its values to follow, and the group of alerts two more.             *)
THEOREM Invariance == Spec => []IInv
BY InitInv, NextInv, PTL DEF Spec

(* Recorded values are integers and an alert fires only where its          *)
(* expression held when it was last evaluated.                             *)
THEOREM TypeCorrect == Spec => []TypeOK
<1>1. IInv => TypeOK
  BY DEF IInv
<1> QED
  BY <1>1, Invariance, PTL

(* Deprecated metrics agree with those that replace them once the group    *)
(* was evaluated twice since the last change, although most come before    *)
(* these in the group.                                                     *)
THEOREM AliasesCorrect == Spec => []AliasesAgree
<1>1. IInv => AliasesAgree
  <2> SUFFICES ASSUME IInv, Settled, NEW d \in DOMAIN Replacement
               PROVE  All(recorded, d) = All(recorded, Replacement[d])
    BY DEF AliasesAgree
  <2>1. \A r \in Rules : recorded[r] = Final(Scrape, r)
    BY DEF IInv, SettledInv, Settled
  <2>2. d \in Aliases /\ d \in Rules
    BY AliasFacts, SpecialRules
  <2>3. Replacement[d] \in BaseRules \cup {Allocatable, QueueLength}
    BY <2>2, AliasFacts
  <2>4. Replacement[d] \in Rules /\ Replacement[d] \notin Aliases
    BY <2>3, RuleKindsApart, SpecialRules
  <2>5. Final(Scrape, d) = Final(Scrape, Replacement[d])
    BY <2>2, <2>4 DEF Final
  <2> QED
    BY <2>1, <2>2, <2>4, <2>5 DEF IInv, ShapeInv, All
<1> QED
  BY <1>1, Invariance, PTL

-----------------------------------------------------------------------------
(* What a scrape has under each metric. *)
PodMetrics == {"kube_pod_info", "kube_pod_status_phase", "kube_pod_status_ready"}
NodeMetrics == {"kube_node_status_allocatable", "kube_node_spec_unschedulable", "kube_node_labels",
                "kube_node_role"}
WorkloadMetrics == {"kube_deployment_spec_replicas", "kube_daemonset_status_number_ready",
                    "kube_daemonset_status_desired_number_scheduled"}
ComponentMetrics == {"up", "kubevirt_rest_client_requests_total", "kubevirt_virt_controller_ready_status",
                     "kubevirt_virt_operator_ready_status", "kubevirt_virt_operator_leading_status"}
ConfigMetrics == {"kubevirt_configuration_emulation_enabled"}
InfoMetrics == {"kubevirt_vm_info", "kubevirt_vmi_info", "kubevirt_vmi_non_evictable"}

LEMMA StatisticsMetricsOf ==
    ASSUME ClusterOK(cluster)
    PROVE  \A s \in AllStatistics : s.metric \in StatisticsMetrics
<1>1. ASSUME NEW k \in Existing("statistics"), NEW s \in StatisticsSeries(k)
      PROVE  s.metric \in StatisticsMetrics
  <2> DEFINE e == Object("statistics", k)
             report == Report(k, e, Value(buildRuntimeLabels(e.vmi)))
             samples == VMStatsSamples(report)
             g == [t \in ToSet(samples) |->
                      Series(t.metric, Scraped(k, Extend([node |-> t.labels.base.node],
                                                         Extend(t.labels.base.runtime, t.labels.own))),
                             t.value[1])]
  <2>0. StatisticsSeries(k) = {g[t] : t \in ToSet(samples)}
    BY DEF StatisticsSeries
  <2>1. PICK t \in ToSet(samples) : s.metric = t.metric
    <3>1. \A t \in ToSet(samples) : g[t].metric = t.metric
      BY SeriesFacts
    <3> HIDE DEF g, samples
    <3> QED
      BY <1>1, <2>0, <3>1
  <2>2. StatsOK(report.stats)
    BY ObjectFacts DEF ClusterKinds, WellFormed, Report
  <2> HIDE DEF report
  <2>3. Stat(samples, StatisticsMetrics, report.base)
    BY <2>2, StatisticsStat
  <2> QED
    BY <2>1, <2>3 DEF Stat
<1> QED
  BY <1>1 DEF AllStatistics

LEMMA GroupMetrics ==
    /\ \A s \in AllPods : s.metric \in PodMetrics
    /\ \A s \in AllNodes : s.metric \in NodeMetrics
    /\ \A s \in WorkloadSeries : s.metric \in WorkloadMetrics
    /\ \A s \in AllComponents : s.metric \in ComponentMetrics
    /\ \A s \in AllConfig : s.metric \in ConfigMetrics
    /\ \A s \in AllVMs \cup AllVMIs : s.metric \in InfoMetrics
<1>1. \A k : \A s \in PodSeries(k) : s.metric \in PodMetrics
  BY SeriesFacts DEF PodSeries, PodMetrics
<1>2. \A k : \A s \in NodeSeries(k) : s.metric \in NodeMetrics
  BY SeriesFacts DEF NodeSeries, NodeMetrics
<1>3. \A s \in WorkloadSeries : s.metric \in WorkloadMetrics
  <2> DEFINE H == [namespace |-> KubeVirtNamespace, daemonset |-> "virt-handler"]
             f == [app \in Existing("replicas") |->
                      Series("kube_deployment_spec_replicas", [namespace |-> KubeVirtNamespace, deployment |-> app],
                             Object("replicas", app))]
             x == Cardinality({k \in ComponentPods("virt-handler") : Object("pods", k).ready})
             a == Series("kube_daemonset_status_number_ready", H, x)
             b == Series("kube_daemonset_status_desired_number_scheduled", H, Cardinality(Existing("nodes")))
  <2>1. WorkloadSeries = {f[app] : app \in Existing("replicas")} \cup {a, b}
    BY DEF WorkloadSeries
  <2>2. \A app \in Existing("replicas") : f[app].metric \in WorkloadMetrics
    BY SeriesFacts DEF WorkloadMetrics
  <2>3. a.metric \in WorkloadMetrics /\ b.metric \in WorkloadMetrics
    BY SeriesFacts DEF WorkloadMetrics
  <2> HIDE DEF f, a, b
  <2> QED
    BY <2>1, <2>2, <2>3
<1>4. \A app, k : \A s \in ComponentSeries(app, k) : s.metric \in ComponentMetrics
  BY SeriesFacts DEF ComponentSeries, ComponentMetrics
<1>5. \A s \in AllConfig : s.metric \in ConfigMetrics
  BY SeriesFacts DEF AllConfig, ConfigMetrics
<1>6. \A k : \A s \in VMSeries(k) \cup VMISeries(k) : s.metric \in InfoMetrics
  BY SeriesFacts DEF VMSeries, VMISeries, InfoMetrics
<1> QED
  BY <1>1, <1>2, <1>3, <1>4, <1>5, <1>6 DEF AllPods, AllNodes, AllComponents, AllVMs, AllVMIs

LEMMA MetricsApart ==
    /\ \A m \in PodMetrics : m \notin NodeMetrics \cup WorkloadMetrics \cup ComponentMetrics \cup ConfigMetrics
                                       \cup InfoMetrics
    /\ \A m \in NodeMetrics : m \notin WorkloadMetrics \cup ComponentMetrics \cup ConfigMetrics \cup InfoMetrics
    /\ \A m \in WorkloadMetrics : m \notin ComponentMetrics \cup ConfigMetrics \cup InfoMetrics
    /\ \A m \in ComponentMetrics : m \notin ConfigMetrics \cup InfoMetrics
    /\ \A m \in ConfigMetrics : m \notin InfoMetrics
BY DEF PodMetrics, NodeMetrics, WorkloadMetrics, ComponentMetrics, ConfigMetrics, InfoMetrics

OwnMetrics == PodMetrics \cup NodeMetrics \cup WorkloadMetrics \cup ComponentMetrics \cup ConfigMetrics \cup InfoMetrics

LEMMA StatisticsApart == \A m \in StatisticsMetrics : m \notin OwnMetrics
<1>1. \A m \in StatisticsMetrics : m \notin PodMetrics \cup NodeMetrics \cup WorkloadMetrics
  BY DEF PodMetrics, NodeMetrics, WorkloadMetrics, StatisticsMetrics, CPUNames, LoadNames, MemoryNames,
         VCPUNames, NetworkNames, BlockNames, GuestNames
<1>2. \A m \in StatisticsMetrics : m \notin ComponentMetrics \cup ConfigMetrics \cup InfoMetrics
  BY DEF ComponentMetrics, ConfigMetrics, InfoMetrics, StatisticsMetrics, CPUNames, LoadNames, MemoryNames,
         VCPUNames, NetworkNames, BlockNames, GuestNames
<1> QED
  BY <1>1, <1>2 DEF OwnMetrics

Under(S, m, e) == \E s \in S : s.metric = m /\ s.element = e

LEMMA Sources ==
    ASSUME ClusterOK(cluster)
    PROVE  /\ \A m \in PodMetrics : \A e : e \in All(Scrape, m) <=> Under(AllPods, m, e)
           /\ \A m \in NodeMetrics : \A e : e \in All(Scrape, m) <=> Under(AllNodes, m, e)
           /\ \A m \in WorkloadMetrics : \A e : e \in All(Scrape, m) <=> Under(WorkloadSeries, m, e)
           /\ \A m \in ComponentMetrics : \A e : e \in All(Scrape, m) <=> Under(AllComponents, m, e)
           /\ \A m \in ConfigMetrics : \A e : e \in All(Scrape, m) <=> Under(AllConfig, m, e)
           /\ \A m \in InfoMetrics : \A e : e \in All(Scrape, m) <=> Under(AllVMs \cup AllVMIs, m, e)
<1>1. \A m, e : e \in All(Scrape, m) <=> Under(AllSeries, m, e)
  <2> DEFINE S == AllSeries
  <2>1. Scrape = Database(S)
    BY ScrapeIs
  <2> HIDE DEF S
  <2>2. \A m : All(Database(S), m) = {s.element : s \in {t \in S : t.metric = m}}
    BY DatabaseFacts
  <2>3. \A m, e : e \in All(Scrape, m) <=> Under(S, m, e)
    BY <2>1, <2>2 DEF Under
  <2> QED
    BY <2>3 DEF S
<1>2. \A m \in OwnMetrics : \A s \in AllStatistics : s.metric # m
  BY StatisticsMetricsOf, StatisticsApart
<1>3. \A m \in OwnMetrics : \A e :
          e \in All(Scrape, m) <=> Under(AllPods \cup AllNodes \cup WorkloadSeries \cup AllComponents
                                           \cup AllConfig \cup AllVMs \cup AllVMIs, m, e)
  BY <1>1, <1>2 DEF Under, AllSeries
<1> QED
  BY <1>3, GroupMetrics, MetricsApart DEF Under, OwnMetrics

(* The labels of series, one from the other. *)
PodLabels(k) == [namespace |-> k[1], pod |-> k[2]]
PhaseLabels(k) == [namespace |-> k[1], pod |-> k[2], phase |-> "Running"]
ReadyLabels(k) == [namespace |-> k[1], pod |-> k[2], condition |-> "true"]
CodeLabels(k, code) == [namespace |-> k[1], pod |-> k[2], code |-> code]

LEMMA PodSamples ==
    ASSUME ClusterOK(cluster)
    PROVE  /\ \A e : e \in All(Scrape, "kube_pod_status_phase") <=>
                  \E k \in Existing("pods") : e = Element(PhaseLabels(k), Bit(Object("pods", k).running))
           /\ \A e : e \in All(Scrape, "kube_pod_status_ready") <=>
                  \E k \in Existing("pods") : e = Element(ReadyLabels(k), Bit(Object("pods", k).ready))
           /\ \A e : e \in All(Scrape, "kube_pod_info") <=>
                  \E k \in Existing("pods") :
                      e = Element(NonEmpty([namespace |-> k[1], pod |-> k[2], node |-> Object("pods", k).node]), 1)
<1> DEFINE In(k, m, e) == \E s \in PodSeries(k) : s.metric = m /\ s.element = e
           Listed(m, e) == \E k \in Existing("pods") : In(k, m, e)
<1>1. \A m, e : Under(AllPods, m, e) <=> Listed(m, e)
  BY DEF Under, AllPods
<1>2. ASSUME NEW k, NEW e
      PROVE  /\ In(k, "kube_pod_status_phase", e) <=> e = Element(PhaseLabels(k), Bit(Object("pods", k).running))
             /\ In(k, "kube_pod_status_ready", e) <=> e = Element(ReadyLabels(k), Bit(Object("pods", k).ready))
             /\ In(k, "kube_pod_info", e) <=>
                    e = Element(NonEmpty([namespace |-> k[1], pod |-> k[2], node |-> Object("pods", k).node]), 1)
  BY SeriesFacts DEF PodSeries, PhaseLabels, ReadyLabels
<1>3. \A m \in PodMetrics : \A e : e \in All(Scrape, m) <=> Listed(m, e)
  BY <1>1, Sources
<1> HIDE DEF In
<1>4. \A e : e \in All(Scrape, "kube_pod_status_phase") <=> Listed("kube_pod_status_phase", e)
  BY <1>3 DEF PodMetrics
<1>5. \A e : e \in All(Scrape, "kube_pod_status_ready") <=> Listed("kube_pod_status_ready", e)
  BY <1>3 DEF PodMetrics
<1>6. \A e : e \in All(Scrape, "kube_pod_info") <=> Listed("kube_pod_info", e)
  BY <1>3 DEF PodMetrics
<1>7. \A e : e \in All(Scrape, "kube_pod_status_phase") <=>
          \E k \in Existing("pods") : e = Element(PhaseLabels(k), Bit(Object("pods", k).running))
  BY <1>2, <1>4
<1>8. \A e : e \in All(Scrape, "kube_pod_status_ready") <=>
          \E k \in Existing("pods") : e = Element(ReadyLabels(k), Bit(Object("pods", k).ready))
  BY <1>2, <1>5
<1>9. \A e : e \in All(Scrape, "kube_pod_info") <=>
          \E k \in Existing("pods") :
              e = Element(NonEmpty([namespace |-> k[1], pod |-> k[2], node |-> Object("pods", k).node]), 1)
  BY <1>2, <1>6
<1> QED
  BY <1>7, <1>8, <1>9

LEMMA ComponentSamples ==
    ASSUME ClusterOK(cluster)
    PROVE  /\ \A e : e \in All(Scrape, "up") <=>
                  \E app \in Components : \E k \in ComponentPods(app) :
                      e = Element(PodLabels(k), Bit(Object("pods", k).up))
           /\ \A e : e \in All(Scrape, "kubevirt_rest_client_requests_total") <=>
                  \E app \in Components : \E k \in ComponentPods(app) :
                      /\ Object("pods", k).up
                      /\ \/ e = Element(CodeLabels(k, "5xx"), Object("pods", k).failing)
                         \/ e = Element(CodeLabels(k, "2xx"), 100 - Object("pods", k).failing)
           /\ \A e : e \in All(Scrape, "kubevirt_virt_controller_ready_status") <=>
                  \E k \in ComponentPods("virt-controller") :
                      Object("pods", k).up /\ e = Element(PodLabels(k), Bit(Object("pods", k).ready))
           /\ \A e : e \in All(Scrape, "kubevirt_virt_operator_ready_status") <=>
                  \E k \in ComponentPods("virt-operator") :
                      Object("pods", k).up /\ e = Element(PodLabels(k), Bit(Object("pods", k).ready))
           /\ \A e : e \in All(Scrape, "kubevirt_virt_operator_leading_status") <=>
                  \E k \in ComponentPods("virt-operator") :
                      Object("pods", k).up /\ e = Element(PodLabels(k), Bit(Object("pods", k).leading))
<1> DEFINE In(app, k, m, e) == \E s \in ComponentSeries(app, k) : s.metric = m /\ s.element = e
           Listed(m, e) == \E app \in Components : \E k \in ComponentPods(app) : In(app, k, m, e)
<1>1. \A m, e : Under(AllComponents, m, e) <=> Listed(m, e)
  BY DEF Under, AllComponents
<1>2. \A m \in ComponentMetrics : \A e : e \in All(Scrape, m) <=> Listed(m, e)
  BY <1>1, Sources
<1>3. ASSUME NEW app, NEW k, NEW e
      PROVE  /\ In(app, k, "up", e) <=> e = Element(PodLabels(k), Bit(Object("pods", k).up))
             /\ In(app, k, "kubevirt_rest_client_requests_total", e) <=>
                    /\ Object("pods", k).up
                    /\ \/ e = Element(CodeLabels(k, "5xx"), Object("pods", k).failing)
                       \/ e = Element(CodeLabels(k, "2xx"), 100 - Object("pods", k).failing)
             /\ In(app, k, "kubevirt_virt_controller_ready_status", e) <=>
                    app = "virt-controller" /\ Object("pods", k).up
                        /\ e = Element(PodLabels(k), Bit(Object("pods", k).ready))
             /\ In(app, k, "kubevirt_virt_operator_ready_status", e) <=>
                    app = "virt-operator" /\ Object("pods", k).up
                        /\ e = Element(PodLabels(k), Bit(Object("pods", k).ready))
             /\ In(app, k, "kubevirt_virt_operator_leading_status", e) <=>
                    app = "virt-operator" /\ Object("pods", k).up
                        /\ e = Element(PodLabels(k), Bit(Object("pods", k).leading))
  <2> DEFINE o == Object("pods", k)
             a == Series("up", PodLabels(k), Bit(o.up))
             b == Series("kubevirt_rest_client_requests_total", CodeLabels(k, "5xx"), o.failing)
             c == Series("kubevirt_rest_client_requests_total", CodeLabels(k, "2xx"), 100 - o.failing)
             d == Series("kubevirt_virt_controller_ready_status", PodLabels(k), Bit(o.ready))
             f == Series("kubevirt_virt_operator_ready_status", PodLabels(k), Bit(o.ready))
             g == Series("kubevirt_virt_operator_leading_status", PodLabels(k), Bit(o.leading))
  <2>1. \A s : s \in ComponentSeries(app, k) <=>
            \/ s = a
            \/ o.up /\ s = b
            \/ o.up /\ s = c
            \/ o.up /\ app = "virt-controller" /\ s = d
            \/ o.up /\ app = "virt-operator" /\ s = f
            \/ o.up /\ app = "virt-operator" /\ s = g
    BY DEF ComponentSeries, PodLabels, CodeLabels
  <2>2. /\ a.metric = "up" /\ a.element = Element(PodLabels(k), Bit(o.up))
        /\ b.metric = "kubevirt_rest_client_requests_total"
        /\ b.element = Element(CodeLabels(k, "5xx"), o.failing)
        /\ c.metric = "kubevirt_rest_client_requests_total"
        /\ c.element = Element(CodeLabels(k, "2xx"), 100 - o.failing)
        /\ d.metric = "kubevirt_virt_controller_ready_status"
        /\ d.element = Element(PodLabels(k), Bit(o.ready))
        /\ f.metric = "kubevirt_virt_operator_ready_status"
        /\ f.element = Element(PodLabels(k), Bit(o.ready))
        /\ g.metric = "kubevirt_virt_operator_leading_status"
        /\ g.element = Element(PodLabels(k), Bit(o.leading))
    BY SeriesFacts
  <2> HIDE DEF a, b, c, d, f, g, o
  <2>3. /\ In(app, k, "up", e) <=> a.element = e
        /\ In(app, k, "kubevirt_rest_client_requests_total", e) <=> o.up /\ (b.element = e \/ c.element = e)
        /\ In(app, k, "kubevirt_virt_controller_ready_status", e) <=>
               app = "virt-controller" /\ o.up /\ d.element = e
    BY <2>1, <2>2
  <2>4. /\ In(app, k, "kubevirt_virt_operator_ready_status", e) <=>
               app = "virt-operator" /\ o.up /\ f.element = e
        /\ In(app, k, "kubevirt_virt_operator_leading_status", e) <=>
               app = "virt-operator" /\ o.up /\ g.element = e
    BY <2>1, <2>2
  <2> QED
    BY <2>2, <2>3, <2>4 DEF o
<1>4. "virt-controller" \in Components /\ "virt-operator" \in Components
  BY DEF Components
<1> HIDE DEF In
<1>5. \A e : e \in All(Scrape, "up") <=> Listed("up", e)
  BY <1>2 DEF ComponentMetrics
<1>6. \A e : e \in All(Scrape, "kubevirt_rest_client_requests_total")
                <=> Listed("kubevirt_rest_client_requests_total", e)
  BY <1>2 DEF ComponentMetrics
<1>7. \A e : e \in All(Scrape, "kubevirt_virt_controller_ready_status")
                <=> Listed("kubevirt_virt_controller_ready_status", e)
  BY <1>2 DEF ComponentMetrics
<1>8. \A e : e \in All(Scrape, "kubevirt_virt_operator_ready_status")
                <=> Listed("kubevirt_virt_operator_ready_status", e)
  BY <1>2 DEF ComponentMetrics
<1>9. \A e : e \in All(Scrape, "kubevirt_virt_operator_leading_status")
                <=> Listed("kubevirt_virt_operator_leading_status", e)
  BY <1>2 DEF ComponentMetrics
<1>10. \A e : e \in All(Scrape, "up") <=>
           \E app \in Components : \E k \in ComponentPods(app) :
               e = Element(PodLabels(k), Bit(Object("pods", k).up))
  BY <1>3, <1>5
<1>11. \A e : e \in All(Scrape, "kubevirt_rest_client_requests_total") <=>
           \E app \in Components : \E k \in ComponentPods(app) :
               /\ Object("pods", k).up
               /\ \/ e = Element(CodeLabels(k, "5xx"), Object("pods", k).failing)
                  \/ e = Element(CodeLabels(k, "2xx"), 100 - Object("pods", k).failing)
  BY <1>3, <1>6
<1>12. \A e : e \in All(Scrape, "kubevirt_virt_controller_ready_status") <=>
           \E k \in ComponentPods("virt-controller") :
               Object("pods", k).up /\ e = Element(PodLabels(k), Bit(Object("pods", k).ready))
  BY <1>3, <1>4, <1>7
<1>13. \A e : e \in All(Scrape, "kubevirt_virt_operator_ready_status") <=>
           \E k \in ComponentPods("virt-operator") :
               Object("pods", k).up /\ e = Element(PodLabels(k), Bit(Object("pods", k).ready))
  BY <1>3, <1>4, <1>8
<1>14. \A e : e \in All(Scrape, "kubevirt_virt_operator_leading_status") <=>
           \E k \in ComponentPods("virt-operator") :
               Object("pods", k).up /\ e = Element(PodLabels(k), Bit(Object("pods", k).leading))
  BY <1>3, <1>4, <1>9
<1> QED
  BY <1>10, <1>11, <1>12, <1>13, <1>14

LEMMA ReplicaSamples ==
    ASSUME ClusterOK(cluster)
    PROVE  \A e : e \in All(Scrape, "kube_deployment_spec_replicas") <=>
               \E app \in Existing("replicas") :
                   e = Element([namespace |-> KubeVirtNamespace, deployment |-> app], Object("replicas", app))
<1> DEFINE m == "kube_deployment_spec_replicas"
           H == [namespace |-> KubeVirtNamespace, daemonset |-> "virt-handler"]
           f == [app \in Existing("replicas") |->
                    Series("kube_deployment_spec_replicas", [namespace |-> KubeVirtNamespace, deployment |-> app],
                           Object("replicas", app))]
           x == Cardinality({k \in ComponentPods("virt-handler") : Object("pods", k).ready})
           a == Series("kube_daemonset_status_number_ready", H, x)
           b == Series("kube_daemonset_status_desired_number_scheduled", H, Cardinality(Existing("nodes")))
<1>1. WorkloadSeries = {f[app] : app \in Existing("replicas")} \cup {a, b}
  BY DEF WorkloadSeries
<1>2. \A app \in Existing("replicas") :
          /\ f[app].metric = m
          /\ f[app].element = Element([namespace |-> KubeVirtNamespace, deployment |-> app], Object("replicas", app))
  BY SeriesFacts
<1>3. a.metric # m /\ b.metric # m
  BY SeriesFacts
<1>4. m \in WorkloadMetrics
  BY DEF WorkloadMetrics
<1> HIDE DEF f, a, b, m
<1>5. \A e : Under(WorkloadSeries, m, e) <=> \E app \in Existing("replicas") : f[app].element = e
  BY <1>1, <1>2, <1>3 DEF Under
<1>6. \A e : e \in All(Scrape, m) <=> \E app \in Existing("replicas") : f[app].element = e
  BY <1>4, <1>5, Sources
<1> QED
  BY <1>2, <1>6 DEF m

-----------------------------------------------------------------------------
(* Sums and counts over all elements of a vector. *)
LEMMA OneGroup ==
    ASSUME NEW v
    PROVE  /\ \A g : g \in Parts(v, {}) <=> v # {} /\ g = NoLabels
           /\ Part(v, {}, NoLabels) = v
<1>1. \A e : On(e, {}) = NoLabels
  BY DEF On, NoLabels
<1> QED
  BY <1>1 DEF Parts, Part

LEMMA SumAllIs ==
    ASSUME NEW v
    PROVE  SumAll(v) = IF v = {} THEN {} ELSE {Element(NoLabels, Total(v))}
BY SumByIs, OneGroup DEF SumAll

LEMMA CountAllIs ==
    ASSUME NEW v
    PROVE  CountAll(v) = IF v = {} THEN {} ELSE {Element(NoLabels, Cardinality(v))}
BY CountByIs, OneGroup DEF CountAll

LEMMA OrZeroIs ==
    /\ OrZero({}) = {Element(NoLabels, 0)}
    /\ \A n : OrZero({Element(NoLabels, n)}) = {Element(NoLabels, n)}
BY ElementFacts DEF OrZero, Or, vector

LEMMA UpOfIs ==
    ASSUME NEW v, IntVec(v)
    PROVE  UpOf(v) = {Element(NoLabels, Total(v))}
<1>1. Total({}) = 0
  BY TotalFacts
<1> QED
  BY <1>1, SumAllIs, OrZeroIs DEF UpOf

LEMMA CountOrZero ==
    ASSUME NEW v
    PROVE  OrZero(CountAll(v)) = {Element(NoLabels, Cardinality(v))}
<1>1. Cardinality({}) = 0
  BY FS_EmptySet
<1> QED
  BY <1>1, CountAllIs, OrZeroIs

(* A vector with one element for each member of a set. *)
Each(f, S) ==
    /\ IsFiniteSet(S) /\ DOMAIN f = S
    /\ \A x, y \in S : f[x] = f[y] => x = y
VectorOf(f, T) == {f[x] : x \in T}

LEMMA EachSubset ==
    ASSUME NEW S, NEW f, Each(f, S)
    PROVE  \A T \in SUBSET S : /\ IsFiniteSet(T) /\ Cardinality(T) \in Nat
                               /\ Each([x \in T |-> f[x]], T)
BY FS_Subset, FS_CardinalityType DEF Each

LEMMA CountEach ==
    ASSUME NEW S, NEW f, Each(f, S)
    PROVE  IsFiniteSet(VectorOf(f, S)) /\ Cardinality(VectorOf(f, S)) = Cardinality(S)
<1> DEFINE V == {f[x] : x \in S}
           g == [x \in S |-> f[x]]
<1>1. g \in Surjection(S, V) /\ g \in Injection(S, V) /\ IsFiniteSet(S)
  BY DEF Surjection, Injection, IsInjective, Each
<1> HIDE DEF g, V
<1>2. IsFiniteSet(V) /\ Cardinality(V) = Cardinality(S)
  BY <1>1, FS_Surjection
<1> QED
  BY <1>2 DEF V, VectorOf

(* Induction over the subsets of a finite set, G being those for which a   *)
(* statement holds.                                                        *)
LEMMA SubsetInduction ==
    ASSUME NEW S, IsFiniteSet(S), NEW G, {} \in G,
           \A T \in SUBSET S : \A x \in T : T \ {x} \in G => T \in G
    PROVE  S \in G
<1> DEFINE Bad == {T \in SUBSET S : T \notin G}
           N == {Cardinality(T) : T \in Bad}
<1>1. \A T \in SUBSET S : IsFiniteSet(T) /\ Cardinality(T) \in Nat
  BY FS_Subset, FS_CardinalityType
<1> SUFFICES ASSUME Bad # {} PROVE FALSE
  OBVIOUS
<1>2. N \subseteq Nat /\ N # {}
  BY <1>1
<1>3. PICK m \in N : \A k \in N : m <= k
  BY <1>2, LeastElement
<1>4. PICK T \in Bad : Cardinality(T) = m /\ \A U \in Bad : Cardinality(T) <= Cardinality(U)
  BY <1>3
<1>5. PICK x \in T : TRUE
  BY <1>4
<1>6. T \ {x} \in SUBSET S /\ Cardinality(T \ {x}) = Cardinality(T) - 1 /\ Cardinality(T) \in Nat
  BY <1>1, FS_RemoveElement
<1>7. T \ {x} \in G
  BY <1>1, <1>4, <1>6
<1> QED
  BY <1>4, <1>7

LEMMA EachVec ==
    ASSUME NEW S, NEW f, Each(f, S), \A x \in S : f[x].value \in Int
    PROVE  \A T \in SUBSET S : IntVec(VectorOf(f, T))
<1> SUFFICES ASSUME NEW T \in SUBSET S PROVE IntVec(VectorOf(f, T))
  OBVIOUS
<1>1. IsFiniteSet(T) /\ T \subseteq DOMAIN f
  BY EachSubset DEF Each
<1>2. IsFiniteSet(VectorOf(f, T))
  BY <1>1, FiniteImage DEF VectorOf
<1> QED
  BY <1>2 DEF IntVec, VectorOf

LEMMA TotalRemove ==
    ASSUME NEW S, NEW f, Each(f, S), \A x \in S : f[x].value \in Int, NEW T \in SUBSET S, NEW x \in T
    PROVE  /\ Total(VectorOf(f, T)) = f[x].value + Total(VectorOf(f, T \ {x}))
           /\ Total(VectorOf(f, T)) \in Int /\ Total(VectorOf(f, T \ {x})) \in Int
<1> DEFINE V == VectorOf(f, T)
           W == VectorOf(f, T \ {x})
<1>1. IntVec(V) /\ IntVec(W)
  <2>1. T \ {x} \in SUBSET S
    OBVIOUS
  <2> QED
    BY <2>1, EachVec
<1>2. V \ {f[x]} = W /\ f[x] \in V
  BY DEF Each, VectorOf
<1> HIDE DEF V, W
<1>3. Total(V) = f[x].value + Total(V \ {f[x]})
  BY <1>1, <1>2, TotalFacts
<1>4. Total(V) \in Int /\ Total(W) \in Int
  BY <1>1, TotalFacts
<1>5. Total(V) = f[x].value + Total(W)
  BY <1>2, <1>3
<1> QED
  BY <1>4, <1>5 DEF V, W

LEMMA TotalOfNothing == Total({}) = 0
<1>1. IntVec({})
  BY FS_EmptySet DEF IntVec
<1> QED
  BY <1>1, TotalFacts

LEMMA TotalOnes ==
    ASSUME NEW S, NEW f, Each(f, S), \A x \in S : f[x].value \in {0, 1}
    PROVE  Total(VectorOf(f, S)) = Cardinality({x \in S : f[x].value = 1})
<1> DEFINE V(T) == VectorOf(f, T)
           One(T) == {x \in T : f[x].value = 1}
           G == {T \in SUBSET S : Total(V(T)) = Cardinality(One(T))}
<1>1. {} \in G
  <2>1. V({}) = {} /\ One({}) = {}
    BY DEF VectorOf
  <2> QED
    BY <2>1, TotalOfNothing, FS_EmptySet
<1>2. ASSUME NEW T \in SUBSET S, NEW x \in T, T \ {x} \in G
      PROVE  T \in G
  <2> DEFINE U == T \ {x}
  <2>0. \A y \in S : f[y].value \in Int
    OBVIOUS
  <2>1. Total(V(T)) = f[x].value + Total(V(U))
    BY <2>0, TotalRemove
  <2>2. Total(V(U)) = Cardinality(One(U))
    BY <1>2
  <2>3. One(U) \in SUBSET S
    OBVIOUS
  <2>4. IsFiniteSet(One(U)) /\ Cardinality(One(U)) \in Nat
    BY <2>3, EachSubset
  <2>5. CASE f[x].value = 1
    <3>1. One(T) = One(U) \cup {x} /\ x \notin One(U)
      BY <2>5
    <3> HIDE DEF V, One
    <3>2. Cardinality(One(T)) = Cardinality(One(U)) + 1
      BY <2>4, <3>1, FS_AddElement
    <3>3. Total(V(T)) = Cardinality(One(T))
      BY <2>1, <2>2, <2>4, <2>5, <3>2
    <3> QED
      BY <3>3
  <2>6. CASE f[x].value = 0
    <3>1. One(T) = One(U)
      BY <2>6
    <3> HIDE DEF V, One
    <3>2. Total(V(T)) = Cardinality(One(T))
      BY <2>1, <2>2, <2>4, <2>6, <3>1
    <3> QED
      BY <3>2
  <2> QED
    BY <2>5, <2>6
<1> HIDE DEF G
<1>3. S \in G
  BY <1>1, <1>2, SubsetInduction DEF Each
<1> QED
  BY <1>3 DEF G

(* The failed requests of pods. *)
Failing(k) == Object("pods", k).failing
Failures(S) == MapThenSumSet(LAMBDA k : Object("pods", k).failing, S)

LEMMA FailuresFacts ==
    ASSUME NEW S, IsFiniteSet(S), \A k \in S : Failing(k) \in Int
    PROVE  /\ Failures({}) = 0
           /\ \A x \in S : Failures(S) = Failing(x) + Failures(S \ {x})
<1> DEFINE w == [k \in S |-> Object("pods", k).failing]
           Rec(g, U) == g = [s \in SUBSET U |-> IF s = {} THEN 0
                                                ELSE Object("pods", CHOOSE x \in s : TRUE).failing
                                                       + g[s \ {CHOOSE x \in s : TRUE}]]
           G(U) == CHOOSE g : Rec(g, U)
<1>1. \A U : Failures(U) = G(U)[U]
  BY DEF Failures, MapThenSumSet, MapThenFoldSet
<1>2. \A U \in SUBSET S : \A g : Rec(g, U) <=> IsSum(g, w, U)
  <2> SUFFICES ASSUME NEW U \in SUBSET S, NEW g PROVE Rec(g, U) <=> IsSum(g, w, U)
    OBVIOUS
  <2>1. \A s \in SUBSET U : s # {} => w[Chosen(s)] = Object("pods", CHOOSE x \in s : TRUE).failing
    BY DEF Chosen
  <2>2. [s \in SUBSET U |-> IF s = {} THEN 0 ELSE Object("pods", CHOOSE x \in s : TRUE).failing
                                                    + g[s \ {CHOOSE x \in s : TRUE}]]
        = [s \in SUBSET U |-> IF s = {} THEN 0 ELSE w[Chosen(s)] + g[s \ {Chosen(s)}]]
    BY <2>1 DEF Chosen
  <2> QED
    BY <2>2 DEF IsSum
<1>3. \A U \in SUBSET S : IsSum(G(U), w, U)
  <2> SUFFICES ASSUME NEW U \in SUBSET S PROVE IsSum(G(U), w, U)
    OBVIOUS
  <2>1. \E g : IsSum(g, w, U)
    BY FS_Subset, SumExists
  <2> HIDE DEF Rec, w
  <2>2. \E g : Rec(g, U)
    BY <1>2, <2>1
  <2>3. Rec(G(U), U)
    BY <2>2
  <2> QED
    BY <1>2, <2>3
<1>4. \A k \in S : w[k] \in Int /\ w[k] = Failing(k)
  BY DEF Failing
<1> HIDE DEF w, G
<1>5. G(S)[S] \in Int /\ \A x \in S : G(S)[S] = w[x] + G(S)[S \ {x}]
  <2> DEFINE gs == G(S)
  <2>1. IsSum(gs, w, S) /\ S \in SUBSET S
    BY <1>3
  <2>2. \A k \in S : w[k] \in Int
    BY <1>4
  <2> HIDE DEF gs, Rec
  <2>3. PICK h : h = gs
    OBVIOUS
  <2>4. PICK z : z = w
    OBVIOUS
  <2>5. IsSum(h, z, S) /\ (\A k \in S : z[k] \in Int) /\ IsFiniteSet(S)
    BY <2>1, <2>2, <2>3, <2>4
  <2>6. \A U \in SUBSET S : h[U] \in Int /\ \A x \in U : h[U] = z[x] + h[U \ {x}]
    BY ONLY <2>5, SumRemove
  <2> QED
    BY <2>1, <2>3, <2>4, <2>6 DEF gs
<1>6. \A x \in S : G(S)[S \ {x}] = G(S \ {x})[S \ {x}]
  <2> SUFFICES ASSUME NEW x \in S PROVE G(S)[S \ {x}] = G(S \ {x})[S \ {x}]
    OBVIOUS
  <2>1. IsFiniteSet(S \ {x})
    BY FS_RemoveElement
  <2>2. IsSum(G(S), w, S) /\ IsSum(G(S \ {x}), w, S \ {x})
    BY <1>3
  <2> QED
    BY <2>1, <2>2, SumUnique
<1>7. G({})[{}] = 0
  <2>1. IsSum(G({}), w, {})
    BY <1>3
  <2> QED
    BY <2>1 DEF IsSum
<1> QED
  BY <1>1, <1>4, <1>5, <1>6, <1>7

LEMMA TotalFailures ==
    ASSUME NEW S, NEW f, Each(f, S), \A x \in S : f[x].value = Failing(x) /\ Failing(x) \in Int
    PROVE  Total(VectorOf(f, S)) = Failures(S)
<1> DEFINE V(T) == VectorOf(f, T)
           G == {T \in SUBSET S : Total(V(T)) = Failures(T)}
<1>1. {} \in G
  <2>1. V({}) = {}
    BY DEF VectorOf
  <2>2. Failures({}) = 0
    BY FS_EmptySet, FailuresFacts
  <2> QED
    BY <2>1, <2>2, TotalOfNothing
<1>2. ASSUME NEW T \in SUBSET S, NEW x \in T, T \ {x} \in G
      PROVE  T \in G
  <2>1. \A y \in S : f[y].value \in Int
    OBVIOUS
  <2>2. Total(V(T)) = f[x].value + Total(V(T \ {x}))
    BY <2>1, TotalRemove
  <2>3. IsFiniteSet(T) /\ \A k \in T : Failing(k) \in Int
    BY EachSubset
  <2>4. Failures(T) = Failing(x) + Failures(T \ {x})
    BY <2>3, FailuresFacts
  <2>5. Total(V(T \ {x})) = Failures(T \ {x}) /\ f[x].value = Failing(x)
    BY <1>2
  <2> HIDE DEF V
  <2> QED
    BY <2>2, <2>4, <2>5
<1> HIDE DEF G
<1>3. S \in G
  BY <1>1, <1>2, SubsetInduction DEF Each
<1> QED
  BY <1>3 DEF G

(* Each pod has made a hundred requests. *)
Hundred(f, g, S) ==
    /\ \A x \in S : f[x].value \in Int /\ g[x].value \in Int /\ f[x].value + g[x].value = 100
    /\ \A x, y \in S : f[x] # g[y]

LEMMA TotalRequests ==
    ASSUME NEW S, NEW f, NEW g, Each(f, S), Each(g, S), Hundred(f, g, S)
    PROVE  Total(VectorOf(f, S) \cup VectorOf(g, S)) = 100 * Cardinality(S)
<1> DEFINE V(T) == VectorOf(f, T) \cup VectorOf(g, T)
           G == {T \in SUBSET S : Total(V(T)) = 100 * Cardinality(T)}
<1>1. {} \in G
  <2>1. V({}) = {}
    BY DEF VectorOf
  <2>2. Cardinality({}) = 0
    BY FS_EmptySet
  <2>3. Total(V({})) = 100 * Cardinality({})
    BY <2>1, <2>2, TotalOfNothing
  <2> HIDE DEF V
  <2> QED
    BY <2>3
<1>2. ASSUME NEW T \in SUBSET S, NEW x \in T, T \ {x} \in G
      PROVE  T \in G
  <2>1. /\ IntVec(VectorOf(f, T)) /\ IntVec(VectorOf(g, T))
        /\ IntVec(VectorOf(f, T \ {x})) /\ IntVec(VectorOf(g, T \ {x}))
    <3>1. (\A y \in S : f[y].value \in Int) /\ (\A y \in S : g[y].value \in Int) /\ T \ {x} \in SUBSET S
      BY DEF Hundred
    <3>2. (\A U \in SUBSET S : IntVec(VectorOf(f, U))) /\ (\A U \in SUBSET S : IntVec(VectorOf(g, U)))
      BY <3>1, EachVec
    <3> QED
      BY <3>1, <3>2
  <2>2. IntVec(V(T)) /\ IntVec(V(T \ {x}))
    BY <2>1, VecUnion
  <2>4. (V(T) \ {f[x]}) \ {g[x]} = V(T \ {x})
    BY DEF Each, VectorOf, Hundred
  <2>5. f[x] \in V(T) /\ g[x] \in V(T) \ {f[x]}
    BY DEF VectorOf, Hundred
  <2> DEFINE W == V(T) \ {f[x]}
  <2>6. IntVec(W)
    <3>1. W \subseteq V(T)
      OBVIOUS
    <3> HIDE DEF W, V
    <3> QED
      BY <2>2, <3>1, VecSubset
  <2>7. Total(V(T \ {x})) = 100 * Cardinality(T \ {x})
    BY <1>2
  <2>8. f[x].value \in Int /\ g[x].value \in Int /\ f[x].value + g[x].value = 100
    BY DEF Hundred
  <2> HIDE DEF V
  <2>9. Total(V(T)) = f[x].value + Total(V(T) \ {f[x]})
    BY <2>2, <2>5, TotalFacts
  <2>10. Total(V(T) \ {f[x]}) = g[x].value + Total(V(T \ {x}))
    <3>1. W \ {g[x]} = V(T \ {x}) /\ g[x] \in W
      BY <2>4, <2>5
    <3> HIDE DEF W
    <3>2. Total(W) = g[x].value + Total(W \ {g[x]})
      BY <2>6, <3>1, TotalFacts
    <3> QED
      BY <3>1, <3>2 DEF W
  <2>11. Total(V(T \ {x})) \in Int
    BY <2>2, TotalFacts
  <2>12. IsFiniteSet(T) /\ Cardinality(T) \in Nat /\ Cardinality(T \ {x}) = Cardinality(T) - 1
    <3>1. IsFiniteSet(T) /\ Cardinality(T) \in Nat
      BY EachSubset
    <3> QED
      BY <3>1, FS_RemoveElement
  <2>13. Total(V(T)) = 100 + 100 * (Cardinality(T) - 1)
    BY <2>7, <2>8, <2>9, <2>10, <2>11, <2>12
  <2>14. Total(V(T)) = 100 * Cardinality(T)
    BY <2>12, <2>13
  <2> QED
    BY <2>14
<1> HIDE DEF G
<1>3. S \in G
  BY <1>1, <1>2, SubsetInduction DEF Each
<1> QED
  BY <1>3 DEF G

-----------------------------------------------------------------------------
(* The vectors that the rules on components select, pod by pod. *)
LEMMA PodSets ==
    ASSUME NEW app
    PROVE  /\ \A k \in Watched(app) : k \in PodsIn(app) /\ k[1] = Namespace
           /\ \A k : k \in Seen(app) <=> k \in Watched(app) /\ k \in ComponentPods(app)
           /\ \A k \in ComponentPods(app) : k \in Existing("pods") /\ k[1] = KubeVirtNamespace
           /\ \A a, k : k \in ComponentPods(a) /\ k \in Watched(app) => k \in Seen(app)
           /\ UpPods(app) = {k \in Seen(app) : Object("pods", k).up}
           /\ RunningPods(app) = {k \in Watched(app) : Object("pods", k).running}
           /\ ReadyPods(app) = {k \in Seen(app) : Object("pods", k).up /\ Object("pods", k).ready}
BY DEF UpPods, RunningPods, ReadyPods, Seen, Watched, ComponentPods, PodsIn

LEMMA PodFacts ==
    ASSUME ClusterOK(cluster), NEW app
    PROVE  /\ IsFiniteSet(PodsIn(app)) /\ IsFiniteSet(Watched(app)) /\ IsFiniteSet(Seen(app))
           /\ \A k \in PodsIn(app) :
                 /\ k \in Existing("pods") /\ k[2] \in PodsOf[app]
                 /\ Object("pods", k).up \in BOOLEAN /\ Object("pods", k).running \in BOOLEAN
                 /\ Object("pods", k).ready \in BOOLEAN /\ Object("pods", k).leading \in BOOLEAN
                 /\ Object("pods", k).ready => Object("pods", k).running
                 /\ Object("pods", k).failing \in 0..100
           /\ \A k \in Existing("pods") : k[1] = Namespace /\ k[2] \in PodsOf[app] => k \in Watched(app)
           /\ \A j, k \in Watched(app) : j[2] = k[2] => j = k
<1>1. "pods" \in ClusterKinds
  BY DEF ClusterKinds
<1>2. \A k \in PodsIn(app) : k \in Existing("pods") /\ k[2] \in PodsOf[app]
  BY DEF PodsIn
<1>3. IsFiniteSet(PodsIn(app)) /\ IsFiniteSet(Watched(app)) /\ IsFiniteSet(Seen(app))
  <2>1. PodsIn(app) \subseteq Existing("pods")
    BY <1>2
  <2>2. IsFiniteSet(PodsIn(app))
    BY <1>1, <2>1, ExistingFinite, FS_Subset
  <2>3. Watched(app) \subseteq PodsIn(app) /\ Seen(app) \subseteq PodsIn(app)
    BY PodSets
  <2> QED
    BY <2>2, <2>3, FS_Subset
<1>4. \A k \in PodsIn(app) : WellFormed("pods", k, Object("pods", k))
  BY <1>1, <1>2, ObjectFacts
<1>5. \A k \in PodsIn(app) :
          /\ k = <<k[1], k[2]>>
          /\ Object("pods", k).up \in BOOLEAN /\ Object("pods", k).running \in BOOLEAN
          /\ Object("pods", k).ready \in BOOLEAN /\ Object("pods", k).leading \in BOOLEAN
          /\ Object("pods", k).ready => Object("pods", k).running
          /\ Object("pods", k).failing \in 0..100
  BY <1>4 DEF WellFormed
<1>6. \A k \in Existing("pods") : k[1] = Namespace /\ k[2] \in PodsOf[app] => k \in Watched(app)
  BY DEF Watched, PodsIn
<1>7. \A j, k \in Watched(app) : j[2] = k[2] => j = k
  <2> SUFFICES ASSUME NEW j \in Watched(app), NEW k \in Watched(app), j[2] = k[2] PROVE j = k
    OBVIOUS
  <2>1. j[1] = k[1]
    BY PodSets
  <2>2. j = <<j[1], j[2]>> /\ k = <<k[1], k[2]>>
    BY <1>5, PodSets
  <2> QED
    BY <2>1, <2>2
<1> QED
  BY <1>2, <1>3, <1>5, <1>6, <1>7

(* Labels l are those of a series of the pod k. *)
OfPod(l, k) == "namespace" \in DOMAIN l /\ "pod" \in DOMAIN l /\ l["namespace"] = k[1] /\ l["pod"] = k[2]

LEMMA LabelFacts ==
    \A k : /\ OfPod(PodLabels(k), k) /\ OfPod(PhaseLabels(k), k) /\ OfPod(ReadyLabels(k), k)
           /\ \A c : OfPod(CodeLabels(k, c), k)
BY DEF OfPod, PodLabels, PhaseLabels, ReadyLabels, CodeLabels

LEMMA OfOnePod == \A l, j, k : OfPod(l, j) /\ OfPod(l, k) => j[2] = k[2]
BY DEF OfPod

LEMMA OfComponent ==
    ASSUME ClusterOK(cluster), NEW app, NEW k \in Existing("pods"), NEW l, OfPod(l, k)
    PROVE  k \in Watched(app) <=>
               /\ "namespace" \in DOMAIN l /\ l["namespace"] = Namespace
               /\ "pod" \in DOMAIN l /\ l["pod"] \in PodsOf[app]
BY PodFacts, PodSets DEF OfPod

LEMMA BitIs == \A b \in BOOLEAN : (Bit(b) = 1 <=> b) /\ Bit(b) \in {0, 1}
BY DEF Bit

LEMMA UpIs ==
    ASSUME ClusterOK(cluster), NEW app \in Components
    PROVE  UpOf(UpOfApp(Scrape, app)) = {Element(NoLabels, Cardinality(UpPods(app)))}
<1> DEFINE S == Seen(app)
           f == [k \in S |-> Element(PodLabels(k), Bit(Object("pods", k).up))]
<1>1. \A e : e \in UpOfApp(Scrape, app) <=>
          /\ e \in All(Scrape, "up")
          /\ "namespace" \in DOMAIN e.labels /\ e.labels["namespace"] = Namespace
          /\ "pod" \in DOMAIN e.labels /\ e.labels["pod"] \in PodsOf[app]
  BY DEF UpOfApp, Select, Pods
<1>2. \A e : e \in All(Scrape, "up") <=>
          \E a \in Components : \E k \in ComponentPods(a) : e = Element(PodLabels(k), Bit(Object("pods", k).up))
  BY ComponentSamples
<1>3. \A a : \A k \in ComponentPods(a) : k \in Existing("pods")
  BY PodSets
<1>3a. \A k \in S : k \in ComponentPods(app) /\ k \in Watched(app) /\ k \in PodsIn(app)
  BY PodSets
<1>4. \A e : e \in UpOfApp(Scrape, app) <=> \E k \in S : e = f[k]
  <2>1. \A k : Element(PodLabels(k), Bit(Object("pods", k).up)).labels = PodLabels(k)
    BY ElementFacts
  <2>2. ASSUME NEW e \in UpOfApp(Scrape, app) PROVE \E k \in S : e = f[k]
    <3>1. PICK a \in Components :
              \E k \in ComponentPods(a) : e = Element(PodLabels(k), Bit(Object("pods", k).up))
      BY <1>1, <1>2
    <3>1a. PICK k \in ComponentPods(a) : e = Element(PodLabels(k), Bit(Object("pods", k).up))
      BY <3>1
    <3>2. k \in Watched(app)
      BY <1>1, <1>3, <2>1, <3>1a, OfComponent, LabelFacts
    <3>2a. k \in S
      BY <3>2, PodSets
    <3> QED
      BY <3>1a, <3>2a
  <2>3. ASSUME NEW k \in S PROVE f[k] \in UpOfApp(Scrape, app)
    <3>1. f[k] = Element(PodLabels(k), Bit(Object("pods", k).up))
      OBVIOUS
    <3>2. f[k] \in All(Scrape, "up")
      BY <1>2, <1>3a, <3>1
    <3>3. k \in Existing("pods") /\ k \in Watched(app) /\ OfPod(f[k].labels, k)
      BY <1>3, <1>3a, <2>1, <3>1, LabelFacts
    <3> HIDE DEF f
    <3> QED
      BY <1>1, <3>2, <3>3, OfComponent
  <2> HIDE DEF f, S
  <2> QED
    BY <2>2, <2>3
<1>5. \A k \in S : f[k].labels = PodLabels(k) /\ f[k].value = Bit(Object("pods", k).up)
  BY ElementFacts
<1>6. \A k \in S : f[k].value \in {0, 1} /\ (f[k].value = 1 <=> Object("pods", k).up)
  BY <1>3a, <1>5, BitIs, PodFacts
<1>7. DOMAIN f = S
  OBVIOUS
<1> HIDE DEF f
<1>8. Each(f, S)
  <2>1. IsFiniteSet(S) /\ \A j, k \in S : j[2] = k[2] => j = k
    BY <1>3a, PodFacts
  <2> HIDE DEF S
  <2>2. \A j, k \in S : f[j] = f[k] => j = k
    BY <1>5, <2>1, LabelFacts, OfOnePod
  <2> QED
    BY <1>7, <2>1, <2>2 DEF Each
<1>9. UpOfApp(Scrape, app) = VectorOf(f, S)
  BY <1>4 DEF VectorOf
<1>10. UpPods(app) = {k \in S : f[k].value = 1}
  BY <1>6, PodSets
<1> HIDE DEF S
<1>11. Total(VectorOf(f, S)) = Cardinality({k \in S : f[k].value = 1})
  BY <1>6, <1>8, TotalOnes
<1>12. IntVec(VectorOf(f, S))
  <2>1. \A k \in S : f[k].value \in Int
    BY <1>6
  <2>2. S \in SUBSET S
    OBVIOUS
  <2> QED
    BY <1>8, <2>1, <2>2, EachVec
<1> QED
  BY <1>9, <1>10, <1>11, <1>12, UpOfIs

LEMMA RunningIs ==
    ASSUME ClusterOK(cluster), NEW app
    PROVE  RunningOf(PhaseOfApp(Scrape, app)) = {Element(NoLabels, Cardinality(RunningPods(app)))}
<1> DEFINE S == RunningPods(app)
           f == [k \in S |-> Element(PhaseLabels(k), 1)]
           V == Where(PhaseOfApp(Scrape, app), LAMBDA n : n = 1)
<1>1. \A e : e \in V <=>
          /\ e \in All(Scrape, "kube_pod_status_phase") /\ e.value = 1
          /\ "phase" \in DOMAIN e.labels /\ e.labels["phase"] = "Running"
          /\ "namespace" \in DOMAIN e.labels /\ e.labels["namespace"] = Namespace
          /\ "pod" \in DOMAIN e.labels /\ e.labels["pod"] \in PodsOf[app]
  BY DEF PhaseOfApp, Select, Where
<1>2. \A e : e \in All(Scrape, "kube_pod_status_phase") <=>
          \E k \in Existing("pods") : e = Element(PhaseLabels(k), Bit(Object("pods", k).running))
  BY PodSamples
<1>3. \A k \in S : k \in Watched(app) /\ k \in Existing("pods") /\ Object("pods", k).running
  BY PodSets, PodFacts
<1>4. ASSUME NEW e \in V PROVE \E k \in S : e = f[k]
  <2>1. PICK k \in Existing("pods") : e = Element(PhaseLabels(k), Bit(Object("pods", k).running))
    BY <1>1, <1>2
  <2>2. e.labels = PhaseLabels(k) /\ e.value = Bit(Object("pods", k).running)
    BY <2>1, ElementFacts
  <2>3. k \in Watched(app) /\ k \in PodsIn(app)
    BY <1>1, <2>2, OfComponent, LabelFacts, PodSets
  <2>4. e.value = 1
    BY <1>1
  <2>5. Object("pods", k).running
    BY <2>2, <2>3, <2>4, BitIs, PodFacts
  <2> QED
    BY <2>1, <2>2, <2>3, <2>4, <2>5, PodSets
<1>5. ASSUME NEW k \in S PROVE f[k] \in V
  <2>1. f[k] = Element(PhaseLabels(k), Bit(Object("pods", k).running))
    BY <1>3 DEF Bit
  <2>2. f[k] \in All(Scrape, "kube_pod_status_phase")
    BY <1>2, <1>3, <2>1
  <2>3. f[k].labels = PhaseLabels(k) /\ f[k].value = 1
    BY ElementFacts
  <2>4. "phase" \in DOMAIN PhaseLabels(k) /\ PhaseLabels(k)["phase"] = "Running"
    BY DEF PhaseLabels
  <2> HIDE DEF f, V
  <2> QED
    BY <1>1, <1>3, <2>2, <2>3, <2>4, OfComponent, LabelFacts
<1>6. Each(f, S)
  <2>1. IsFiniteSet(S) /\ \A j, k \in S : j[2] = k[2] => j = k
    <3>1. IsFiniteSet(Watched(app)) /\ S \subseteq Watched(app)
      BY PodFacts, PodSets
    <3>2. \A j, k \in Watched(app) : j[2] = k[2] => j = k
      BY PodFacts
    <3> QED
      BY <3>1, <3>2, FS_Subset
  <2>2. \A k \in S : f[k].labels = PhaseLabels(k)
    BY ElementFacts
  <2>3. DOMAIN f = S
    OBVIOUS
  <2> HIDE DEF S, f
  <2>4. \A j, k \in S : f[j] = f[k] => j = k
    BY <2>1, <2>2, LabelFacts, OfOnePod
  <2> QED
    BY <2>1, <2>3, <2>4 DEF Each
<1> HIDE DEF f, S
<1>7. V = VectorOf(f, S)
  BY <1>4, <1>5 DEF VectorOf
<1>8. RunningOf(PhaseOfApp(Scrape, app)) = OrZero(CountAll(V))
  BY DEF RunningOf
<1> HIDE DEF V
<1>9. OrZero(CountAll(V)) = {Element(NoLabels, Cardinality(V))}
  BY CountOrZero
<1>10. Cardinality(V) = Cardinality(S)
  BY <1>6, <1>7, CountEach
<1> QED
  BY <1>8, <1>9, <1>10 DEF S

(* What ties the readiness of a pod to what the pod says of itself. *)
LEMMA OnPod ==
    ASSUME NEW on, on \in {{"pod"}, {"pod", "namespace"}}, NEW e, NEW f, NEW j, NEW k,
           OfPod(e.labels, j), OfPod(f.labels, k)
    PROVE  /\ On(e, on) = On(f, on) => j[2] = k[2]
           /\ j = k => On(e, on) = On(f, on)
<1>1. On(e, on) = [l \in on |-> e.labels[l]] /\ On(f, on) = [l \in on |-> f.labels[l]]
  BY DEF On, OfPod
<1>2. "pod" \in on
  OBVIOUS
<1>3. On(e, on) = On(f, on) => e.labels["pod"] = f.labels["pod"]
  BY <1>1, <1>2
<1>4. j = k => \A l \in on : e.labels[l] = f.labels[l]
  BY DEF OfPod
<1>5. j = k => On(e, on) = On(f, on)
  BY <1>1, <1>4
<1> QED
  BY <1>3, <1>5 DEF OfPod

LEMMA ReadyOfAppIs ==
    ASSUME ClusterOK(cluster), NEW app
    PROVE  \A e : e \in ReadyOfApp(Scrape, app) <=>
               \E k \in Watched(app) : e = Element(ReadyLabels(k), Bit(Object("pods", k).ready))
<1>1. \A e : e \in ReadyOfApp(Scrape, app) <=>
          /\ e \in All(Scrape, "kube_pod_status_ready")
          /\ "condition" \in DOMAIN e.labels /\ e.labels["condition"] = "true"
          /\ "namespace" \in DOMAIN e.labels /\ e.labels["namespace"] = Namespace
          /\ "pod" \in DOMAIN e.labels /\ e.labels["pod"] \in PodsOf[app]
  BY DEF ReadyOfApp, Select
<1>2. \A e : e \in All(Scrape, "kube_pod_status_ready") <=>
          \E k \in Existing("pods") : e = Element(ReadyLabels(k), Bit(Object("pods", k).ready))
  BY PodSamples
<1>3. \A k : "condition" \in DOMAIN ReadyLabels(k) /\ ReadyLabels(k)["condition"] = "true"
  BY DEF ReadyLabels
<1>4. \A k \in Watched(app) : k \in Existing("pods")
  BY PodFacts, PodSets
<1>5. ASSUME NEW e, NEW k \in Existing("pods"), e = Element(ReadyLabels(k), Bit(Object("pods", k).ready))
      PROVE  e \in ReadyOfApp(Scrape, app) <=> k \in Watched(app)
  <2>1. e.labels = ReadyLabels(k)
    BY <1>5, ElementFacts
  <2>2. e \in All(Scrape, "kube_pod_status_ready")
    BY <1>2, <1>5
  <2> QED
    BY <1>1, <1>3, <2>1, <2>2, OfComponent, LabelFacts
<1> QED
  BY <1>1, <1>2, <1>4, <1>5

LEMMA ReadyValue ==
    ASSUME ClusterOK(cluster), NEW app, NEW w, NEW on, on \in {{"pod"}, {"pod", "namespace"}},
           \A e : e \in w <=>
               \E k \in UpPods(app) : e = Element(PodLabels(k), Bit(Object("pods", k).ready))
    PROVE  ReadyOf(ReadyOfApp(Scrape, app), w, on) = {Element(NoLabels, Cardinality(ReadyPods(app)))}
<1> DEFINE S == Watched(app)
           U == UpPods(app)
           v == ReadyOfApp(Scrape, app)
           r == [k \in S |-> Element(ReadyLabels(k), Bit(Object("pods", k).ready))]
           s == [k \in U |-> Element(PodLabels(k), Bit(Object("pods", k).ready))]
           p == [k \in U |-> Element(On(r[k], on), r[k].value * s[k].value)]
<1>1. /\ \A e : e \in v <=> \E k \in S : e = r[k]
      /\ \A e : e \in w <=> \E k \in U : e = s[k]
  BY ReadyOfAppIs
<1>2. U \subseteq S /\ IsFiniteSet(S) /\ IsFiniteSet(U) /\ \A j, k \in S : j[2] = k[2] => j = k
  <2>1. U \subseteq S
    BY PodSets
  <2>2. IsFiniteSet(S) /\ \A j, k \in S : j[2] = k[2] => j = k
    BY PodFacts
  <2> QED
    BY <2>1, <2>2, FS_Subset
<1>3. /\ \A k \in S : r[k].labels = ReadyLabels(k) /\ r[k].value = Bit(Object("pods", k).ready)
      /\ \A k \in U : s[k].labels = PodLabels(k) /\ s[k].value = Bit(Object("pods", k).ready)
  BY ElementFacts
<1>4. /\ \A k \in S : OfPod(r[k].labels, k)
      /\ \A k \in U : OfPod(s[k].labels, k)
  BY <1>3, LabelFacts
<1>5. /\ \A k \in U : p[k].labels = On(r[k], on) /\ p[k].value = r[k].value * s[k].value
      /\ \A k \in U : p[k] = Element(On(r[k], on), r[k].value * s[k].value)
      /\ DOMAIN p = U
  BY ElementFacts
<1>6. \A k \in U : p[k].value \in {0, 1} /\ (p[k].value = 1 <=> Object("pods", k).ready)
  <2> SUFFICES ASSUME NEW k \in U
               PROVE  p[k].value \in {0, 1} /\ (p[k].value = 1 <=> Object("pods", k).ready)
    OBVIOUS
  <2>1. p[k].value = Bit(Object("pods", k).ready) * Bit(Object("pods", k).ready)
    BY <1>2, <1>3, <1>5
  <2>2. Object("pods", k).ready \in BOOLEAN
    BY <1>2, PodFacts, PodSets
  <2> HIDE DEF p
  <2>3. CASE Object("pods", k).ready
    BY <2>1, <2>3 DEF Bit
  <2>4. CASE ~Object("pods", k).ready
    BY <2>1, <2>4 DEF Bit
  <2> QED
    BY <2>2, <2>3, <2>4
<1>7. \A k \in ReadyPods(app) : k \in U /\ Object("pods", k).ready
  BY PodSets
<1>8. \A k \in U : Object("pods", k).ready => k \in ReadyPods(app)
  BY PodSets
<1> HIDE DEF S, U, v, r, s, p
<1>9. \A j, k \in S : On(r[j], on) = On(r[k], on) => j = k
  BY <1>2, <1>4, OnPod
<1>10. \A j, k \in U : On(s[j], on) = On(s[k], on) => j = k
  BY <1>2, <1>4, OnPod
<1>11. \A j \in S : \A k \in U : On(r[j], on) = On(s[k], on) <=> j = k
  BY <1>2, <1>4, OnPod
<1>12. ~Ambiguous(v, on) /\ ~Ambiguous(w, on)
  BY <1>1, <1>9, <1>10 DEF Ambiguous
<1> DEFINE Joined(a, b) == Element(On(a, on), a.value * b.value)
           pairs == {z \in v \X w : On(z[1], on) = On(z[2], on)}
<1>13. Product(v, w, on) = {Joined(q[1], q[2]) : q \in pairs}
  BY <1>12 DEF Product, BinaryOn, Times_
<1>14. \A q : q \in pairs <=> \E j \in S : \E k \in U : q = <<r[j], s[k]>> /\ On(r[j], on) = On(s[k], on)
  BY <1>1
<1>14a. \A k \in U : p[k] = Joined(r[k], s[k])
  BY <1>5
<1> HIDE DEF Joined, pairs
<1>15. \A e : e \in Product(v, w, on) <=> \E k \in U : e = p[k]
  <2>1. \A q : q \in pairs <=> \E k \in U : q = <<r[k], s[k]>>
    BY <1>2, <1>11, <1>14
  <2>2. \A e : e \in Product(v, w, on) <=> \E q \in pairs : e = Joined(q[1], q[2])
    BY <1>13
  <2>3. ASSUME NEW k \in U PROVE p[k] \in Product(v, w, on)
    <3>1. <<r[k], s[k]>> \in pairs
      BY <2>1
    <3>2. p[k] = Joined(<<r[k], s[k]>>[1], <<r[k], s[k]>>[2])
      BY <1>14a
    <3> QED
      BY <2>2, <3>1, <3>2
  <2>4. ASSUME NEW e \in Product(v, w, on) PROVE \E k \in U : e = p[k]
    <3>1. PICK q \in pairs : e = Joined(q[1], q[2])
      BY <2>2
    <3>2. PICK k \in U : q = <<r[k], s[k]>>
      BY <2>1, <3>1
    <3> QED
      BY <1>14a, <3>1, <3>2
  <2> QED
    BY <2>3, <2>4
<1>16. Product(v, w, on) = VectorOf(p, U)
  BY <1>15 DEF VectorOf
<1>17. Each(p, U)
  BY <1>2, <1>5, <1>9 DEF Each
<1>18. Total(VectorOf(p, U)) = Cardinality({k \in U : p[k].value = 1})
  BY <1>6, <1>17, TotalOnes
<1>19. {k \in U : p[k].value = 1} = ReadyPods(app)
  BY <1>6, <1>7, <1>8
<1>20. IntVec(VectorOf(p, U))
  <2>1. \A k \in U : p[k].value \in Int
    BY <1>6
  <2>2. U \in SUBSET U
    OBVIOUS
  <2> QED
    BY <1>17, <2>1, <2>2, EachVec
<1>21. ReadyOf(v, w, on) = UpOf(Product(v, w, on))
  BY DEF ReadyOf, UpOf
<1> QED
  BY <1>16, <1>18, <1>19, <1>20, <1>21, UpOfIs DEF v

LEMMA StatusIs ==
    ASSUME ClusterOK(cluster)
    PROVE  /\ \A e : e \in StatusIn(Scrape, "kubevirt_virt_controller_ready_status") <=>
                  \E k \in UpPods("virt-controller") : e = Element(PodLabels(k), Bit(Object("pods", k).ready))
           /\ \A e : e \in StatusIn(Scrape, "kubevirt_virt_operator_ready_status") <=>
                  \E k \in UpPods("virt-operator") : e = Element(PodLabels(k), Bit(Object("pods", k).ready))
           /\ \A e : e \in StatusIn(Scrape, "kubevirt_virt_operator_leading_status") <=>
                  \E k \in UpPods("virt-operator") : e = Element(PodLabels(k), Bit(Object("pods", k).leading))
<1>1. \A m, e : e \in StatusIn(Scrape, m) <=>
          e \in All(Scrape, m) /\ "namespace" \in DOMAIN e.labels /\ e.labels["namespace"] = Namespace
  BY DEF StatusIn, Select
<1>2. \A app, k : k \in UpPods(app) <=>
          k \in ComponentPods(app) /\ Object("pods", k).up /\ k[1] = Namespace
  BY DEF UpPods, Seen, Watched, ComponentPods, PodsIn
<1>3. \A k, n : /\ "namespace" \in DOMAIN Element(PodLabels(k), n).labels
                /\ Element(PodLabels(k), n).labels["namespace"] = k[1]
  <2>1. \A k, n : Element(PodLabels(k), n).labels = PodLabels(k)
    BY ElementFacts
  <2>2. \A k : "namespace" \in DOMAIN PodLabels(k) /\ PodLabels(k)["namespace"] = k[1]
    BY DEF PodLabels
  <2> QED
    BY <2>1, <2>2
<1>4. \A e : e \in StatusIn(Scrape, "kubevirt_virt_controller_ready_status") <=>
          \E k \in UpPods("virt-controller") : e = Element(PodLabels(k), Bit(Object("pods", k).ready))
  BY <1>1, <1>2, <1>3, ComponentSamples
<1>5. \A e : e \in StatusIn(Scrape, "kubevirt_virt_operator_ready_status") <=>
          \E k \in UpPods("virt-operator") : e = Element(PodLabels(k), Bit(Object("pods", k).ready))
  BY <1>1, <1>2, <1>3, ComponentSamples
<1>6. \A e : e \in StatusIn(Scrape, "kubevirt_virt_operator_leading_status") <=>
          \E k \in UpPods("virt-operator") : e = Element(PodLabels(k), Bit(Object("pods", k).leading))
  BY <1>1, <1>2, <1>3, ComponentSamples
<1> QED
  BY <1>4, <1>5, <1>6

LEMMA ReadyIs ==
    ASSUME ClusterOK(cluster)
    PROVE  /\ RuleExpr("cluster:kubevirt_virt_controller_ready:sum", Scrape)
                = {Element(NoLabels, Cardinality(ReadyPods("virt-controller")))}
           /\ RuleExpr("cluster:kubevirt_virt_operator_ready:sum", Scrape)
                = {Element(NoLabels, Cardinality(ReadyPods("virt-operator")))}
<1>1. ReadyOf(ReadyOfApp(Scrape, "virt-controller"), StatusIn(Scrape, "kubevirt_virt_controller_ready_status"),
              {"pod", "namespace"}) = {Element(NoLabels, Cardinality(ReadyPods("virt-controller")))}
  BY StatusIs, ReadyValue
<1>2. ReadyOf(ReadyOfApp(Scrape, "virt-operator"), StatusIn(Scrape, "kubevirt_virt_operator_ready_status"),
              {"pod"}) = {Element(NoLabels, Cardinality(ReadyPods("virt-operator")))}
  BY StatusIs, ReadyValue
<1> QED
  BY <1>1, <1>2, ComponentRules

(* No operator that answers, no value: an alert on a missing leader must   *)
(* not fire on top of the one on missing operators.                        *)
LeadingPods == {k \in UpPods("virt-operator") : Object("pods", k).leading}

LEMMA LeadingIs ==
    ASSUME ClusterOK(cluster)
    PROVE  RuleExpr("cluster:kubevirt_virt_operator_leading:sum", Scrape)
               = IF UpPods("virt-operator") = {} THEN {} ELSE {Element(NoLabels, Cardinality(LeadingPods))}
<1> DEFINE U == UpPods("virt-operator")
           v == StatusIn(Scrape, "kubevirt_virt_operator_leading_status")
           f == [k \in U |-> Element(PodLabels(k), Bit(Object("pods", k).leading))]
<1>1. \A e : e \in v <=> \E k \in U : e = f[k]
  BY StatusIs
<1>2. IsFiniteSet(U) /\ (\A j, k \in U : j[2] = k[2] => j = k)
  <2>1. U \subseteq Watched("virt-operator")
    BY PodSets
  <2>2. /\ IsFiniteSet(Watched("virt-operator"))
        /\ \A j, k \in Watched("virt-operator") : j[2] = k[2] => j = k
    BY PodFacts
  <2> QED
    BY <2>1, <2>2, FS_Subset
<1>3. \A k \in U : f[k].labels = PodLabels(k) /\ f[k].value = Bit(Object("pods", k).leading)
  BY ElementFacts
<1>4. \A k \in U : f[k].value \in {0, 1} /\ (f[k].value = 1 <=> Object("pods", k).leading)
  <2>1. \A k \in U : Object("pods", k).leading \in BOOLEAN
    BY PodSets, PodFacts
  <2> QED
    BY <1>3, <2>1, BitIs
<1>5. LeadingPods = {k \in U : f[k].value = 1}
  BY <1>4 DEF LeadingPods
<1>6. DOMAIN f = U
  OBVIOUS
<1> HIDE DEF U, v, f
<1>7. \A j, k \in U : f[j] = f[k] => j = k
  BY <1>2, <1>3, LabelFacts, OfOnePod
<1>8. Each(f, U)
  BY <1>2, <1>6, <1>7 DEF Each
<1>9. v = VectorOf(f, U)
  BY <1>1 DEF VectorOf
<1>10. v = {} <=> U = {}
  BY <1>9 DEF VectorOf
<1>11. Total(v) = Cardinality(LeadingPods)
  BY <1>4, <1>5, <1>8, <1>9, TotalOnes
<1>12. SumAll(v) = IF v = {} THEN {} ELSE {Element(NoLabels, Total(v))}
  BY SumAllIs
<1> QED
  BY <1>10, <1>11, <1>12, ComponentRules DEF v, U

-----------------------------------------------------------------------------
(* Percentages, rounded down, against a limit. *)
LEMMA Monotone == \A a, b, d \in Nat : a <= b => a * d <= b * d
<1> SUFFICES ASSUME NEW a \in Nat, NEW b \in Nat, NEW d \in Nat, a <= b PROVE a * d <= b * d
  OBVIOUS
<1>1. PICK c \in Nat : b = a + c
  <2>1. b - a \in Nat /\ b = a + (b - a)
    OBVIOUS
  <2> QED
    BY <2>1
<1>2. c * d >= 0
  OBVIOUS
<1>3. b * d = a * d + c * d
  BY <1>1
<1> QED
  BY <1>2, <1>3

LEMMA QuotientBelow ==
    ASSUME NEW x \in Nat, NEW d \in Nat, d > 0, NEW c \in Nat
    PROVE  (x \div d) \in Nat /\ ((x \div d) < c <=> x < c * d)
<1> DEFINE q == x \div d
<1>1. q \in Nat /\ q * d <= x /\ x < q * d + d
  OBVIOUS
<1> HIDE DEF q
<1>2. CASE q < c
  <2>1. (q + 1) * d <= c * d
    BY <1>1, <1>2, Monotone
  <2>2. (q + 1) * d = q * d + d
    BY <1>1
  <2> QED
    BY <1>1, <1>2, <2>1, <2>2 DEF q
<1>3. CASE ~(q < c)
  <2>1. c * d <= q * d
    BY <1>1, <1>3, Monotone
  <2> QED
    BY <1>1, <1>3, <2>1 DEF q
<1> QED
  BY <1>2, <1>3

(* Two vectors of one element each, whatever its labels. *)
LEMMA PercentIs ==
    ASSUME NEW a, NEW b
    PROVE  PercentOn({a}, {b}, {}) = IF b.value = 0 THEN {}
                                     ELSE {Element(NoLabels, (100 * a.value) \div b.value)}
<1>1. \A e : On(e, {}) = NoLabels
  BY DEF On, NoLabels
<1> DEFINE v == {a}
           w == {b}
           z == Where(w, LAMBDA n : n # 0)
           pairs == {q \in v \X z : On(q[1], {}) = On(q[2], {})}
           Ratio(q) == Element(On(q[1], {}), (100 * q[1].value) \div q[2].value)
<1>2. z = IF b.value = 0 THEN {} ELSE {b}
  BY DEF Where
<1>3. ~Ambiguous(v, {}) /\ ~Ambiguous(z, {})
  BY <1>2 DEF Ambiguous
<1>4. PercentOn(v, w, {}) = {Ratio(q) : q \in pairs}
  BY <1>3 DEF PercentOn, BinaryOn
<1>5. pairs = IF b.value = 0 THEN {} ELSE {<<a, b>>}
  <2> HIDE DEF z
  <2>1. \A q : q \in pairs <=> \E e \in v : \E f \in z : q = <<e, f>>
    BY <1>1
  <2> HIDE DEF pairs
  <2>2. CASE b.value = 0
    BY <1>2, <2>1, <2>2
  <2>3. CASE b.value # 0
    BY <1>2, <2>1, <2>3
  <2> QED
    BY <2>2, <2>3
<1>6. Ratio(<<a, b>>) = Element(NoLabels, (100 * a.value) \div b.value)
  BY <1>1
<1> HIDE DEF Ratio, pairs
<1> QED
  BY <1>4, <1>5, <1>6

LEMMA PercentOfNothing ==
    ASSUME NEW v, NEW w, v = {} \/ w = {}
    PROVE  PercentOn(v, w, {}) = {}
<1> DEFINE z == Where(w, LAMBDA n : n # 0)
           pairs == {q \in v \X z : On(q[1], {}) = On(q[2], {})}
           Ratio(q) == Element(On(q[1], {}), (100 * q[1].value) \div q[2].value)
<1>1. PercentOn(v, w, {}) = IF Ambiguous(v, {}) \/ Ambiguous(z, {}) THEN {} ELSE {Ratio(q) : q \in pairs}
  BY DEF PercentOn, BinaryOn
<1>2. pairs = {}
  BY DEF Where
<1> HIDE DEF Ratio, pairs
<1> QED
  BY <1>1, <1>2

LEMMA LowCountIs ==
    ASSUME ClusterOK(cluster), NEW db, NEW app, NEW up, NEW n \in Nat, All(db, up) = {Element(NoLabels, n)},
           All(db, "kube_deployment_spec_replicas") = All(Scrape, "kube_deployment_spec_replicas")
    PROVE  LowCount(db, app, up) # {} <=>
               Beside /\ \E r \in Existing("replicas") \cap {app} : 4 * n < 3 * Object("replicas", r)
<1> DEFINE R == Object("replicas", app)
           b == Element([namespace |-> KubeVirtNamespace, deployment |-> app], R)
           v == All(db, up)
           w == Select(db, "kube_deployment_spec_replicas",
                       [deployment |-> {app}, namespace |-> {Namespace}])
           P == PercentOn(v, w, {})
<1>1. \A e : e \in w <=>
          /\ e \in All(Scrape, "kube_deployment_spec_replicas")
          /\ "deployment" \in DOMAIN e.labels /\ e.labels["deployment"] = app
          /\ "namespace" \in DOMAIN e.labels /\ e.labels["namespace"] = Namespace
  BY DEF Select
<1>2. \A r : /\ DOMAIN [namespace |-> KubeVirtNamespace, deployment |-> r] = {"namespace", "deployment"}
             /\ [namespace |-> KubeVirtNamespace, deployment |-> r]["namespace"] = KubeVirtNamespace
             /\ [namespace |-> KubeVirtNamespace, deployment |-> r]["deployment"] = r
  OBVIOUS
<1>3. \A e : e \in w <=> Beside /\ app \in Existing("replicas") /\ e = b
  <2> DEFINE L(r) == [namespace |-> KubeVirtNamespace, deployment |-> r]
  <2>1. \A e : e \in All(Scrape, "kube_deployment_spec_replicas") <=>
            \E r \in Existing("replicas") : e = Element(L(r), Object("replicas", r))
    BY ReplicaSamples
  <2>2. \A r, x : Element(L(r), x).labels = L(r)
    BY ElementFacts
  <2>3. \A r : /\ "deployment" \in DOMAIN L(r) /\ L(r)["deployment"] = r
               /\ "namespace" \in DOMAIN L(r) /\ L(r)["namespace"] = KubeVirtNamespace
    BY <1>2
  <2>4. b = Element(L(app), Object("replicas", app))
    OBVIOUS
  <2> HIDE DEF L, w, b
  <2> QED
    BY <1>1, <2>1, <2>2, <2>3, <2>4 DEF Beside
<1>4. LowCount(db, app, up) = Where(P, LAMBDA x : x < 75)
  BY DEF LowCount
<1>5. b.value = R
  BY ElementFacts
<1> HIDE DEF w, b
<1>6. CASE ~(Beside /\ app \in Existing("replicas"))
  <2>1. w = {}
    BY <1>3, <1>6
  <2>2. P = {}
    BY <2>1, PercentOfNothing
  <2> QED
    BY <1>4, <1>6, <2>2 DEF Where
<1>7. CASE Beside /\ app \in Existing("replicas")
  <2>1. w = {b}
    BY <1>3, <1>7
  <2>2. R \in Nat
    <3>1. WellFormed("replicas", app, R)
      BY <1>7, ObjectFacts DEF ClusterKinds
    <3> QED
      BY <3>1 DEF WellFormed
  <2> DEFINE a == Element(NoLabels, n)
  <2>3. v = {a} /\ a.value = n
    BY ElementFacts
  <2> HIDE DEF a, v, R
  <2>4. P = IF R = 0 THEN {} ELSE {Element(NoLabels, (100 * n) \div R)}
    <3>1. PercentOn(v, w, {}) = IF b.value = 0 THEN {} ELSE {Element(NoLabels, (100 * a.value) \div b.value)}
      BY <2>1, <2>3, PercentIs
    <3>2. a.value = n /\ b.value = R
      BY <1>5, <2>3
    <3> QED
      BY <3>1, <3>2
  <2>5. LowCount(db, app, up) # {} <=> 4 * n < 3 * R
    <3>1. CASE R = 0
      <4>1. LowCount(db, app, up) = {}
        BY <1>4, <2>4, <3>1 DEF Where
      <4> QED
        BY <3>1, <4>1
    <3>2. CASE R # 0
      <4> DEFINE q == (100 * n) \div R
      <4>1. q < 75 <=> 100 * n < 75 * R
        <5>1. 100 * n \in Nat /\ 75 \in Nat /\ R > 0
          BY <2>2, <3>2
        <5> QED
          BY <2>2, <5>1, QuotientBelow
      <4>2. P = {Element(NoLabels, q)}
        BY <2>4, <3>2
      <4> HIDE DEF q, P
      <4>3. LowCount(db, app, up) # {} <=> q < 75
        BY <1>4, <4>2, ElementFacts DEF Where
      <4>4. 100 * n < 75 * R <=> 4 * n < 3 * R
        BY <2>2
      <4> QED
        BY <4>1, <4>3, <4>4
    <3> QED
      BY <3>1, <3>2
  <2> QED
    BY <1>7, <2>5 DEF R
<1> QED
  BY <1>6, <1>7

(* The requests of a component's pods, all of them and those that failed. *)
Requests == "kubevirt_rest_client_requests_total"
CallsOf(db, app, codes) ==
    Select(db, Requests, [code |-> codes, namespace |-> {Namespace}, pod |-> PodsOf[app]])

LEMMA CallsIs ==
    ASSUME ClusterOK(cluster), NEW db, All(db, Requests) = All(Scrape, Requests), NEW app \in Components, NEW codes
    PROVE  \A e : e \in CallsOf(db, app, codes) <=>
               \E k \in UpPods(app) :
                  \/ "5xx" \in codes /\ e = Element(CodeLabels(k, "5xx"), Failing(k))
                  \/ "2xx" \in codes /\ e = Element(CodeLabels(k, "2xx"), 100 - Failing(k))
<1>1. \A e : e \in CallsOf(db, app, codes) <=>
          /\ e \in All(Scrape, Requests)
          /\ "code" \in DOMAIN e.labels /\ e.labels["code"] \in codes
          /\ "namespace" \in DOMAIN e.labels /\ e.labels["namespace"] = Namespace
          /\ "pod" \in DOMAIN e.labels /\ e.labels["pod"] \in PodsOf[app]
  BY DEF CallsOf, Select
<1> DEFINE Tallied(k, e) == \/ e = Element(CodeLabels(k, "5xx"), Failing(k))
                            \/ e = Element(CodeLabels(k, "2xx"), 100 - Failing(k))
           Wanted(k, e) == \/ "5xx" \in codes /\ e = Element(CodeLabels(k, "5xx"), Failing(k))
                           \/ "2xx" \in codes /\ e = Element(CodeLabels(k, "2xx"), 100 - Failing(k))
<1>2. \A e : e \in All(Scrape, Requests) <=>
          \E a \in Components : \E k \in ComponentPods(a) : Object("pods", k).up /\ Tallied(k, e)
  BY ComponentSamples DEF Requests, Failing
<1>3. \A k, c : "code" \in DOMAIN CodeLabels(k, c) /\ CodeLabels(k, c)["code"] = c
  BY DEF CodeLabels
<1>4. ASSUME NEW k, NEW e, Tallied(k, e)
      PROVE  OfPod(e.labels, k) /\ "code" \in DOMAIN e.labels /\ (e.labels["code"] \in codes <=> Wanted(k, e))
  <2>1. CASE e = Element(CodeLabels(k, "5xx"), Failing(k))
    <3>1. e.labels = CodeLabels(k, "5xx")
      BY <2>1, ElementFacts
    <3>2. e.labels["code"] = "5xx" /\ "code" \in DOMAIN e.labels
      BY <1>3, <3>1
    <3>3. e = Element(CodeLabels(k, "2xx"), 100 - Failing(k)) => e.labels["code"] = "2xx"
      BY <1>3, ElementFacts
    <3>4. OfPod(e.labels, k)
      BY <3>1, LabelFacts
    <3> QED
      BY <2>1, <3>2, <3>3, <3>4
  <2>2. CASE e = Element(CodeLabels(k, "2xx"), 100 - Failing(k))
    <3>1. e.labels = CodeLabels(k, "2xx")
      BY <2>2, ElementFacts
    <3>2. e.labels["code"] = "2xx" /\ "code" \in DOMAIN e.labels
      BY <1>3, <3>1
    <3>3. e = Element(CodeLabels(k, "5xx"), Failing(k)) => e.labels["code"] = "5xx"
      BY <1>3, ElementFacts
    <3>4. OfPod(e.labels, k)
      BY <3>1, LabelFacts
    <3> QED
      BY <2>2, <3>2, <3>3, <3>4
  <2> QED
    BY <1>4, <2>1, <2>2
<1>5. \A k, e : Wanted(k, e) => Tallied(k, e)
  OBVIOUS
<1>6. \A a : \A k \in ComponentPods(a) : k \in Existing("pods")
  BY PodSets
<1>7. \A a : \A k \in ComponentPods(a) : k \in UpPods(app) <=> k \in Watched(app) /\ Object("pods", k).up
  BY PodSets
<1>7a. \A k \in UpPods(app) : k \in Watched(app) /\ k \in ComponentPods(app) /\ Object("pods", k).up
  BY PodSets
<1>8. \A e : e \in CallsOf(db, app, codes) <=> \E k \in UpPods(app) : Wanted(k, e)
  <2> HIDE DEF Tallied, Wanted
  <2>1. ASSUME NEW e \in CallsOf(db, app, codes) PROVE \E k \in UpPods(app) : Wanted(k, e)
    <3>0. PICK a \in Components : \E k \in ComponentPods(a) : Object("pods", k).up /\ Tallied(k, e)
      BY <1>1, <1>2
    <3>1. PICK k \in ComponentPods(a) : Object("pods", k).up /\ Tallied(k, e)
      BY <3>0
    <3>2. k \in Watched(app)
      BY <1>1, <1>4, <1>6, <3>1, OfComponent
    <3> QED
      BY <1>1, <1>4, <1>7, <3>1, <3>2
  <2>2. ASSUME NEW k \in UpPods(app), NEW e, Wanted(k, e) PROVE e \in CallsOf(db, app, codes)
    <3>1. /\ k \in Watched(app) /\ k \in ComponentPods(app) /\ k \in Existing("pods")
          /\ Tallied(k, e) /\ Object("pods", k).up
      BY <1>5, <1>6, <1>7a, <2>2
    <3>2. e \in All(Scrape, Requests)
      BY <1>2, <3>1
    <3>3. OfPod(e.labels, k) /\ "code" \in DOMAIN e.labels /\ e.labels["code"] \in codes
      BY <1>4, <2>2, <3>1
    <3> QED
      BY <1>1, <3>1, <3>2, <3>3, OfComponent
  <2> QED
    BY <2>1, <2>2
<1> QED
  BY <1>8

LEMMA BurstIs ==
    ASSUME ClusterOK(cluster), NEW db, All(db, Requests) = All(Scrape, Requests), NEW app \in Components
    PROVE  Burst(db, app) # {} <=>
               /\ UpPods(app) # {}
               /\ Failures(UpPods(app)) >= 80 * Cardinality(UpPods(app))
<1> DEFINE U == UpPods(app)
           F == CallsOf(db, app, {"4xx", "5xx"})
           A == CallsOf(db, app, {"2xx", "4xx", "5xx"})
           f == [k \in U |-> Element(CodeLabels(k, "5xx"), Failing(k))]
           g == [k \in U |-> Element(CodeLabels(k, "2xx"), 100 - Failing(k))]
           P == PercentOn(SumAll(F), SumAll(A), {})
<1>1. Burst(db, app) = Where(P, LAMBDA n : n >= 80)
  BY DEF Burst, getErrorRatio, CallsOf, Requests
<1>2. \A e : e \in F <=> \E k \in U : e = f[k]
  BY CallsIs
<1>3. \A e : e \in A <=> \E k \in U : e = f[k] \/ e = g[k]
  BY CallsIs
<1>4. IsFiniteSet(U) /\ (\A j, k \in U : j[2] = k[2] => j = k) /\ \A k \in U : Failing(k) \in 0..100
  <2>1. U \subseteq Watched(app)
    BY PodSets
  <2>2. /\ IsFiniteSet(Watched(app))
        /\ \A j, k \in Watched(app) : j[2] = k[2] => j = k
        /\ \A k \in Watched(app) : Failing(k) \in 0..100
    BY PodFacts, PodSets DEF Failing
  <2> QED
    BY <2>1, <2>2, FS_Subset
<1>5. \A k \in U : /\ f[k].labels = CodeLabels(k, "5xx") /\ f[k].value = Failing(k)
                   /\ g[k].labels = CodeLabels(k, "2xx") /\ g[k].value = 100 - Failing(k)
  BY ElementFacts
<1>6. DOMAIN f = U /\ DOMAIN g = U
  OBVIOUS
<1> HIDE DEF U, F, A, f, g
<1>7. F = VectorOf(f, U) /\ A = VectorOf(f, U) \cup VectorOf(g, U)
  BY <1>2, <1>3 DEF VectorOf
<1>8. Each(f, U) /\ Each(g, U)
  <2>0. \A k \in U : OfPod(f[k].labels, k) /\ OfPod(g[k].labels, k)
    BY <1>5, LabelFacts
  <2>1. \A j, k \in U : f[j] = f[k] => j = k
    BY <1>4, <2>0, OfOnePod
  <2>2. \A j, k \in U : g[j] = g[k] => j = k
    BY <1>4, <2>0, OfOnePod
  <2> QED
    BY <1>4, <1>6, <2>1, <2>2 DEF Each
<1>9. Hundred(f, g, U)
  <2>1. \A j, k : CodeLabels(j, "5xx") # CodeLabels(k, "2xx")
    <3>1. \A k, c : CodeLabels(k, c)["code"] = c
      BY DEF CodeLabels
    <3>2. \A j, k : CodeLabels(j, "5xx")["code"] # CodeLabels(k, "2xx")["code"]
      BY <3>1
    <3> QED
      BY <3>2
  <2>2. \A j, k \in U : f[j] # g[k]
    BY <1>5, <2>1
  <2>3. \A k \in U : f[k].value \in Int /\ g[k].value \in Int /\ f[k].value + g[k].value = 100
    BY <1>4, <1>5
  <2> QED
    BY <2>2, <2>3 DEF Hundred
<1>10. Total(A) = 100 * Cardinality(U)
  BY <1>7, <1>8, <1>9, TotalRequests
<1>11. Total(F) = Failures(U)
  <2>1. \A k \in U : f[k].value = Failing(k) /\ Failing(k) \in Int
    BY <1>4, <1>5
  <2> QED
    BY <1>7, <1>8, <2>1, TotalFailures
<1>12. Total(F) \in Nat
  <2>1. NatVec(F)
    <3>1. IsFiniteSet(F)
      BY <1>7, <1>8, CountEach
    <3>2. \A e \in F : e.value \in Nat
      BY <1>2, <1>4, <1>5
    <3> QED
      BY <3>1, <3>2 DEF NatVec
  <2> QED
    BY <2>1, TotalNat
<1>13. CASE U = {}
  <2>1. F = {} /\ A = {}
    BY <1>2, <1>3, <1>13
  <2>2. SumAll(F) = {}
    BY <2>1, SumAllIs
  <2>3. P = {}
    BY <2>2, PercentOfNothing
  <2> QED
    BY <1>1, <1>13, <2>3 DEF Where, U
<1>14. CASE U # {}
  <2> DEFINE n == Cardinality(U)
             a == Element(NoLabels, Total(F))
             b == Element(NoLabels, Total(A))
  <2>1. F # {} /\ A # {}
    BY <1>2, <1>3, <1>14
  <2>2. SumAll(F) = {a} /\ SumAll(A) = {b}
    BY <2>1, SumAllIs
  <2>3. a.value = Total(F) /\ b.value = Total(A)
    BY ElementFacts
  <2>4. n \in Nat /\ n > 0
    BY <1>4, <1>14, FS_EmptySet, FS_CardinalityType
  <2> HIDE DEF a, b
  <2>5. PercentOn({a}, {b}, {}) = IF b.value = 0 THEN {} ELSE {Element(NoLabels, (100 * a.value) \div b.value)}
    BY PercentIs
  <2> DEFINE x == 100 * Total(F)
             d == 100 * n
             q == x \div d
  <2>6. b.value = d /\ 100 * a.value = x
    BY <1>10, <2>3
  <2>7. x \in Nat /\ d \in Nat /\ d > 0 /\ 80 \in Nat
    BY <1>12, <2>4
  <2>8. P = {Element(NoLabels, q)}
    <3> HIDE DEF x, d
    <3>1. b.value # 0
      BY <2>6, <2>7
    <3>2. P = {Element(NoLabels, (100 * a.value) \div b.value)}
      BY <2>2, <2>5, <3>1
    <3> QED
      BY <2>6, <3>2
  <2>9. q \in Nat /\ (q < 80 <=> x < 80 * d)
    <3> HIDE DEF x, d
    <3> QED
      BY <2>7, QuotientBelow
  <2>10. x < 80 * d <=> Total(F) < 80 * n
    BY <1>12, <2>4
  <2> HIDE DEF q, P, x, d
  <2>11. Burst(db, app) # {} <=> q >= 80
    BY <1>1, <2>8, ElementFacts DEF Where
  <2>12. Burst(db, app) # {} <=> Failures(U) >= 80 * n
    BY <1>11, <1>12, <2>4, <2>9, <2>10, <2>11
  <2> QED
    BY <1>14, <2>12 DEF U
<1> QED
  BY <1>13, <1>14

(* Comparisons of what was recorded. *)
LEMMA EqualsZero ==
    ASSUME NEW db, NEW m, NEW n, All(db, m) = {Element(NoLabels, n)}
    PROVE  Equals(db, m, 0) # {} <=> n = 0
BY ElementFacts DEF Equals, Where

LEMMA FewerReady ==
    ASSUME NEW db, NEW r, NEW s, NEW m, NEW n,
           All(db, r) = {Element(NoLabels, m)}, All(db, s) = {Element(NoLabels, n)}
    PROVE  RunningNotReady(db, r, s) # {} <=> m < n
BY ElementFacts DEF RunningNotReady

(* Pods that are ready run: fewer are ready than run exactly when one that *)
(* runs is not ready.                                                      *)
LEMMA ReadyRun ==
    ASSUME ClusterOK(cluster), NEW app
    PROVE  /\ Cardinality(ReadyPods(app)) < Cardinality(RunningPods(app))
                <=> ~(RunningPods(app) \subseteq ReadyPods(app))
           /\ Cardinality(ReadyPods(app)) = 0 <=> ReadyPods(app) = {}
           /\ Cardinality(RunningPods(app)) = 0 <=> RunningPods(app) = {}
           /\ Cardinality(UpPods(app)) = 0 <=> UpPods(app) = {}
           /\ Cardinality(UpPods(app)) \in Nat
<1> DEFINE A == ReadyPods(app)
           B == RunningPods(app)
           C == UpPods(app)
<1>1. A \subseteq B
  BY PodSets, PodFacts
<1>2. IsFiniteSet(B) /\ IsFiniteSet(C)
  <2>1. B \subseteq PodsIn(app) /\ C \subseteq PodsIn(app)
    BY PodSets
  <2> QED
    BY <2>1, PodFacts, FS_Subset
<1> HIDE DEF A, B, C
<1>3. IsFiniteSet(A) /\ Cardinality(A) <= Cardinality(B) /\ (Cardinality(A) = Cardinality(B) => A = B)
  BY <1>1, <1>2, FS_Subset
<1>4. Cardinality(A) \in Nat /\ Cardinality(B) \in Nat /\ Cardinality(C) \in Nat
  BY <1>2, <1>3, FS_CardinalityType
<1>5. Cardinality(A) < Cardinality(B) <=> ~(B \subseteq A)
  <2>1. CASE A = B
    BY <1>4, <2>1
  <2>2. CASE A # B
    BY <1>1, <1>3, <1>4, <2>2
  <2> QED
    BY <2>1, <2>2
<1> QED
  BY <1>2, <1>3, <1>4, <1>5, FS_EmptySet DEF A, B, C

(* The alerts on components fire exactly when the pods and deployments in  *)
(* the controller's namespace are as their expressions say, whatever pods  *)
(* there are of a component and wherever, and when there are none.         *)
THEOREM ComponentAlertsCorrect == Spec => []ComponentAlertsExact
<1>1. IInv => ComponentAlertsExact
  <2> SUFFICES ASSUME IInv, Settled PROVE ComponentAlertsExact
    BY DEF ComponentAlertsExact
  <2> DEFINE db == Extend(Scrape, recorded)
  <2>1. ClusterOK(cluster) /\ ScrapeOK(Scrape)
    BY ScrapeIsOK DEF IInv, ClusterInv
  <2>2. \A r \in Rules : recorded[r] = Final(Scrape, r)
    BY DEF IInv, SettledInv, Settled
  <2>3. firing = Expressed(db)
    BY DEF IInv, SettledInv, Settled
  <2>4. Sound(db, Scrape) /\ \A r \in Rules : All(db, r) = recorded[r]
    BY <2>1, ExtendFacts DEF IInv, ShapeInv
  <2> HIDE DEF db
  <2>5. \A r \in BaseRules : All(db, r) = RuleExpr(r, Scrape)
    BY <2>2, <2>4, FinalBase, SpecialRules
  <2>6. /\ All(db, Requests) = All(Scrape, Requests)
        /\ All(db, "kube_deployment_spec_replicas") = All(Scrape, "kube_deployment_spec_replicas")
    <3>1. Requests \notin Rules /\ "kube_deployment_spec_replicas" \notin Rules
      BY RuleKinds DEF Requests, BaseRules, Aliases, Allocatable, QueueLength
    <3> QED
      BY <2>4, <3>1 DEF Sound
  <2>7. \A a \in AlertNames : Fires(a) <=> AlertExpr(a, db) # {}
    BY <2>3 DEF Fires, Expressed
  <2> DEFINE One(m, n) == All(db, m) = {Element(NoLabels, n)}
  <2>8. /\ One("cluster:kubevirt_virt_api_up:sum", Cardinality(UpPods("virt-api")))
        /\ One("cluster:kubevirt_virt_controller_up:sum", Cardinality(UpPods("virt-controller")))
        /\ One("cluster:kubevirt_virt_operator_up:sum", Cardinality(UpPods("virt-operator")))
    <3>1. /\ "cluster:kubevirt_virt_api_up:sum" \in BaseRules
          /\ "cluster:kubevirt_virt_controller_up:sum" \in BaseRules
          /\ "cluster:kubevirt_virt_operator_up:sum" \in BaseRules
      BY DEF BaseRules
    <3>2. "virt-api" \in Components /\ "virt-controller" \in Components /\ "virt-operator" \in Components
      BY DEF Components
    <3> QED
      BY <2>1, <2>5, <3>1, <3>2, ComponentRules, UpIs
  <2>9. /\ One("cluster:kubevirt_virt_controller_pods_running:count", Cardinality(RunningPods("virt-controller")))
        /\ One("cluster:kubevirt_virt_operator_pods_running:count", Cardinality(RunningPods("virt-operator")))
    <3>1. /\ "cluster:kubevirt_virt_controller_pods_running:count" \in BaseRules
          /\ "cluster:kubevirt_virt_operator_pods_running:count" \in BaseRules
      BY DEF BaseRules
    <3> QED
      BY <2>1, <2>5, <3>1, ComponentRules, RunningIs
  <2>10. /\ One("cluster:kubevirt_virt_controller_ready:sum", Cardinality(ReadyPods("virt-controller")))
         /\ One("cluster:kubevirt_virt_operator_ready:sum", Cardinality(ReadyPods("virt-operator")))
    <3>1. /\ "cluster:kubevirt_virt_controller_ready:sum" \in BaseRules
          /\ "cluster:kubevirt_virt_operator_ready:sum" \in BaseRules
      BY DEF BaseRules
    <3> QED
      BY <2>1, <2>5, <3>1, ReadyIs
  <2>11. All(db, "cluster:kubevirt_virt_operator_leading:sum")
            = IF UpPods("virt-operator") = {} THEN {} ELSE {Element(NoLabels, Cardinality(LeadingPods))}
    <3>1. "cluster:kubevirt_virt_operator_leading:sum" \in BaseRules
      BY DEF BaseRules
    <3> QED
      BY <2>1, <2>5, <3>1, LeadingIs
  <2>12. /\ Fires("VirtAPIDown") <=> UpPods("virt-api") = {}
         /\ Fires("VirtOperatorDown") <=> UpPods("virt-operator") = {}
    <3>1. /\ Fires("VirtAPIDown") <=> Equals(db, "cluster:kubevirt_virt_api_up:sum", 0) # {}
          /\ Fires("VirtOperatorDown") <=> Equals(db, "cluster:kubevirt_virt_operator_up:sum", 0) # {}
      BY <2>7 DEF AlertNames, AlertExpr
    <3> QED
      BY <2>1, <2>8, <3>1, EqualsZero, ReadyRun
  <2>13. Fires("VirtControllerDown") <=> RunningPods("virt-controller") = {}
    <3>1. Fires("VirtControllerDown") <=>
              Equals(db, "cluster:kubevirt_virt_controller_pods_running:count", 0) # {}
      BY <2>7 DEF AlertNames, AlertExpr
    <3> QED
      BY <2>1, <2>9, <3>1, EqualsZero, ReadyRun
  <2>14. /\ Fires("NoReadyVirtController") <=> ReadyPods("virt-controller") = {}
         /\ Fires("NoReadyVirtOperator") <=> ReadyPods("virt-operator") = {}
    <3>1. /\ Fires("NoReadyVirtController") <=> Equals(db, "cluster:kubevirt_virt_controller_ready:sum", 0) # {}
          /\ Fires("NoReadyVirtOperator") <=> Equals(db, "cluster:kubevirt_virt_operator_ready:sum", 0) # {}
      BY <2>7 DEF AlertNames, AlertExpr
    <3> QED
      BY <2>1, <2>10, <3>1, EqualsZero, ReadyRun
  <2>15. /\ Fires("LowReadyVirtControllersCount") <=>
                ~(RunningPods("virt-controller") \subseteq ReadyPods("virt-controller"))
         /\ Fires("LowReadyVirtOperatorsCount") <=>
                ~(RunningPods("virt-operator") \subseteq ReadyPods("virt-operator"))
    <3>1. /\ Fires("LowReadyVirtControllersCount") <=>
                 RunningNotReady(db, "cluster:kubevirt_virt_controller_ready:sum",
                                 "cluster:kubevirt_virt_controller_pods_running:count") # {}
          /\ Fires("LowReadyVirtOperatorsCount") <=>
                 RunningNotReady(db, "cluster:kubevirt_virt_operator_ready:sum",
                                 "cluster:kubevirt_virt_operator_pods_running:count") # {}
      BY <2>7 DEF AlertNames, AlertExpr
    <3> QED
      BY <2>1, <2>9, <2>10, <3>1, FewerReady, ReadyRun
  <2>16. Fires("NoLeadingVirtOperator") <=>
             /\ UpPods("virt-operator") # {}
             /\ \A k \in UpPods("virt-operator") : ~Object("pods", k).leading
    <3>1. Fires("NoLeadingVirtOperator") <=> Equals(db, "cluster:kubevirt_virt_operator_leading:sum", 0) # {}
      BY <2>7 DEF AlertNames, AlertExpr
    <3>2. CASE UpPods("virt-operator") = {}
      BY <2>11, <3>1, <3>2 DEF Equals, Where
    <3>3. CASE UpPods("virt-operator") # {}
      <4>1. Fires("NoLeadingVirtOperator") <=> Cardinality(LeadingPods) = 0
        BY <2>11, <3>1, <3>3, EqualsZero
      <4>2. IsFiniteSet(LeadingPods)
        <5>1. LeadingPods \subseteq Seen("virt-operator")
          BY PodSets DEF LeadingPods
        <5> QED
          BY <2>1, <5>1, PodFacts, FS_Subset
      <4>3. Cardinality(LeadingPods) = 0 <=> LeadingPods = {}
        BY <4>2, FS_EmptySet
      <4> QED
        BY <3>3, <4>1, <4>3 DEF LeadingPods
    <3> QED
      BY <3>2, <3>3
  <2> DEFINE Low(app) == /\ Beside
                         /\ \E r \in Existing("replicas") \cap {app} :
                               4 * Cardinality(UpPods(app)) < 3 * Object("replicas", r)
             Bursting(app) == /\ UpPods(app) # {}
                              /\ Failures(UpPods(app)) >= 80 * Cardinality(UpPods(app))
  <2>17. /\ Fires("LowVirtAPICount") <=> Low("virt-api")
         /\ Fires("LowVirtControllersCount") <=> Low("virt-controller")
         /\ Fires("LowVirtOperatorCount") <=> Low("virt-operator")
    <3>1. /\ Fires("LowVirtAPICount") <=> LowCount(db, "virt-api", "cluster:kubevirt_virt_api_up:sum") # {}
          /\ Fires("LowVirtControllersCount") <=>
                 LowCount(db, "virt-controller", "cluster:kubevirt_virt_controller_up:sum") # {}
          /\ Fires("LowVirtOperatorCount") <=>
                 LowCount(db, "virt-operator", "cluster:kubevirt_virt_operator_up:sum") # {}
      BY <2>7 DEF AlertNames, AlertExpr
    <3>2. \A app : Cardinality(UpPods(app)) \in Nat
      BY <2>1, ReadyRun
    <3>3. \A app, up : One(up, Cardinality(UpPods(app))) => (LowCount(db, app, up) # {} <=> Low(app))
      BY <2>1, <2>6, <3>2, LowCountIs
    <3> HIDE DEF Low, One
    <3> QED
      BY <2>8, <3>1, <3>3
  <2>18. /\ Fires("VirtApiRESTErrorsBurst") <=> Bursting("virt-api")
         /\ Fires("VirtControllerRESTErrorsBurst") <=> Bursting("virt-controller")
         /\ Fires("VirtHandlerRESTErrorsBurst") <=> Bursting("virt-handler")
         /\ Fires("VirtOperatorRESTErrorsBurst") <=> Bursting("virt-operator")
    <3>1. /\ Fires("VirtApiRESTErrorsBurst") <=> Burst(db, "virt-api") # {}
          /\ Fires("VirtControllerRESTErrorsBurst") <=> Burst(db, "virt-controller") # {}
          /\ Fires("VirtHandlerRESTErrorsBurst") <=> Burst(db, "virt-handler") # {}
          /\ Fires("VirtOperatorRESTErrorsBurst") <=> Burst(db, "virt-operator") # {}
      BY <2>7 DEF AlertNames, AlertExpr
    <3>2. \A app \in Components : Burst(db, app) # {} <=> Bursting(app)
      BY <2>1, <2>6, BurstIs
    <3> HIDE DEF Bursting
    <3> QED
      BY <3>1, <3>2 DEF Components
  <2>19. \A p \in {<<"LowVirtAPICount", "virt-api">>, <<"LowVirtControllersCount", "virt-controller">>,
                   <<"LowVirtOperatorCount", "virt-operator">>} : Fires(p[1]) <=> Low(p[2])
    BY <2>17
  <2>20. \A p \in {<<"VirtApiRESTErrorsBurst", "virt-api">>,
                   <<"VirtControllerRESTErrorsBurst", "virt-controller">>,
                   <<"VirtHandlerRESTErrorsBurst", "virt-handler">>,
                   <<"VirtOperatorRESTErrorsBurst", "virt-operator">>} : Fires(p[1]) <=> Bursting(p[2])
    BY <2>18
  <2> QED
    BY <2>12, <2>13, <2>14, <2>15, <2>16, <2>19, <2>20 DEF ComponentAlertsExact, Failures
<1> QED
  BY <1>1, Invariance, PTL

-----------------------------------------------------------------------------
(* What a scrape has of nodes. *)
KVMResource == "devices_kubevirt_io_kvm"
NodeLabels(n) == [node |-> n]
ResourceLabels(n, r) == [node |-> n, resource |-> r]
RoleLabels(n) == [node |-> n, role |-> "arbiter"]
OpenLabels(n) == [node |-> n,
                  label_kubevirt_io_schedulable |-> IF Object("nodes", n).schedulable THEN "true" ELSE "false"]
OfNode(l, n) == "node" \in DOMAIN l /\ l["node"] = n

LEMMA NodeLabelFacts ==
    \A n : /\ OfNode(NodeLabels(n), n) /\ OfNode(RoleLabels(n), n) /\ OfNode(OpenLabels(n), n)
           /\ \A r : OfNode(ResourceLabels(n, r), n)
BY DEF OfNode, NodeLabels, RoleLabels, OpenLabels, ResourceLabels

LEMMA NodeSamples ==
    ASSUME ClusterOK(cluster)
    PROVE  /\ \A e : e \in All(Scrape, "kube_node_status_allocatable") <=>
                  \E n \in Existing("nodes") :
                      \/ e = Element(ResourceLabels(n, "cpu"), 8)
                      \/ e = Element(ResourceLabels(n, KVMResource), Bit(Object("nodes", n).kvm))
           /\ \A e : e \in All(Scrape, "kube_node_spec_unschedulable") <=>
                  \E n \in Existing("nodes") : e = Element(NodeLabels(n), Bit(Object("nodes", n).cordoned))
           /\ \A e : e \in All(Scrape, "kube_node_labels") <=>
                  \E n \in Existing("nodes") : e = Element(OpenLabels(n), 1)
           /\ \A e : e \in All(Scrape, "kube_node_role") <=>
                  \E n \in Existing("nodes") : Object("nodes", n).arbiter /\ e = Element(RoleLabels(n), 1)
<1> DEFINE In(n, m, e) == \E s \in NodeSeries(n) : s.metric = m /\ s.element = e
           Listed(m, e) == \E n \in Existing("nodes") : In(n, m, e)
<1>1. \A m, e : Under(AllNodes, m, e) <=> Listed(m, e)
  BY DEF Under, AllNodes
<1>2. \A m \in NodeMetrics : \A e : e \in All(Scrape, m) <=> Listed(m, e)
  BY <1>1, Sources
<1>3. ASSUME NEW n, NEW e
      PROVE  /\ In(n, "kube_node_status_allocatable", e) <=>
                    \/ e = Element(ResourceLabels(n, "cpu"), 8)
                    \/ e = Element(ResourceLabels(n, KVMResource), Bit(Object("nodes", n).kvm))
             /\ In(n, "kube_node_spec_unschedulable", e) <=>
                    e = Element(NodeLabels(n), Bit(Object("nodes", n).cordoned))
             /\ In(n, "kube_node_labels", e) <=> e = Element(OpenLabels(n), 1)
             /\ In(n, "kube_node_role", e) <=> Object("nodes", n).arbiter /\ e = Element(RoleLabels(n), 1)
  <2> DEFINE a == Series("kube_node_status_allocatable", ResourceLabels(n, "cpu"), 8)
             b == Series("kube_node_status_allocatable", ResourceLabels(n, KVMResource),
                         Bit(Object("nodes", n).kvm))
             c == Series("kube_node_spec_unschedulable", NodeLabels(n), Bit(Object("nodes", n).cordoned))
             d == Series("kube_node_labels", OpenLabels(n), 1)
             r == Series("kube_node_role", RoleLabels(n), 1)
  <2>1. NodeSeries(n) = {a, b, c, d} \cup (IF Object("nodes", n).arbiter THEN {r} ELSE {})
    BY DEF NodeSeries, ResourceLabels, NodeLabels, OpenLabels, RoleLabels, KVMResource
  <2>2. /\ a.metric = "kube_node_status_allocatable" /\ a.element = Element(ResourceLabels(n, "cpu"), 8)
        /\ b.metric = "kube_node_status_allocatable"
        /\ b.element = Element(ResourceLabels(n, KVMResource), Bit(Object("nodes", n).kvm))
        /\ c.metric = "kube_node_spec_unschedulable"
        /\ c.element = Element(NodeLabels(n), Bit(Object("nodes", n).cordoned))
        /\ d.metric = "kube_node_labels" /\ d.element = Element(OpenLabels(n), 1)
        /\ r.metric = "kube_node_role" /\ r.element = Element(RoleLabels(n), 1)
    BY SeriesFacts
  <2> HIDE DEF a, b, c, d, r
  <2>3. \A s : s \in NodeSeries(n) <=>
            s = a \/ s = b \/ s = c \/ s = d \/ (Object("nodes", n).arbiter /\ s = r)
    BY <2>1
  <2> QED
    BY <2>2, <2>3
<1> HIDE DEF In
<1>4. /\ \A e : e \in All(Scrape, "kube_node_status_allocatable") <=> Listed("kube_node_status_allocatable", e)
      /\ \A e : e \in All(Scrape, "kube_node_spec_unschedulable") <=> Listed("kube_node_spec_unschedulable", e)
      /\ \A e : e \in All(Scrape, "kube_node_labels") <=> Listed("kube_node_labels", e)
      /\ \A e : e \in All(Scrape, "kube_node_role") <=> Listed("kube_node_role", e)
  BY <1>2 DEF NodeMetrics
<1>5. \A e : e \in All(Scrape, "kube_node_status_allocatable") <=>
          \E n \in Existing("nodes") :
              \/ e = Element(ResourceLabels(n, "cpu"), 8)
              \/ e = Element(ResourceLabels(n, KVMResource), Bit(Object("nodes", n).kvm))
  BY <1>3, <1>4
<1>6. \A e : e \in All(Scrape, "kube_node_spec_unschedulable") <=>
          \E n \in Existing("nodes") : e = Element(NodeLabels(n), Bit(Object("nodes", n).cordoned))
  BY <1>3, <1>4
<1>7. \A e : e \in All(Scrape, "kube_node_labels") <=>
          \E n \in Existing("nodes") : e = Element(OpenLabels(n), 1)
  BY <1>3, <1>4
<1>8. \A e : e \in All(Scrape, "kube_node_role") <=>
          \E n \in Existing("nodes") : Object("nodes", n).arbiter /\ e = Element(RoleLabels(n), 1)
  BY <1>3, <1>4
<1> QED
  BY <1>5, <1>6, <1>7, <1>8

LEMMA ConfigSamples ==
    ASSUME ClusterOK(cluster)
    PROVE  \A e : e \in All(Scrape, "kubevirt_configuration_emulation_enabled") <=>
               \E c \in Existing("config") : e = Element([namespace |-> KubeVirtNamespace], Bit(Object("config", c)))
<1> DEFINE m == "kubevirt_configuration_emulation_enabled"
           f == [c \in Existing("config") |-> Series(m, [namespace |-> KubeVirtNamespace], Bit(Object("config", c)))]
<1>1. AllConfig = {f[c] : c \in Existing("config")}
  BY DEF AllConfig
<1>2. \A c \in Existing("config") :
          f[c].metric = m /\ f[c].element = Element([namespace |-> KubeVirtNamespace], Bit(Object("config", c)))
  BY SeriesFacts
<1>3. m \in ConfigMetrics
  BY DEF ConfigMetrics
<1> HIDE DEF f, m
<1>4. \A e : e \in All(Scrape, m) <=> \E c \in Existing("config") : f[c].element = e
  BY <1>1, <1>2, <1>3, Sources DEF Under
<1> QED
  BY <1>2, <1>4 DEF m

HandlerLabels == [namespace |-> KubeVirtNamespace, daemonset |-> "virt-handler"]
ReadyHandlers == {k \in ComponentPods("virt-handler") : Object("pods", k).ready}

LEMMA HandlerSamples ==
    ASSUME ClusterOK(cluster)
    PROVE  /\ \A e : e \in All(Scrape, "kube_daemonset_status_number_ready") <=>
                  e = Element(HandlerLabels, Cardinality(ReadyHandlers))
           /\ \A e : e \in All(Scrape, "kube_daemonset_status_desired_number_scheduled") <=>
                  e = Element(HandlerLabels, Cardinality(Existing("nodes")))
<1> DEFINE m == "kube_daemonset_status_number_ready"
           d == "kube_daemonset_status_desired_number_scheduled"
           f == [app \in Existing("replicas") |->
                    Series("kube_deployment_spec_replicas", [namespace |-> KubeVirtNamespace, deployment |-> app],
                           Object("replicas", app))]
           a == Series(m, HandlerLabels, Cardinality(ReadyHandlers))
           b == Series(d, HandlerLabels, Cardinality(Existing("nodes")))
<1>1. WorkloadSeries = {f[app] : app \in Existing("replicas")} \cup {a, b}
  BY DEF WorkloadSeries, HandlerLabels, ReadyHandlers
<1>2. \A app \in Existing("replicas") : f[app].metric # m /\ f[app].metric # d
  BY SeriesFacts
<1>3. /\ a.metric = m /\ a.element = Element(HandlerLabels, Cardinality(ReadyHandlers))
      /\ b.metric = d /\ b.element = Element(HandlerLabels, Cardinality(Existing("nodes")))
      /\ m # d
  BY SeriesFacts
<1>4. m \in WorkloadMetrics /\ d \in WorkloadMetrics
  BY DEF WorkloadMetrics
<1> HIDE DEF f, a, b, m, d
<1>5. \A e : Under(WorkloadSeries, m, e) <=> e = a.element
  BY <1>1, <1>2, <1>3 DEF Under
<1>6. \A e : Under(WorkloadSeries, d, e) <=> e = b.element
  BY <1>1, <1>2, <1>3 DEF Under
<1>7. /\ \A e : e \in All(Scrape, m) <=> e = a.element
      /\ \A e : e \in All(Scrape, d) <=> e = b.element
  BY <1>4, <1>5, <1>6, Sources
<1> QED
  BY <1>3, <1>7 DEF m, d

LEMMA NodeFacts ==
    ASSUME ClusterOK(cluster)
    PROVE  /\ IsFiniteSet(Existing("nodes"))
           /\ \A n \in Existing("nodes") :
                 /\ Object("nodes", n).kvm \in BOOLEAN /\ Object("nodes", n).arbiter \in BOOLEAN
                 /\ Object("nodes", n).schedulable \in BOOLEAN /\ Object("nodes", n).cordoned \in BOOLEAN
<1>1. "nodes" \in ClusterKinds
  BY DEF ClusterKinds
<1>2. \A n \in Existing("nodes") : WellFormed("nodes", n, Object("nodes", n))
  BY <1>1, ObjectFacts
<1> QED
  BY <1>1, <1>2, ExistingFinite DEF WellFormed

(* Elements of v belong to the nodes of T, some to each. *)
OnNodes(v, T) ==
    /\ \A e \in v : \E n \in T : OfNode(e.labels, n)
    /\ \A n \in T : \E e \in v : OfNode(e.labels, n)

LEMMA OnNodeIs ==
    \A e, n : OfNode(e.labels, n) => On(e, {"node"}) = NodeLabels(n)
BY DEF OfNode, On, NodeLabels

LEMMA OfOneNode ==
    /\ \A l, j, k : OfNode(l, j) /\ OfNode(l, k) => j = k
    /\ \A j, k : NodeLabels(j) = NodeLabels(k) => j = k
<1>1. \A l, j, k : OfNode(l, j) /\ OfNode(l, k) => j = k
  BY DEF OfNode
<1> QED
  BY <1>1, NodeLabelFacts

LEMMA CountByNode ==
    ASSUME NEW v, NEW T, IsFiniteSet(T), OnNodes(v, T)
    PROVE  \E f : /\ Each(f, T) /\ CountBy(v, {"node"}) = VectorOf(f, T)
                  /\ \A n \in T : /\ f[n].labels = NodeLabels(n)
                                  /\ f[n].value = Cardinality({e \in v : OfNode(e.labels, n)})
<1> DEFINE Size(g) == Cardinality(Part(v, {"node"}, g))
           f == [n \in T |-> Element(NodeLabels(n), Size(NodeLabels(n)))]
<1>1. \A g : g \in Parts(v, {"node"}) <=> \E n \in T : g = NodeLabels(n)
  <2>1. \A e \in v : \E n \in T : On(e, {"node"}) = NodeLabels(n)
    BY OnNodeIs DEF OnNodes
  <2>2. \A n \in T : \E e \in v : On(e, {"node"}) = NodeLabels(n)
    BY OnNodeIs DEF OnNodes
  <2> QED
    BY <2>1, <2>2 DEF Parts
<1>2. CountBy(v, {"node"}) = {Element(g, Size(g)) : g \in Parts(v, {"node"})}
  BY CountByIs
<1>3. \A n \in T : f[n] = Element(NodeLabels(n), Size(NodeLabels(n)))
  OBVIOUS
<1>4. \A n \in T : f[n].labels = NodeLabels(n) /\ f[n].value = Size(NodeLabels(n))
  BY ElementFacts
<1>5. \A n \in T : Part(v, {"node"}, NodeLabels(n)) = {e \in v : OfNode(e.labels, n)}
  <2> SUFFICES ASSUME NEW n \in T, NEW e \in v
               PROVE  On(e, {"node"}) = NodeLabels(n) <=> OfNode(e.labels, n)
    BY DEF Part
  <2>1. PICK j : OfNode(e.labels, j)
    BY DEF OnNodes
  <2>2. On(e, {"node"}) = NodeLabels(j)
    BY <2>1, OnNodeIs
  <2> QED
    BY <2>1, <2>2, OfOneNode
<1>6. DOMAIN f = T
  OBVIOUS
<1>7. \A n \in T : Size(NodeLabels(n)) = Cardinality({e \in v : OfNode(e.labels, n)})
  BY <1>5
<1> HIDE DEF f, Size
<1>8. CountBy(v, {"node"}) = VectorOf(f, T)
  BY <1>1, <1>2, <1>3 DEF VectorOf
<1>9. Each(f, T)
  BY <1>4, <1>6, OfOneNode DEF Each
<1> QED
  BY <1>4, <1>7, <1>8, <1>9

(* Nodes with each trait the alerts ask for. *)
KVMNodes == {n \in Existing("nodes") : Object("nodes", n).kvm}
Arbiters == {n \in Existing("nodes") : Object("nodes", n).arbiter}
Workers == {n \in Existing("nodes") : ~Object("nodes", n).arbiter}

LEMMA UnschedulableIs ==
    ASSUME ClusterOK(cluster)
    PROVE  UnschedulableOf(ArbitersIn(Scrape)) = {Element(NoLabels, Cardinality(Arbiters))}
<1> DEFINE v == ArbitersIn(Scrape)
<1>1. \A e : e \in v <=> /\ e \in All(Scrape, "kube_node_role")
                         /\ "role" \in DOMAIN e.labels /\ e.labels["role"] = "arbiter"
  BY DEF ArbitersIn, Select
<1>2. \A n : /\ Element(RoleLabels(n), 1).labels = RoleLabels(n)
             /\ "role" \in DOMAIN RoleLabels(n) /\ RoleLabels(n)["role"] = "arbiter"
  BY ElementFacts DEF RoleLabels
<1>3. \A e : e \in All(Scrape, "kube_node_role") <=> \E n \in Arbiters : e = Element(RoleLabels(n), 1)
  BY NodeSamples DEF Arbiters
<1>4. \A e : e \in v <=> \E n \in Arbiters : e = Element(RoleLabels(n), 1)
  BY <1>1, <1>2, <1>3
<1>5. IsFiniteSet(Arbiters)
  <2>1. Arbiters \subseteq Existing("nodes")
    BY DEF Arbiters
  <2> QED
    BY <2>1, NodeFacts, FS_Subset
<1>6. OnNodes(v, Arbiters)
  BY <1>2, <1>4, NodeLabelFacts DEF OnNodes
<1> HIDE DEF v
<1>7. \A n \in Arbiters : {e \in v : OfNode(e.labels, n)} = {Element(RoleLabels(n), 1)}
  BY <1>2, <1>4, NodeLabelFacts, OfOneNode
<1>8. PICK f : /\ Each(f, Arbiters) /\ CountBy(v, {"node"}) = VectorOf(f, Arbiters)
               /\ \A n \in Arbiters : /\ f[n].labels = NodeLabels(n)
                                      /\ f[n].value = Cardinality({e \in v : OfNode(e.labels, n)})
  BY <1>5, <1>6, CountByNode
<1>9. \A n \in Arbiters : f[n].value = 1
  <2>1. \A x : Cardinality({x}) = 1
    BY FS_Singleton
  <2> QED
    BY <1>7, <1>8, <2>1
<1>10. Total(VectorOf(f, Arbiters)) = Cardinality({n \in Arbiters : f[n].value = 1})
  BY <1>8, <1>9, TotalOnes
<1>11. {n \in Arbiters : f[n].value = 1} = Arbiters
  BY <1>9
<1>12. IntVec(VectorOf(f, Arbiters))
  <2>1. \A n \in Arbiters : f[n].value \in Int
    BY <1>9
  <2>2. Arbiters \in SUBSET Arbiters
    OBVIOUS
  <2> QED
    BY <1>8, <2>1, <2>2, EachVec
<1>13. UnschedulableOf(v) = UpOf(CountBy(v, {"node"}))
  BY DEF UnschedulableOf, UpOf
<1> QED
  BY <1>8, <1>10, <1>11, <1>12, <1>13, UpOfIs DEF v

LEMMA NodeCount ==
    ASSUME ClusterOK(cluster)
    PROVE  CountAll(CountBy(All(Scrape, "kube_node_status_allocatable"), {"node"}))
               = IF Existing("nodes") = {} THEN {} ELSE {Element(NoLabels, Cardinality(Existing("nodes")))}
<1> DEFINE v == All(Scrape, "kube_node_status_allocatable")
           T == Existing("nodes")
<1>1. IsFiniteSet(T)
  BY NodeFacts
<1>2. \A n, r, x : Element(ResourceLabels(n, r), x).labels = ResourceLabels(n, r)
  BY ElementFacts
<1>3. OnNodes(v, T)
  <2>1. \A e \in v : \E n \in T : OfNode(e.labels, n)
    BY <1>2, NodeSamples, NodeLabelFacts
  <2>2. \A n \in T : Element(ResourceLabels(n, "cpu"), 8) \in v
    BY NodeSamples
  <2>3. \A n \in T : \E e \in v : OfNode(e.labels, n)
    BY <1>2, <2>2, NodeLabelFacts
  <2> QED
    BY <2>1, <2>3 DEF OnNodes
<1> HIDE DEF v, T
<1>4. PICK f : Each(f, T) /\ CountBy(v, {"node"}) = VectorOf(f, T)
  BY <1>1, <1>3, CountByNode
<1>5. Cardinality(VectorOf(f, T)) = Cardinality(T)
  BY <1>4, CountEach
<1>6. VectorOf(f, T) = {} <=> T = {}
  BY DEF VectorOf
<1> QED
  BY <1>4, <1>5, <1>6, CountAllIs DEF v, T

LEMMA DifferenceIs ==
    /\ \A w : Difference({}, w) = {}
    /\ \A l, a, b : Difference({Element(l, a)}, {Element(l, b)}) = {Element(l, a - b)}
<1> DEFINE Less(q) == Element(q[1].labels, q[1].value - q[2].value)
           pairs(v, w) == {q \in v \X w : q[1].labels = q[2].labels}
<1>1. \A v, w : Difference(v, w) = {Less(q) : q \in pairs(v, w)}
  BY DEF Difference, Binary, Minus
<1>2. \A w : pairs({}, w) = {}
  OBVIOUS
<1>3. ASSUME NEW l, NEW a, NEW b PROVE Difference({Element(l, a)}, {Element(l, b)}) = {Element(l, a - b)}
  <2> DEFINE e == Element(l, a)
             f == Element(l, b)
  <2>1. e.labels = l /\ e.value = a /\ f.labels = l /\ f.value = b
    BY ElementFacts
  <2> HIDE DEF e, f
  <2>2. \A q : q \in pairs({e}, {f}) <=> q = <<e, f>>
    BY <2>1
  <2>3. Less(<<e, f>>) = Element(l, a - b)
    BY <2>1
  <2> HIDE DEF Less, pairs
  <2>4. Difference({e}, {f}) = {Element(l, a - b)}
    BY <1>1, <2>2, <2>3
  <2> QED
    BY <2>4 DEF e, f
<1> HIDE DEF Less, pairs
<1> QED
  BY <1>1, <1>2, <1>3

LEMMA KVMIs ==
    ASSUME ClusterOK(cluster)
    PROVE  KVMOf(KVMIn(Scrape)) = {Element(NoLabels, Cardinality(KVMNodes))}
<1> DEFINE V == Where(KVMIn(Scrape), LAMBDA x : x # 0)
           f == [n \in KVMNodes |-> Element(ResourceLabels(n, KVMResource), 1)]
<1>1. \A e : e \in V <=> /\ e \in All(Scrape, "kube_node_status_allocatable") /\ e.value # 0
                         /\ "resource" \in DOMAIN e.labels /\ e.labels["resource"] = KVMResource
  BY DEF KVMIn, Select, Where, KVMResource
<1>2. \A n, r : "resource" \in DOMAIN ResourceLabels(n, r) /\ ResourceLabels(n, r)["resource"] = r
  BY DEF ResourceLabels
<1>3. ASSUME NEW e \in V PROVE \E n \in KVMNodes : e = f[n]
  <2>1. PICK n \in Existing("nodes") :
            \/ e = Element(ResourceLabels(n, "cpu"), 8)
            \/ e = Element(ResourceLabels(n, KVMResource), Bit(Object("nodes", n).kvm))
    BY <1>1, NodeSamples
  <2>2. e # Element(ResourceLabels(n, "cpu"), 8)
    <3>1. Element(ResourceLabels(n, "cpu"), 8).labels["resource"] = "cpu"
      BY <1>2, ElementFacts
    <3>2. KVMResource # "cpu"
      BY DEF KVMResource
    <3> QED
      BY <1>1, <3>1, <3>2
  <2>3. e = Element(ResourceLabels(n, KVMResource), Bit(Object("nodes", n).kvm))
    BY <2>1, <2>2
  <2>4. e.value = Bit(Object("nodes", n).kvm)
    BY <2>3, ElementFacts
  <2>5. e.value # 0
    BY <1>1
  <2>6. Object("nodes", n).kvm
    BY <2>4, <2>5 DEF Bit
  <2>7. n \in KVMNodes /\ Bit(Object("nodes", n).kvm) = 1
    BY <2>6 DEF KVMNodes, Bit
  <2> QED
    BY <2>3, <2>7
<1>4. ASSUME NEW n \in KVMNodes PROVE f[n] \in V
  <2>1. n \in Existing("nodes") /\ Bit(Object("nodes", n).kvm) = 1
    BY DEF KVMNodes, Bit
  <2>2. f[n] = Element(ResourceLabels(n, KVMResource), Bit(Object("nodes", n).kvm))
    BY <2>1
  <2>3. f[n] \in All(Scrape, "kube_node_status_allocatable")
    BY <2>1, <2>2, NodeSamples
  <2>4. f[n].labels = ResourceLabels(n, KVMResource) /\ f[n].value = 1
    BY ElementFacts
  <2> HIDE DEF f, V
  <2> QED
    BY <1>1, <1>2, <2>3, <2>4
<1>5. Each(f, KVMNodes)
  <2>1. IsFiniteSet(KVMNodes)
    <3>1. KVMNodes \subseteq Existing("nodes")
      BY DEF KVMNodes
    <3> QED
      BY <3>1, NodeFacts, FS_Subset
  <2>2. \A n \in KVMNodes : OfNode(f[n].labels, n)
    BY ElementFacts, NodeLabelFacts
  <2>3. DOMAIN f = KVMNodes
    OBVIOUS
  <2> HIDE DEF f
  <2>4. \A j, k \in KVMNodes : f[j] = f[k] => j = k
    BY <2>2, OfOneNode
  <2> QED
    BY <2>1, <2>3, <2>4 DEF Each
<1>6. KVMOf(KVMIn(Scrape)) = OrZero(CountAll(V))
  BY DEF KVMOf
<1> HIDE DEF f, V
<1>7. V = VectorOf(f, KVMNodes)
  BY <1>3, <1>4 DEF VectorOf
<1>8. Cardinality(V) = Cardinality(KVMNodes)
  BY <1>5, <1>7, CountEach
<1> QED
  BY <1>6, <1>8, CountOrZero

LEMMA AllocatableIs ==
    ASSUME ClusterOK(cluster)
    PROVE  /\ Final(Scrape, Allocatable)
                = IF Existing("nodes") = {} THEN {} ELSE {Element(NoLabels, Cardinality(Workers))}
           /\ Cardinality(Workers) \in Nat /\ (Existing("nodes") = {} => Cardinality(Workers) = 0)
<1> DEFINE N == Existing("nodes")
<1>1. IsFiniteSet(N)
  BY NodeFacts
<1>2. Workers \subseteq N /\ Arbiters \subseteq N /\ Workers \cup Arbiters = N /\ Workers \cap Arbiters = {}
  BY DEF Workers, Arbiters
<1>3. IsFiniteSet(Workers) /\ IsFiniteSet(Arbiters)
  BY <1>1, <1>2, FS_Subset
<1>4. Cardinality(Workers) \in Nat /\ Cardinality(Arbiters) \in Nat
  BY <1>3, FS_CardinalityType
<1> HIDE DEF N
<1>5. Cardinality(N) = Cardinality(Workers) + Cardinality(Arbiters)
  <2>1. Cardinality(Workers \cap Arbiters) = 0
    BY <1>2, FS_EmptySet
  <2>2. Cardinality(Workers \cup Arbiters)
          = Cardinality(Workers) + Cardinality(Arbiters) - Cardinality(Workers \cap Arbiters)
    BY <1>3, FS_Union
  <2> QED
    BY <1>2, <1>4, <2>1, <2>2
<1>6. Final(Scrape, Allocatable)
        = Difference(CountAll(CountBy(All(Scrape, "kube_node_status_allocatable"), {"node"})),
                     RuleExpr(Unschedulable, Scrape))
  BY RuleKindsApart DEF Final, Settles, AllocatableOf
<1>7. RuleExpr(Unschedulable, Scrape) = {Element(NoLabels, Cardinality(Arbiters))}
  BY NodeRules, UnschedulableIs DEF Unschedulable
<1>8. CountAll(CountBy(All(Scrape, "kube_node_status_allocatable"), {"node"}))
        = IF N = {} THEN {} ELSE {Element(NoLabels, Cardinality(N))}
  BY NodeCount DEF N
<1>9. N = {} => Cardinality(Workers) = 0
  BY <1>2, FS_EmptySet
<1>10. Cardinality(N) - Cardinality(Arbiters) = Cardinality(Workers)
  BY <1>4, <1>5
<1>11. CASE N = {}
  BY <1>4, <1>6, <1>8, <1>9, <1>11, DifferenceIs DEF N
<1>12. CASE N # {}
  <2>1. Final(Scrape, Allocatable)
          = Difference({Element(NoLabels, Cardinality(N))}, {Element(NoLabels, Cardinality(Arbiters))})
    BY <1>6, <1>7, <1>8, <1>12
  <2>2. Final(Scrape, Allocatable) = {Element(NoLabels, Cardinality(N) - Cardinality(Arbiters))}
    BY <2>1, DifferenceIs
  <2> QED
    BY <1>4, <1>10, <1>12, <2>2 DEF N
<1> QED
  BY <1>11, <1>12

-----------------------------------------------------------------------------
(* Joins of many elements to one. *)
JoinLabels(e, f, take) ==
    [l \in (DOMAIN e.labels \ take) \cup (DOMAIN f.labels \cap take) |->
        IF l \in take THEN f.labels[l] ELSE e.labels[l]]
Join(e, f, take) == Element(JoinLabels(e, f, take), e.value * f.value)
Joins(v, w, on, take) == GroupLeft(v, w, on, take, Times_)

LEMMA JoinsAre ==
    ASSUME NEW v, NEW w, NEW on, NEW take, ~Ambiguous(w, on)
    PROVE  /\ \A x : x \in Joins(v, w, on, take) <=>
                  \E e \in v : \E f \in w : On(e, on) = On(f, on) /\ x = Join(e, f, take)
           /\ IsFiniteSet(v) /\ IsFiniteSet(w) => IsFiniteSet(Joins(v, w, on, take))
<1> DEFINE pairs == {q \in v \X w : On(q[1], on) = On(q[2], on)}
           h == [q \in pairs |-> Join(q[1], q[2], take)]
<1>1. Joins(v, w, on, take) = {Join(q[1], q[2], take) : q \in pairs}
  BY DEF Joins, GroupLeft, Join, JoinLabels, Times_
<1>2. \A q : q \in pairs <=> \E e \in v : \E f \in w : q = <<e, f>> /\ On(e, on) = On(f, on)
  OBVIOUS
<1>3. IsFiniteSet(v) /\ IsFiniteSet(w) => IsFiniteSet(pairs)
  BY PairsFinite
<1>4. DOMAIN h = pairs /\ {h[q] : q \in pairs} = {Join(q[1], q[2], take) : q \in pairs}
  OBVIOUS
<1> HIDE DEF pairs, h
<1>5. IsFiniteSet(v) /\ IsFiniteSet(w) => IsFiniteSet(Joins(v, w, on, take))
  <2>1. IsFiniteSet(pairs) => IsFiniteSet({h[q] : q \in pairs})
    BY <1>4, FiniteImage
  <2>2. Joins(v, w, on, take) = {h[q] : q \in pairs}
    BY <1>1, <1>4
  <2> QED
    BY <1>3, <2>1, <2>2
<1>6. \A x : x \in Joins(v, w, on, take) <=> \E q \in pairs : x = Join(q[1], q[2], take)
  BY <1>1
<1>7. ASSUME NEW x \in Joins(v, w, on, take)
      PROVE  \E e \in v : \E f \in w : On(e, on) = On(f, on) /\ x = Join(e, f, take)
  <2>1. PICK q \in pairs : x = Join(q[1], q[2], take)
    BY <1>6
  <2>2. PICK e \in v, f \in w : q = <<e, f>> /\ On(e, on) = On(f, on)
    BY <1>2, <2>1
  <2> QED
    BY <2>1, <2>2
<1>8. ASSUME NEW e \in v, NEW f \in w, On(e, on) = On(f, on) PROVE Join(e, f, take) \in Joins(v, w, on, take)
  <2>1. <<e, f>> \in pairs
    BY <1>2, <1>8
  <2> QED
    BY <1>6, <2>1
<1> QED
  BY <1>5, <1>7, <1>8

LEMMA JoinFacts ==
    \A e, f, take : Join(e, f, take).labels = JoinLabels(e, f, take) /\ Join(e, f, take).value = e.value * f.value
BY ElementFacts DEF Join

LEMMA TotalZero ==
    ASSUME NEW v, NatVec(v)
    PROVE  Total(v) = 0 <=> \A e \in v : e.value = 0
<1>1. ASSUME Total(v) = 0, NEW e \in v PROVE e.value = 0
  <2>1. e.value \in Nat /\ e.value <= 0
    BY <1>1, TotalNat DEF NatVec
  <2> QED
    BY <2>1
<1>2. ASSUME \A e \in v : e.value = 0 PROVE Total(v) = 0
  <2> DEFINE f == [e \in v |-> e]
  <2>1. Each(f, v) /\ VectorOf(f, v) = v
    BY DEF Each, VectorOf, NatVec
  <2>2. \A e \in v : f[e].value = 0
    BY <1>2
  <2> HIDE DEF f
  <2>3. Total(VectorOf(f, v)) = Cardinality({e \in v : f[e].value = 1})
    BY <2>1, <2>2, TotalOnes
  <2>4. {e \in v : f[e].value = 1} = {}
    BY <2>2
  <2> QED
    BY <2>1, <2>3, <2>4, FS_EmptySet
<1> QED
  BY <1>1, <1>2

(* An alert on a value, or on none, being zero. *)
ZeroOf(v) == Where(OrZero(v), LAMBDA n : n = 0)

LEMMA ZeroIs ==
    /\ \A n : ZeroOf({Element(NoLabels, n)}) = IF n = 0 THEN {Element(NoLabels, 0)} ELSE {}
    /\ \A v : NatVec(v) => ZeroOf(SumAll(v)) = IF \A e \in v : e.value = 0 THEN {Element(NoLabels, 0)} ELSE {}
<1>1. \A n : Where({Element(NoLabels, n)}, LAMBDA x : x = 0) = IF n = 0 THEN {Element(NoLabels, 0)} ELSE {}
  BY ElementFacts DEF Where
<1>2. \A n : ZeroOf({Element(NoLabels, n)}) = IF n = 0 THEN {Element(NoLabels, 0)} ELSE {}
  BY <1>1, OrZeroIs DEF ZeroOf
<1>3. ASSUME NEW v, NatVec(v)
      PROVE  ZeroOf(SumAll(v)) = IF \A e \in v : e.value = 0 THEN {Element(NoLabels, 0)} ELSE {}
  <2>1. OrZero(SumAll(v)) = {Element(NoLabels, Total(v))}
    BY <1>3, NatIsInt, UpOfIs DEF UpOf
  <2>2. Total(v) = 0 <=> \A e \in v : e.value = 0
    BY <1>3, TotalZero
  <2>3. ZeroOf(SumAll(v)) = Where({Element(NoLabels, Total(v))}, LAMBDA x : x = 0)
    BY <2>1 DEF ZeroOf
  <2> QED
    BY <1>1, <2>2, <2>3
<1> QED
  BY <1>2, <1>3

OpenNodes == {n \in Existing("nodes") : Object("nodes", n).schedulable /\ ~Object("nodes", n).cordoned}
LabelledIn(db) == Select(db, "kube_node_labels", [label_kubevirt_io_schedulable |-> {"true"}])
OpenIn(db) == Map(All(db, "kube_node_spec_unschedulable"), LAMBDA n : 1 - n)

LEMMA OpenIs ==
    ASSUME ClusterOK(cluster), NEW db,
           All(db, "kube_node_labels") = All(Scrape, "kube_node_labels"),
           All(db, "kube_node_spec_unschedulable") = All(Scrape, "kube_node_spec_unschedulable"),
           IsFiniteSet(All(Scrape, "kube_node_labels")), IsFiniteSet(All(Scrape, "kube_node_spec_unschedulable"))
    PROVE  /\ NatVec(Joins(LabelledIn(db), OpenIn(db), {"node"}, {}))
           /\ (\A e \in Joins(LabelledIn(db), OpenIn(db), {"node"}, {}) : e.value = 0) <=> OpenNodes = {}
<1> DEFINE v == LabelledIn(db)
           w == OpenIn(db)
           N == Existing("nodes")
           Lab == "label_kubevirt_io_schedulable"
           a == [n \in N |-> Element(OpenLabels(n), 1)]
           b == [n \in N |-> Element(NodeLabels(n), 1 - Bit(Object("nodes", n).cordoned))]
<1>1. \A e : e \in v <=> /\ e \in All(Scrape, "kube_node_labels")
                         /\ Lab \in DOMAIN e.labels /\ e.labels[Lab] = "true"
  BY DEF LabelledIn, Select
<1>2. \A n \in N : /\ a[n].labels = OpenLabels(n) /\ a[n].value = 1
                   /\ b[n].labels = NodeLabels(n) /\ b[n].value = 1 - Bit(Object("nodes", n).cordoned)
  BY ElementFacts
<1>3. \A n : /\ Lab \in DOMAIN OpenLabels(n)
             /\ OpenLabels(n)[Lab] = IF Object("nodes", n).schedulable THEN "true" ELSE "false"
  BY DEF OpenLabels
<1>4. \A e : e \in v <=> \E n \in N : Object("nodes", n).schedulable /\ e = a[n]
  <2>1. \A e : e \in All(Scrape, "kube_node_labels") <=> \E n \in N : e = a[n]
    BY NodeSamples
  <2>2. \A n \in N : a[n].labels[Lab] = "true" <=> Object("nodes", n).schedulable
    BY <1>2, <1>3
  <2>3. \A n \in N : Lab \in DOMAIN a[n].labels
    BY <1>2, <1>3
  <2> HIDE DEF a, v, N, Lab
  <2> QED
    BY <1>1, <2>1, <2>2, <2>3
<1>5. \A e : e \in w <=> \E n \in N : e = b[n]
  <2> DEFINE c == [n \in N |-> Element(NodeLabels(n), Bit(Object("nodes", n).cordoned))]
             flip(e) == Element(e.labels, 1 - e.value)
  <2>1. \A e : e \in All(db, "kube_node_spec_unschedulable") <=> \E n \in N : e = c[n]
    BY NodeSamples
  <2>2. \A n \in N : flip(c[n]) = b[n]
    BY ElementFacts
  <2>3. w = {flip(e) : e \in All(db, "kube_node_spec_unschedulable")}
    BY DEF OpenIn, Map
  <2> HIDE DEF c, flip, b, w, N
  <2> QED
    BY <2>1, <2>2, <2>3
<1>6. \A n \in N : b[n].value \in {0, 1} /\ (b[n].value = 1 <=> ~Object("nodes", n).cordoned)
  <2>1. \A n \in N : Object("nodes", n).cordoned \in BOOLEAN
    BY NodeFacts
  <2>2. \A n \in N : b[n].value = 1 - Bit(Object("nodes", n).cordoned)
    BY <1>2
  <2> HIDE DEF b
  <2> QED
    BY <2>1, <2>2 DEF Bit
<1>7. \A n \in N : On(a[n], {"node"}) = NodeLabels(n) /\ On(b[n], {"node"}) = NodeLabels(n)
  <2>1. \A n \in N : OfNode(a[n].labels, n) /\ OfNode(b[n].labels, n)
    BY <1>2, NodeLabelFacts
  <2> HIDE DEF a, b
  <2> QED
    BY <2>1, OnNodeIs
<1>8. IsFiniteSet(v) /\ IsFiniteSet(w)
  <2>1. v \subseteq All(Scrape, "kube_node_labels")
    BY <1>1
  <2>2. w = {b[n] : n \in N}
    BY <1>5
  <2>3. IsFiniteSet(N) /\ N \subseteq DOMAIN b
    BY NodeFacts
  <2> HIDE DEF N, b, w, v
  <2> QED
    BY <2>1, <2>2, <2>3, FiniteImage, FS_Subset
<1>9. /\ \A n \in OpenNodes : n \in N /\ Object("nodes", n).schedulable /\ ~Object("nodes", n).cordoned
      /\ \A n \in N : Object("nodes", n).schedulable /\ ~Object("nodes", n).cordoned => n \in OpenNodes
  BY DEF OpenNodes
<1> DEFINE J == Joins(v, w, {"node"}, {})
<1> HIDE DEF v, w, N, a, b
<1>10. ~Ambiguous(w, {"node"})
  BY <1>5, <1>7, OfOneNode DEF Ambiguous
<1>11. /\ \A x : x \in J <=> \E e \in v : \E f \in w : On(e, {"node"}) = On(f, {"node"}) /\ x = Join(e, f, {})
       /\ IsFiniteSet(J)
  BY <1>8, <1>10, JoinsAre
<1> HIDE DEF J
<1>12. \A x : x \in J <=> \E n \in N : Object("nodes", n).schedulable /\ x = Join(a[n], b[n], {})
  <2>1. \A x : x \in J <=> \E j \in N : \E n \in N :
            Object("nodes", j).schedulable /\ On(a[j], {"node"}) = On(b[n], {"node"}) /\ x = Join(a[j], b[n], {})
    BY <1>4, <1>5, <1>11
  <2>2. \A j, n \in N : On(a[j], {"node"}) = On(b[n], {"node"}) <=> j = n
    BY <1>7, OfOneNode
  <2> QED
    BY <2>1, <2>2
<1>13. \A n \in N : Join(a[n], b[n], {}).value = b[n].value
  <2>1. \A n \in N : Join(a[n], b[n], {}).value = 1 * b[n].value
    BY <1>2, JoinFacts
  <2> QED
    BY <1>6, <2>1
<1>14. NatVec(J)
  BY <1>6, <1>11, <1>12, <1>13 DEF NatVec
<1>15. (\A e \in J : e.value = 0) <=> OpenNodes = {}
  <2>1. ASSUME \A e \in J : e.value = 0 PROVE OpenNodes = {}
    BY <1>6, <1>9, <1>12, <1>13, <2>1
  <2>2. ASSUME OpenNodes = {}, NEW e \in J PROVE e.value = 0
    BY <1>6, <1>9, <1>12, <1>13, <2>2
  <2> QED
    BY <2>1, <2>2
<1> QED
  BY <1>14, <1>15 DEF J, v, w

(* An alert on two conditions or a third, each a value that is zero. *)
AtMost(v, z) == \A e \in v : e = z

LEMMA EitherIs ==
    ASSUME NEW z, NEW a, NEW b, NEW c, AtMost(a, z), AtMost(b, z), AtMost(c, z)
    PROVE  Or(And(a, b), c) # {} <=> (a # {} /\ b # {}) \/ c # {}
<1>1. And(a, b) # {} <=> a # {} /\ b # {}
  BY DEF And, AtMost
<1>2. Or(And(a, b), c) # {} <=> And(a, b) # {} \/ c # {}
  BY DEF And, Or, AtMost
<1> QED
  BY <1>1, <1>2

LEMMA NoAvailableIs ==
    ASSUME ClusterOK(cluster), ScrapeOK(Scrape), NEW db,
           All(db, "cluster:kubevirt_nodes_with_kvm:count") = {Element(NoLabels, Cardinality(KVMNodes))},
           All(db, "kubevirt_configuration_emulation_enabled")
             = All(Scrape, "kubevirt_configuration_emulation_enabled"),
           All(db, "kube_node_labels") = All(Scrape, "kube_node_labels"),
           All(db, "kube_node_spec_unschedulable") = All(Scrape, "kube_node_spec_unschedulable")
    PROVE  NoAvailableNodes(db) # {} <=>
               \/ KVMNodes = {} /\ \A c \in Existing("config") : ~Object("config", c)
               \/ OpenNodes = {}
<1> DEFINE z == Element(NoLabels, 0)
           G == All(Scrape, "kubevirt_configuration_emulation_enabled")
           J == Joins(LabelledIn(db), OpenIn(db), {"node"}, {})
           x == ZeroOf({Element(NoLabels, Cardinality(KVMNodes))})
           y == ZeroOf(SumAll(G))
           t == ZeroOf(SumAll(J))
<1>1. NoAvailableNodes(db) = Or(And(x, y), t)
  BY DEF NoAvailableNodes, ZeroOf, Joins, LabelledIn, OpenIn
<1>2. NatVec(G) /\ IsFiniteSet(All(Scrape, "kube_node_labels"))
      /\ IsFiniteSet(All(Scrape, "kube_node_spec_unschedulable"))
  BY DEF ScrapeOK, NatVec
<1>3. NatVec(J) /\ ((\A e \in J : e.value = 0) <=> OpenNodes = {})
  BY <1>2, OpenIs
<1>4. Cardinality(KVMNodes) = 0 <=> KVMNodes = {}
  <2>1. KVMNodes \subseteq Existing("nodes")
    BY DEF KVMNodes
  <2>2. IsFiniteSet(KVMNodes)
    BY <2>1, NodeFacts, FS_Subset
  <2> QED
    BY <2>2, FS_EmptySet
<1>5. (\A e \in G : e.value = 0) <=> \A c \in Existing("config") : ~Object("config", c)
  <2>1. \A c \in Existing("config") : Object("config", c) \in BOOLEAN
    <3>1. \A c \in Existing("config") : WellFormed("config", c, Object("config", c))
      BY ObjectFacts DEF ClusterKinds
    <3> QED
      BY <3>1 DEF WellFormed
  <2> DEFINE f == [c \in Existing("config") |-> Element([namespace |-> KubeVirtNamespace], Bit(Object("config", c)))]
  <2>2. \A e : e \in G <=> \E c \in Existing("config") : e = f[c]
    BY ConfigSamples
  <2>3. \A c \in Existing("config") : f[c].value = 0 <=> ~Object("config", c)
    BY <2>1, ElementFacts DEF Bit
  <2> HIDE DEF f, G
  <2> QED
    BY <2>2, <2>3
<1> HIDE DEF G, J
<1>6. /\ x = IF Cardinality(KVMNodes) = 0 THEN {z} ELSE {}
      /\ y = IF \A e \in G : e.value = 0 THEN {z} ELSE {}
      /\ t = IF \A e \in J : e.value = 0 THEN {z} ELSE {}
  BY <1>2, <1>3, ZeroIs
<1> HIDE DEF x, y, t, z
<1>7. AtMost(x, z) /\ AtMost(y, z) /\ AtMost(t, z)
  BY <1>6 DEF AtMost
<1>8. NoAvailableNodes(db) # {} <=> (x # {} /\ y # {}) \/ t # {}
  <2>1. Or(And(x, y), t) # {} <=> (x # {} /\ y # {}) \/ t # {}
    BY <1>7, EitherIs
  <2> QED
    BY <1>1, <2>1
<1>9. x # {} <=> KVMNodes = {}
  BY <1>4, <1>6
<1>10. y # {} <=> \A c \in Existing("config") : ~Object("config", c)
  BY <1>5, <1>6
<1>11. t # {} <=> OpenNodes = {}
  BY <1>3, <1>6
<1> QED
  BY <1>8, <1>9, <1>10, <1>11

LEMMA LowKVMIs ==
    ASSUME ClusterOK(cluster), NEW db,
           All(db, Allocatable) = Final(Scrape, Allocatable),
           All(db, "cluster:kubevirt_nodes_with_kvm:count") = {Element(NoLabels, Cardinality(KVMNodes))}
    PROVE  LowKVMNodesCount(db) # {} <=> Cardinality(Workers) > 1 /\ Cardinality(KVMNodes) < 2
<1> DEFINE n == Cardinality(Workers)
           m == Cardinality(KVMNodes)
           a == Where(All(db, Allocatable), LAMBDA x : x > 1)
           b == Where(All(db, "cluster:kubevirt_nodes_with_kvm:count"), LAMBDA x : x < 2)
<1>1. LowKVMNodesCount(db) = And(a, b)
  BY DEF LowKVMNodesCount, Above, Below, Allocatable
<1>2. All(db, Allocatable) = IF Existing("nodes") = {} THEN {} ELSE {Element(NoLabels, n)}
  BY AllocatableIs
<1>3. n \in Nat /\ (Existing("nodes") = {} => n = 0)
  BY AllocatableIs
<1> HIDE DEF n, m
<1>4. \A e : e \in b <=> e = Element(NoLabels, m) /\ m < 2
  BY ElementFacts DEF Where, m
<1>5. \A e : e \in a <=> e = Element(NoLabels, n) /\ n > 1
  <2>1. CASE Existing("nodes") = {}
    BY <1>2, <1>3, <2>1 DEF Where
  <2>2. CASE Existing("nodes") # {}
    BY <1>2, <2>2, ElementFacts DEF Where
  <2> QED
    BY <2>1, <2>2
<1> HIDE DEF a, b
<1>6. \A e, f : e \in a /\ f \in b => e.labels = f.labels
  BY <1>4, <1>5, ElementFacts
<1>7. And(a, b) # {} <=> n > 1 /\ m < 2
  BY <1>4, <1>5, <1>6 DEF And
<1> QED
  BY <1>1, <1>7 DEF n, m

LEMMA RolloutIs ==
    ASSUME ClusterOK(cluster), NEW db,
           All(db, "kube_daemonset_status_number_ready") = All(Scrape, "kube_daemonset_status_number_ready"),
           All(db, "kube_daemonset_status_desired_number_scheduled")
             = All(Scrape, "kube_daemonset_status_desired_number_scheduled")
    PROVE  RolloutFailing(db) # {} <=>
               Beside /\ Cardinality(ReadyHandlers) # Cardinality(Existing("nodes"))
<1> DEFINE r == Cardinality(ReadyHandlers)
           d == Cardinality(Existing("nodes"))
           want == [daemonset |-> {"virt-handler"}, namespace |-> {Namespace}]
           v == Select(db, "kube_daemonset_status_number_ready", want)
           w == Select(db, "kube_daemonset_status_desired_number_scheduled", want)
<1>1. r \in Nat /\ d \in Nat
  <2>1. ReadyHandlers \subseteq PodsIn("virt-handler")
    BY DEF ReadyHandlers, ComponentPods
  <2>2. IsFiniteSet(ReadyHandlers) /\ IsFiniteSet(Existing("nodes"))
    BY <2>1, PodFacts, NodeFacts, FS_Subset
  <2> QED
    BY <2>2, FS_CardinalityType
<1>2. RolloutFailing(db) = Where(Difference(v, w), LAMBDA n : n # 0)
  BY DEF RolloutFailing, Difference
<1>3. /\ \A e : e \in v <=> /\ e \in All(Scrape, "kube_daemonset_status_number_ready")
                            /\ "daemonset" \in DOMAIN e.labels /\ e.labels["daemonset"] = "virt-handler"
                            /\ "namespace" \in DOMAIN e.labels /\ e.labels["namespace"] = Namespace
      /\ \A e : e \in w <=> /\ e \in All(Scrape, "kube_daemonset_status_desired_number_scheduled")
                            /\ "daemonset" \in DOMAIN e.labels /\ e.labels["daemonset"] = "virt-handler"
                            /\ "namespace" \in DOMAIN e.labels /\ e.labels["namespace"] = Namespace
  BY DEF Select
<1>4. /\ "daemonset" \in DOMAIN HandlerLabels /\ HandlerLabels["daemonset"] = "virt-handler"
      /\ "namespace" \in DOMAIN HandlerLabels /\ HandlerLabels["namespace"] = KubeVirtNamespace
  BY DEF HandlerLabels
<1>5. Element(HandlerLabels, r).labels = HandlerLabels /\ Element(HandlerLabels, d).labels = HandlerLabels
  BY ElementFacts
<1>6. /\ \A e : e \in All(Scrape, "kube_daemonset_status_number_ready") <=> e = Element(HandlerLabels, r)
      /\ \A e : e \in All(Scrape, "kube_daemonset_status_desired_number_scheduled") <=>
             e = Element(HandlerLabels, d)
  BY HandlerSamples
<1> HIDE DEF v, w, r, d
<1>7. CASE Beside
  <2>1. v = {Element(HandlerLabels, r)} /\ w = {Element(HandlerLabels, d)}
    BY <1>3, <1>4, <1>5, <1>6, <1>7 DEF Beside
  <2>2. Difference(v, w) = {Element(HandlerLabels, r - d)}
    BY <2>1, DifferenceIs
  <2>3. RolloutFailing(db) # {} <=> r - d # 0
    BY <1>2, <2>2, ElementFacts DEF Where
  <2> QED
    BY <1>1, <1>7, <2>3 DEF r, d
<1>8. CASE ~Beside
  <2>1. v = {}
    BY <1>3, <1>4, <1>5, <1>6, <1>8 DEF Beside
  <2>2. Difference(v, w) = {}
    BY <2>1 DEF Difference, Binary
  <2> QED
    BY <1>2, <1>8, <2>2 DEF Where
<1> QED
  BY <1>7, <1>8

-----------------------------------------------------------------------------
(* Nodes with virtual machines but without a virt-handler that is ready.   *)
InfoLabels(k) == NonEmpty([namespace |-> k[1], pod |-> k[2], node |-> Object("pods", k).node])
Hosted(app) == {k \in PodsIn(app) : Object("pods", k).node # ""}
NodesOf(S) == {Object("pods", k).node : k \in S}
ReadyHosted == {k \in Hosted("virt-handler") : Object("pods", k).ready}

LEMMA MaxByIs ==
    ASSUME NEW v, NEW names
    PROVE  MaxBy(v, names) = {Element(g, Max({e.value : e \in Part(v, names, g)})) : g \in Parts(v, names)}
BY DEF MaxBy, AggregateBy, Part, Parts

LEMMA MaxBits ==
    ASSUME NEW S, S \subseteq {0, 1}, S # {}
    PROVE  Max(S) \in {0, 1} /\ (Max(S) = 1 <=> 1 \in S)
<1>1. \E x \in S : \A y \in S : x >= y
  <2>1. CASE 1 \in S
    BY <2>1
  <2>2. CASE 1 \notin S
    <3>1. 0 \in S /\ \A y \in S : y = 0
      BY <2>2
    <3> QED
      BY <3>1
  <2> QED
    BY <2>1, <2>2
<1>2. Max(S) \in S /\ \A y \in S : Max(S) >= y
  BY <1>1 DEF Max
<1> DEFINE m == Max(S)
<1>3. m \in S /\ \A y \in S : m >= y
  BY <1>2
<1> HIDE DEF m
<1>4. m \in {0, 1}
  BY <1>3
<1>5. 1 \in S => m = 1
  BY <1>3, <1>4
<1> QED
  BY <1>3, <1>4, <1>5 DEF m

LEMMA InfoLabelFacts ==
    ASSUME ClusterOK(cluster), NEW app \in {"virt-handler", "virt-launcher"}, NEW k \in PodsIn(app)
    PROVE  /\ k \in Existing("pods") /\ k[2] \in PodsOf[app]
           /\ k[2] # "" /\ Object("pods", k).ready \in BOOLEAN
           /\ "pod" \in DOMAIN InfoLabels(k) /\ InfoLabels(k)["pod"] = k[2]
           /\ "node" \in DOMAIN InfoLabels(k) <=> Object("pods", k).node # ""
           /\ "node" \in DOMAIN InfoLabels(k) => InfoLabels(k)["node"] = Object("pods", k).node
<1>1. k \in Existing("pods") /\ k[2] \in PodsOf[app]
  BY DEF PodsIn
<1>2. k[2] # ""
  BY <1>1, PodsAssumption
<1>3. Object("pods", k).ready \in BOOLEAN
  <2>1. WellFormed("pods", k, Object("pods", k))
    BY <1>1, ObjectFacts DEF ClusterKinds
  <2> QED
    BY <2>1 DEF WellFormed
<1> DEFINE l == [namespace |-> k[1], pod |-> k[2], node |-> Object("pods", k).node]
<1>4. /\ DOMAIN l = {"namespace", "pod", "node"} /\ l["pod"] = k[2] /\ l["node"] = Object("pods", k).node
      /\ InfoLabels(k) = NonEmpty(l)
  BY DEF InfoLabels
<1> HIDE DEF l
<1>5. /\ DOMAIN NonEmpty(l) = {m \in DOMAIN l : l[m] # ""}
      /\ \A m \in DOMAIN NonEmpty(l) : NonEmpty(l)[m] = l[m]
  BY DEF NonEmpty
<1> QED
  BY <1>1, <1>2, <1>3, <1>4, <1>5

(* A pod does not take part when a sample names no pod: names are never    *)
(* empty.                                                                  *)
LEMMA OnNodeSamples ==
    ASSUME ClusterOK(cluster), NEW app \in {"virt-handler", "virt-launcher"}, NEW db,
           All(db, "kube_pod_info") = All(Scrape, "kube_pod_info")
    PROVE  \A e : e \in OnNode(db, app) <=> \E k \in Hosted(app) : e = Element(InfoLabels(k), 1)
<1>1. \A e : e \in OnNode(db, app) <=>
          /\ e \in All(Scrape, "kube_pod_info") /\ "node" \in DOMAIN e.labels
          /\ "pod" \in DOMAIN e.labels /\ e.labels["pod"] \in PodsOf[app]
  BY DEF OnNode, Select
<1>2. \A e : e \in All(Scrape, "kube_pod_info") <=> \E k \in Existing("pods") : e = Element(InfoLabels(k), 1)
  BY PodSamples DEF InfoLabels
<1>3. \A k : Element(InfoLabels(k), 1).labels = InfoLabels(k)
  BY ElementFacts
<1>4. \A k \in Hosted(app) : k \in PodsIn(app) /\ k \in Existing("pods") /\ Object("pods", k).node # ""
  BY DEF Hosted, PodsIn
<1>5. ASSUME NEW k \in Hosted(app) PROVE Element(InfoLabels(k), 1) \in OnNode(db, app)
  BY <1>1, <1>2, <1>3, <1>4, InfoLabelFacts
<1>6. ASSUME NEW e \in OnNode(db, app) PROVE \E k \in Hosted(app) : e = Element(InfoLabels(k), 1)
  <2>1. PICK k \in Existing("pods") : e = Element(InfoLabels(k), 1)
    BY <1>1, <1>2
  <2>2. "pod" \in DOMAIN InfoLabels(k) /\ InfoLabels(k)["pod"] \in PodsOf[app]
    BY <1>1, <1>3, <2>1
  <2>3. \A l, m : m \in DOMAIN NonEmpty(l) => m \in DOMAIN l /\ NonEmpty(l)[m] = l[m]
    BY DEF NonEmpty
  <2>4. InfoLabels(k)["pod"] = k[2]
    BY <2>2, <2>3 DEF InfoLabels
  <2>5. k \in PodsIn(app)
    BY <2>2, <2>4 DEF PodsIn
  <2>6. "node" \in DOMAIN InfoLabels(k)
    BY <1>1, <1>3, <2>1
  <2>7. Object("pods", k).node # ""
    BY <2>5, <2>6, InfoLabelFacts
  <2> QED
    BY <2>1, <2>5, <2>7 DEF Hosted
<1> QED
  BY <1>5, <1>6

LEMMA HostedFinite ==
    ASSUME ClusterOK(cluster), NEW app
    PROVE  IsFiniteSet(Hosted(app)) /\ IsFiniteSet(NodesOf(Hosted(app)))
<1>1. Hosted(app) \subseteq Existing("pods")
  BY DEF Hosted, PodsIn
<1>2. IsFiniteSet(Existing("pods"))
  BY ExistingFinite DEF ClusterKinds
<1>3. IsFiniteSet(Hosted(app))
  BY <1>1, <1>2, FS_Subset
<1> DEFINE S == Hosted(app)
           f == [k \in S |-> Object("pods", k).node]
<1>4. NodesOf(S) = {f[k] : k \in S} /\ S \subseteq DOMAIN f
  BY DEF NodesOf
<1> HIDE DEF S, f
<1>5. IsFiniteSet({f[k] : k \in S})
  BY <1>3, <1>4, FiniteImage DEF S
<1> QED
  BY <1>3, <1>4, <1>5 DEF S

(* What is there of nodes with launchers: a zero for each.                 *)
LEMMA LauncherNodes ==
    ASSUME ClusterOK(cluster), NEW db, All(db, "kube_pod_info") = All(Scrape, "kube_pod_info")
    PROVE  \A x : x \in Map(CountBy(OnNode(db, "virt-launcher"), {"node"}), LAMBDA n : n * 0) <=>
               \E n \in NodesOf(Hosted("virt-launcher")) : x = Element(NodeLabels(n), 0)
<1> DEFINE v == OnNode(db, "virt-launcher")
           S == Hosted("virt-launcher")
           T == NodesOf(S)
           c == CountBy(v, {"node"})
           zero(e) == Element(e.labels, e.value * 0)
<1>1. \A e : e \in v <=> \E k \in S : e = Element(InfoLabels(k), 1)
  BY OnNodeSamples
<1>2. \A k \in S : OfNode(Element(InfoLabels(k), 1).labels, Object("pods", k).node)
  <2> SUFFICES ASSUME NEW k \in S PROVE OfNode(Element(InfoLabels(k), 1).labels, Object("pods", k).node)
    OBVIOUS
  <2>1. k \in PodsIn("virt-launcher") /\ Object("pods", k).node # ""
    BY DEF Hosted
  <2>2. "node" \in DOMAIN InfoLabels(k) /\ InfoLabels(k)["node"] = Object("pods", k).node
    BY <2>1, InfoLabelFacts
  <2> QED
    BY <2>2, ElementFacts DEF OfNode
<1>3. \A n : n \in T <=> \E k \in S : n = Object("pods", k).node
  BY DEF NodesOf
<1>4. IsFiniteSet(T) /\ IsFiniteSet(S)
  BY HostedFinite
<1>5. IsFiniteSet(v)
  <2> DEFINE f == [k \in S |-> Element(InfoLabels(k), 1)]
  <2>1. v = {f[k] : k \in S} /\ S \subseteq DOMAIN f
    BY <1>1
  <2> HIDE DEF f, v, S
  <2> QED
    BY <1>4, <2>1, FiniteImage
<1> HIDE DEF v, S, T, c, zero
<1>6. OnNodes(v, T)
  BY <1>1, <1>2, <1>3 DEF OnNodes
<1>7. PICK f : /\ Each(f, T) /\ c = VectorOf(f, T)
               /\ \A n \in T : /\ f[n].labels = NodeLabels(n)
                               /\ f[n].value = Cardinality({e \in v : OfNode(e.labels, n)})
  BY <1>4, <1>6, CountByNode DEF c
<1>8. \A n \in T : f[n].value \in Nat
  <2>1. \A n : IsFiniteSet({e \in v : OfNode(e.labels, n)})
    <3>1. \A n : {e \in v : OfNode(e.labels, n)} \subseteq v
      OBVIOUS
    <3> QED
      BY <1>5, <3>1, FS_Subset
  <2> QED
    BY <1>7, <2>1, FS_CardinalityType
<1>9. \A n \in T : zero(f[n]) = Element(NodeLabels(n), 0)
  <2>1. \A m \in Nat : m * 0 = 0
    OBVIOUS
  <2> QED
    BY <1>7, <1>8, <2>1 DEF zero
<1>10. Map(c, LAMBDA n : n * 0) = {zero(e) : e \in c}
  BY DEF Map, zero
<1>11. \A x : x \in Map(c, LAMBDA n : n * 0) <=> \E n \in T : x = Element(NodeLabels(n), 0)
  BY <1>7, <1>9, <1>10 DEF VectorOf
<1> QED
  BY <1>11 DEF c, v, T, S

(* What is there of nodes with virt-handlers: whether one is ready. A join *)
(* on the names of pods finds the node of each, if no two have one name.   *)
ReadyIn(db, app) == Select(db, "kube_pod_status_ready", [condition |-> {"true"}, pod |-> PodsOf[app]])
PodNodes(db, app) == MaxBy(OnNode(db, app), {"pod", "node"})
HandledIn(db) == MaxBy(Joins(ReadyIn(db, "virt-handler"), PodNodes(db, "virt-handler"), {"pod"}, {"node"}), {"node"})
PodNodeLabels(k) == [pod |-> k[2], node |-> Object("pods", k).node]
NamesApart == UniqueNames(PodsIn("virt-handler"))

LEMMA ReadyInIs ==
    ASSUME ClusterOK(cluster), NEW db, All(db, "kube_pod_status_ready") = All(Scrape, "kube_pod_status_ready")
    PROVE  \A e : e \in ReadyIn(db, "virt-handler") <=>
               \E k \in PodsIn("virt-handler") : e = Element(ReadyLabels(k), Bit(Object("pods", k).ready))
<1>1. \A e : e \in ReadyIn(db, "virt-handler") <=>
          /\ e \in All(Scrape, "kube_pod_status_ready")
          /\ "condition" \in DOMAIN e.labels /\ e.labels["condition"] = "true"
          /\ "pod" \in DOMAIN e.labels /\ e.labels["pod"] \in PodsOf["virt-handler"]
  BY DEF ReadyIn, Select
<1>2. \A e : e \in All(Scrape, "kube_pod_status_ready") <=>
          \E k \in Existing("pods") : e = Element(ReadyLabels(k), Bit(Object("pods", k).ready))
  BY PodSamples
<1>3. \A k : /\ "condition" \in DOMAIN ReadyLabels(k) /\ ReadyLabels(k)["condition"] = "true"
             /\ "pod" \in DOMAIN ReadyLabels(k) /\ ReadyLabels(k)["pod"] = k[2]
  BY DEF ReadyLabels
<1>4. \A k, x : Element(ReadyLabels(k), x).labels = ReadyLabels(k)
  BY ElementFacts
<1>5. \A k : k \in PodsIn("virt-handler") <=> k \in Existing("pods") /\ k[2] \in PodsOf["virt-handler"]
  BY DEF PodsIn
<1>6. ASSUME NEW e, NEW k \in Existing("pods"), e = Element(ReadyLabels(k), Bit(Object("pods", k).ready))
      PROVE  e \in ReadyIn(db, "virt-handler") <=> k \in PodsIn("virt-handler")
  <2>1. e.labels = ReadyLabels(k) /\ e \in All(Scrape, "kube_pod_status_ready")
    BY <1>2, <1>4, <1>6
  <2> QED
    BY <1>1, <1>3, <1>5, <2>1
<1> QED
  BY <1>1, <1>2, <1>5, <1>6

LEMMA PodNodesAre ==
    ASSUME ClusterOK(cluster), NEW db, All(db, "kube_pod_info") = All(Scrape, "kube_pod_info")
    PROVE  \A x : x \in PodNodes(db, "virt-handler") <=>
               \E k \in Hosted("virt-handler") : x = Element(PodNodeLabels(k), 1)
<1> DEFINE v == OnNode(db, "virt-handler")
           S == Hosted("virt-handler")
           names == {"pod", "node"}
           Values(g) == {e.value : e \in Part(v, names, g)}
<1>1. \A e : e \in v <=> \E k \in S : e = Element(InfoLabels(k), 1)
  BY OnNodeSamples
<1>2. ASSUME NEW k \in S PROVE On(Element(InfoLabels(k), 1), names) = PodNodeLabels(k)
  <2> DEFINE e == Element(InfoLabels(k), 1)
             l == InfoLabels(k)
  <2>1. k \in PodsIn("virt-handler") /\ Object("pods", k).node # ""
    BY DEF Hosted
  <2>2. /\ "pod" \in DOMAIN l /\ l["pod"] = k[2]
        /\ "node" \in DOMAIN l /\ l["node"] = Object("pods", k).node
    BY <2>1, InfoLabelFacts
  <2>3. e.labels = l
    BY ElementFacts
  <2> HIDE DEF e, l
  <2>4. On(e, names) = [m \in names |-> l[m]]
    BY <2>2, <2>3 DEF On
  <2> QED
    BY <2>2, <2>4 DEF PodNodeLabels, e
<1>3. PodNodes(db, "virt-handler") = {Element(g, Max(Values(g))) : g \in Parts(v, names)}
  BY MaxByIs DEF PodNodes
<1> HIDE DEF v, S, names
<1>4. \A g : g \in Parts(v, names) <=> \E k \in S : g = PodNodeLabels(k)
  BY <1>1, <1>2 DEF Parts
<1>5. \A e \in v : e.value = 1
  BY <1>1, ElementFacts
<1>6. ASSUME NEW g \in Parts(v, names) PROVE Max(Values(g)) = 1
  <2>1. PICK e \in v : On(e, names) = g
    BY DEF Parts
  <2>2. e \in Part(v, names, g)
    BY <2>1 DEF Part
  <2>3. \A f \in Part(v, names, g) : f.value = 1
    BY <1>5 DEF Part
  <2>4. Values(g) \subseteq {0, 1} /\ Values(g) # {} /\ 1 \in Values(g)
    BY <2>2, <2>3
  <2> HIDE DEF Values
  <2> QED
    BY <2>4, MaxBits
<1> HIDE DEF Values
<1>7. \A x : x \in PodNodes(db, "virt-handler") <=> \E k \in S : x = Element(PodNodeLabels(k), 1)
  BY <1>3, <1>4, <1>6
<1> QED
  BY <1>7 DEF S

Names(l, k) == "pod" \in DOMAIN l /\ l["pod"] = k[2]

LEMMA OnNames ==
    \A e, f, j, k : Names(e.labels, j) /\ Names(f.labels, k) =>
        (On(e, {"pod"}) = On(f, {"pod"}) <=> j[2] = k[2])
<1> SUFFICES ASSUME NEW e, NEW f, NEW j, NEW k, Names(e.labels, j), Names(f.labels, k)
             PROVE  On(e, {"pod"}) = On(f, {"pod"}) <=> j[2] = k[2]
  OBVIOUS
<1>1. On(e, {"pod"}) = [l \in {"pod"} |-> e.labels[l]] /\ On(f, {"pod"}) = [l \in {"pod"} |-> f.labels[l]]
  BY DEF On, Names
<1>2. On(e, {"pod"})["pod"] = e.labels["pod"] /\ On(f, {"pod"})["pod"] = f.labels["pod"]
  BY <1>1
<1>3. e.labels["pod"] = f.labels["pod"] => On(e, {"pod"}) = On(f, {"pod"})
  BY <1>1
<1> QED
  BY <1>2, <1>3 DEF Names

LEMMA HandledIs ==
    ASSUME ClusterOK(cluster), NEW db, NamesApart,
           All(db, "kube_pod_status_ready") = All(Scrape, "kube_pod_status_ready"),
           All(db, "kube_pod_info") = All(Scrape, "kube_pod_info")
    PROVE  \A x : x \in Where(HandledIn(db), LAMBDA n : n = 1) <=>
               \E n \in NodesOf(ReadyHosted) : x = Element(NodeLabels(n), 1)
<1> DEFINE v == ReadyIn(db, "virt-handler")
           w == PodNodes(db, "virt-handler")
           H == PodsIn("virt-handler")
           S == Hosted("virt-handler")
           r == [k \in H |-> Element(ReadyLabels(k), Bit(Object("pods", k).ready))]
           p == [k \in S |-> Element(PodNodeLabels(k), 1)]
           z == [k \in S |-> Join(r[k], p[k], {"node"})]
           J == Joins(v, w, {"pod"}, {"node"})
           Values(g) == {e.value : e \in Part(J, {"node"}, g)}
<1>1. /\ \A e : e \in v <=> \E k \in H : e = r[k]
      /\ \A e : e \in w <=> \E k \in S : e = p[k]
  BY ReadyInIs, PodNodesAre
<1>2. \A k \in S : k \in H
  BY DEF Hosted
<1>3. /\ \A k \in H : r[k].labels = ReadyLabels(k) /\ r[k].value = Bit(Object("pods", k).ready)
      /\ \A k \in S : p[k].labels = PodNodeLabels(k) /\ p[k].value = 1
  BY ElementFacts
<1>4. \A k : OfNode(PodNodeLabels(k), Object("pods", k).node)
  BY DEF PodNodeLabels, OfNode
<1>5. /\ \A k \in H : Names(r[k].labels, k)
      /\ \A k \in S : Names(p[k].labels, k)
  <2>1. \A k : Names(ReadyLabels(k), k) /\ Names(PodNodeLabels(k), k)
    BY DEF ReadyLabels, PodNodeLabels, Names
  <2> HIDE DEF r, p, H, S
  <2> QED
    BY <1>3, <2>1
<1>6. \A k \in S : z[k] = Join(r[k], p[k], {"node"})
  OBVIOUS
<1>7. \A k \in H : Object("pods", k).ready \in BOOLEAN
  BY InfoLabelFacts
<1> HIDE DEF v, w, r, p, z
<1>8. \A j \in H : \A k \in S : On(r[j], {"pod"}) = On(p[k], {"pod"}) <=> j = k
  <2> SUFFICES ASSUME NEW j \in H, NEW k \in S PROVE On(r[j], {"pod"}) = On(p[k], {"pod"}) <=> j = k
    OBVIOUS
  <2>1. On(r[j], {"pod"}) = On(p[k], {"pod"}) <=> j[2] = k[2]
    BY <1>5, OnNames
  <2>2. k \in H
    BY <1>2
  <2> QED
    BY <2>1, <2>2 DEF NamesApart, UniqueNames
<1>9. ~Ambiguous(w, {"pod"})
  <2>1. \A j, k \in S : On(p[j], {"pod"}) = On(p[k], {"pod"}) => j[2] = k[2]
    BY <1>5, OnNames
  <2>2. \A j, k \in S : j[2] = k[2] => j = k
    BY <1>2 DEF NamesApart, UniqueNames
  <2> HIDE DEF S
  <2> QED
    BY <1>1, <2>1, <2>2 DEF Ambiguous
<1>10. \A x : x \in J <=> \E e \in v : \E f \in w : On(e, {"pod"}) = On(f, {"pod"}) /\ x = Join(e, f, {"node"})
  BY <1>9, JoinsAre
<1> HIDE DEF J, H, S
<1>11. \A x : x \in J <=> \E k \in S : x = z[k]
  <2>1. ASSUME NEW k \in S PROVE z[k] \in J
    BY <1>1, <1>2, <1>6, <1>8, <1>10
  <2>2. ASSUME NEW x \in J PROVE \E k \in S : x = z[k]
    BY <1>1, <1>2, <1>6, <1>8, <1>10
  <2> QED
    BY <2>1, <2>2
<1>12. \A k \in S : z[k].value \in {0, 1} /\ (z[k].value = 1 <=> Object("pods", k).ready)
  <2> SUFFICES ASSUME NEW k \in S
               PROVE  z[k].value \in {0, 1} /\ (z[k].value = 1 <=> Object("pods", k).ready)
    OBVIOUS
  <2>1. z[k].value = r[k].value * p[k].value
    BY <1>6, JoinFacts
  <2>2. z[k].value = Bit(Object("pods", k).ready) * 1
    BY <1>2, <1>3, <2>1
  <2> QED
    BY <1>2, <1>7, <2>2 DEF Bit
<1>13. \A k \in S : OfNode(z[k].labels, Object("pods", k).node)
  <2> SUFFICES ASSUME NEW k \in S PROVE OfNode(z[k].labels, Object("pods", k).node)
    OBVIOUS
  <2>1. z[k].labels = JoinLabels(r[k], p[k], {"node"})
    BY <1>6, JoinFacts
  <2>2. OfNode(p[k].labels, Object("pods", k).node)
    BY <1>3, <1>4
  <2> QED
    BY <2>1, <2>2 DEF JoinLabels, OfNode
<1>14. \A k \in S : On(z[k], {"node"}) = NodeLabels(Object("pods", k).node)
  BY <1>13, OnNodeIs
<1>15. HandledIn(db) = {Element(g, Max(Values(g))) : g \in Parts(J, {"node"})}
  BY MaxByIs DEF HandledIn, J, v, w
<1>16. \A g : g \in Parts(J, {"node"}) <=> \E k \in S : g = NodeLabels(Object("pods", k).node)
  BY <1>11, <1>14 DEF Parts
<1>17. \A k \in ReadyHosted : k \in S /\ Object("pods", k).ready
  BY DEF ReadyHosted, S
<1>18. \A k \in S : Object("pods", k).ready => k \in ReadyHosted
  BY DEF ReadyHosted, S
<1>19. ASSUME NEW g \in Parts(J, {"node"})
       PROVE  Max(Values(g)) = 1 <=> \E n \in NodesOf(ReadyHosted) : g = NodeLabels(n)
  <2>1. \A x : x \in Values(g) <=> \E k \in S : NodeLabels(Object("pods", k).node) = g /\ x = z[k].value
    <3>1. \A x : x \in Values(g) <=> \E e \in J : On(e, {"node"}) = g /\ x = e.value
      BY DEF Part
    <3> HIDE DEF Values
    <3> QED
      BY <1>11, <1>14, <3>1
  <2> HIDE DEF Values
  <2>2. Values(g) \subseteq {0, 1}
    BY <1>12, <2>1
  <2>3. Values(g) # {}
    <3>1. PICK k \in S : g = NodeLabels(Object("pods", k).node)
      BY <1>16
    <3>2. z[k].value \in Values(g)
      BY <2>1, <3>1
    <3> QED
      BY <3>2
  <2>4. Max(Values(g)) = 1 <=> 1 \in Values(g)
    BY <2>2, <2>3, MaxBits
  <2>5. 1 \in Values(g) <=> \E k \in S : NodeLabels(Object("pods", k).node) = g /\ Object("pods", k).ready
    BY <1>12, <2>1
  <2>6. (\E k \in S : NodeLabels(Object("pods", k).node) = g /\ Object("pods", k).ready)
            <=> \E n \in NodesOf(ReadyHosted) : g = NodeLabels(n)
    BY <1>17, <1>18 DEF NodesOf
  <2> QED
    BY <2>4, <2>5, <2>6
<1>20. \A n \in NodesOf(ReadyHosted) : NodeLabels(n) \in Parts(J, {"node"})
  BY <1>16, <1>17 DEF NodesOf
<1> HIDE DEF Values
<1>21. \A x : x \in Where(HandledIn(db), LAMBDA n : n = 1) <=> x \in HandledIn(db) /\ x.value = 1
  BY DEF Where
<1>22. \A x : x \in HandledIn(db) <=> \E g \in Parts(J, {"node"}) : x = Element(g, Max(Values(g)))
  BY <1>15
<1>23. \A g : Element(g, Max(Values(g))).value = Max(Values(g))
  BY ElementFacts
<1>24. ASSUME NEW x \in Where(HandledIn(db), LAMBDA n : n = 1)
       PROVE  \E n \in NodesOf(ReadyHosted) : x = Element(NodeLabels(n), 1)
  <2>1. PICK g \in Parts(J, {"node"}) : x = Element(g, Max(Values(g)))
    BY <1>21, <1>22
  <2>2. Max(Values(g)) = 1
    BY <1>21, <1>23, <2>1
  <2> QED
    BY <1>19, <2>1, <2>2
<1>25. ASSUME NEW n \in NodesOf(ReadyHosted)
       PROVE  Element(NodeLabels(n), 1) \in Where(HandledIn(db), LAMBDA m : m = 1)
  <2>1. NodeLabels(n) \in Parts(J, {"node"}) /\ Max(Values(NodeLabels(n))) = 1
    BY <1>19, <1>20
  <2> QED
    BY <1>21, <1>22, <1>23, <2>1
<1> QED
  BY <1>24, <1>25

LEMMA OrphanedIs ==
    ASSUME ClusterOK(cluster), NEW db, NamesApart,
           All(db, "kube_pod_status_ready") = All(Scrape, "kube_pod_status_ready"),
           All(db, "kube_pod_info") = All(Scrape, "kube_pod_info")
    PROVE  {l.node : l \in {e.labels : e \in Orphaned(db)}}
               = NodesOf(Hosted("virt-launcher")) \ NodesOf(ReadyHosted)
<1> DEFINE a == Where(HandledIn(db), LAMBDA n : n = 1)
           b == Map(CountBy(OnNode(db, "virt-launcher"), {"node"}), LAMBDA n : n * 0)
           R == NodesOf(ReadyHosted)
           L == NodesOf(Hosted("virt-launcher"))
<1>1. Orphaned(db) = Where(Or(a, b), LAMBDA n : n = 0)
  BY DEF Orphaned, HandledIn, ReadyIn, PodNodes, Joins
<1>2. \A x : x \in a <=> \E n \in R : x = Element(NodeLabels(n), 1)
  BY HandledIs
<1>3. \A x : x \in b <=> \E n \in L : x = Element(NodeLabels(n), 0)
  BY LauncherNodes
<1> HIDE DEF a, b, R, L
<1>4. \A x : x \in Orphaned(db) <=>
          \/ x \in a /\ x.value = 0
          \/ x \in b /\ x.value = 0 /\ \A f \in a : f.labels # x.labels
  BY <1>1 DEF Where, Or
<1>5. \A n, m : Element(NodeLabels(n), m).labels = NodeLabels(n) /\ Element(NodeLabels(n), m).value = m
  BY ElementFacts
<1>6. \A x \in a : x.value = 1
  BY <1>2, <1>5
<1>7. \A n : (\E f \in a : f.labels = NodeLabels(n)) <=> n \in R
  BY <1>2, <1>5, OfOneNode
<1>8. \A x : x \in Orphaned(db) <=> \E n \in L \ R : x = Element(NodeLabels(n), 0)
  <2>1. ASSUME NEW x \in Orphaned(db) PROVE \E n \in L \ R : x = Element(NodeLabels(n), 0)
    <3>1. x \in b /\ \A f \in a : f.labels # x.labels
      BY <1>4, <1>6
    <3>2. PICK n \in L : x = Element(NodeLabels(n), 0)
      BY <1>3, <3>1
    <3>3. x.labels = NodeLabels(n)
      BY <1>5, <3>2
    <3> QED
      BY <1>7, <3>1, <3>2, <3>3
  <2>2. ASSUME NEW n \in L \ R PROVE Element(NodeLabels(n), 0) \in Orphaned(db)
    BY <1>3, <1>4, <1>5, <1>7
  <2> QED
    BY <2>1, <2>2
<1>9. \A n : NodeLabels(n).node = n
  BY DEF NodeLabels
<1>10. \A m : m \in {l.node : l \in {e.labels : e \in Orphaned(db)}} <=> \E e \in Orphaned(db) : m = e.labels.node
  OBVIOUS
<1>11. \A m : m \in {l.node : l \in {e.labels : e \in Orphaned(db)}} <=> m \in L \ R
  BY <1>5, <1>8, <1>9, <1>10
<1> QED
  BY <1>11 DEF L, R

(* The alerts on nodes fire exactly when the cluster is as they say, for   *)
(* every cluster; the one on orphaned VMIs, joined by the names of pods,   *)
(* where no two virt-handlers share one, and the one on the rollout of     *)
(* virt-handlers for a controller beside them.                             *)
THEOREM NodeAlertsCorrect == Spec => []NodeAlertsExact
<1>1. IInv => NodeAlertsExact
  <2> SUFFICES ASSUME IInv, Settled PROVE NodeAlertsExact
    BY DEF NodeAlertsExact
  <2> DEFINE db == Extend(Scrape, recorded)
  <2>1. ClusterOK(cluster) /\ ScrapeOK(Scrape)
    BY ScrapeIsOK DEF IInv, ClusterInv
  <2>2. \A r \in Rules : recorded[r] = Final(Scrape, r)
    BY DEF IInv, SettledInv, Settled
  <2>3. firing = Expressed(db)
    BY DEF IInv, SettledInv, Settled
  <2>4. Sound(db, Scrape) /\ \A r \in Rules : All(db, r) = recorded[r]
    BY <2>1, ExtendFacts DEF IInv, ShapeInv
  <2> HIDE DEF db
  <2>5. \A m \in Inputs : All(db, m) = All(Scrape, m)
    BY <2>4, InputsAreNoRules DEF Sound
  <2>6. \A a \in AlertNames : firing[a] = {e.labels : e \in AlertExpr(a, db)}
    BY <2>3 DEF Expressed
  <2>7. \A a \in AlertNames : Fires(a) <=> AlertExpr(a, db) # {}
    BY <2>6 DEF Fires
  <2>8. All(db, "cluster:kubevirt_nodes_with_kvm:count") = {Element(NoLabels, Cardinality(KVMNodes))}
    <3>1. "cluster:kubevirt_nodes_with_kvm:count" \in BaseRules
      BY DEF BaseRules
    <3>2. All(db, "cluster:kubevirt_nodes_with_kvm:count")
            = RuleExpr("cluster:kubevirt_nodes_with_kvm:count", Scrape)
      BY <2>2, <2>4, <3>1, FinalBase, SpecialRules
    <3> QED
      BY <2>1, <3>2, NodeRules, KVMIs
  <2>9. All(db, Allocatable) = Final(Scrape, Allocatable)
    BY <2>2, <2>4, SpecialRules
  <2>10. Fires("LowKVMNodesCount") <=> Cardinality(Workers) > 1 /\ Cardinality(KVMNodes) < 2
    <3>1. Fires("LowKVMNodesCount") <=> LowKVMNodesCount(db) # {}
      BY <2>7 DEF AlertNames, AlertExpr
    <3> QED
      BY <2>1, <2>8, <2>9, <3>1, LowKVMIs
  <2>11. Fires("KubeVirtNoAvailableNodesToRunVMs") <=>
             \/ KVMNodes = {} /\ \A c \in Existing("config") : ~Object("config", c)
             \/ OpenNodes = {}
    <3>1. Fires("KubeVirtNoAvailableNodesToRunVMs") <=> NoAvailableNodes(db) # {}
      BY <2>7 DEF AlertNames, AlertExpr
    <3>2. /\ All(db, "kubevirt_configuration_emulation_enabled")
               = All(Scrape, "kubevirt_configuration_emulation_enabled")
          /\ All(db, "kube_node_labels") = All(Scrape, "kube_node_labels")
          /\ All(db, "kube_node_spec_unschedulable") = All(Scrape, "kube_node_spec_unschedulable")
      BY <2>5 DEF Inputs
    <3> QED
      BY <2>1, <2>8, <3>1, <3>2, NoAvailableIs
  <2>12. Fires("VirtHandlerDaemonSetRolloutFailing") <=>
             Beside /\ Cardinality(ReadyHandlers) # Cardinality(Existing("nodes"))
    <3>1. Fires("VirtHandlerDaemonSetRolloutFailing") <=> RolloutFailing(db) # {}
      BY <2>7 DEF AlertNames, AlertExpr
    <3>2. /\ All(db, "kube_daemonset_status_number_ready") = All(Scrape, "kube_daemonset_status_number_ready")
          /\ All(db, "kube_daemonset_status_desired_number_scheduled")
               = All(Scrape, "kube_daemonset_status_desired_number_scheduled")
      BY <2>5 DEF Inputs
    <3> QED
      BY <2>1, <3>1, <3>2, RolloutIs
  <2>13. ASSUME NamesApart
         PROVE  {l.node : l \in firing["OrphanedVirtualMachineInstances"]}
                    = NodesOf(Hosted("virt-launcher")) \ NodesOf(ReadyHosted)
    <3>1. firing["OrphanedVirtualMachineInstances"] = {e.labels : e \in Orphaned(db)}
      BY <2>6 DEF AlertNames, AlertExpr
    <3>2. /\ All(db, "kube_pod_status_ready") = All(Scrape, "kube_pod_status_ready")
          /\ All(db, "kube_pod_info") = All(Scrape, "kube_pod_info")
      BY <2>5 DEF Inputs
    <3>3. {l.node : l \in {e.labels : e \in Orphaned(db)}}
              = NodesOf(Hosted("virt-launcher")) \ NodesOf(ReadyHosted)
      BY <2>1, <2>13, <3>2, OrphanedIs
    <3> QED
      BY <3>1, <3>3
  <2> DEFINE all == {Object("pods", k).node : k \in {q \in PodsIn("virt-launcher") : TRUE}}
             ready == {Object("pods", k).node : k \in {q \in PodsIn("virt-handler") : Object("pods", q).ready}}
  <2>14. NodesOf(Hosted("virt-launcher")) \ NodesOf(ReadyHosted) = (all \ {""}) \ ready
    <3>1. \A n : n \in NodesOf(Hosted("virt-launcher")) <=> n \in all \ {""}
      BY DEF NodesOf, Hosted
    <3>2. \A n : n \in NodesOf(ReadyHosted) <=> n \in ready \ {""}
      BY DEF NodesOf, Hosted, ReadyHosted
    <3> HIDE DEF all, ready
    <3> QED
      BY <3>1, <3>2
  <2>15. {k \in ComponentPods("virt-handler") : Object("pods", k).ready} = ReadyHandlers
    BY DEF ReadyHandlers
  <2>16. UniqueNames(PodsIn("virt-handler")) =>
             {l.node : l \in firing["OrphanedVirtualMachineInstances"]} = (all \ {""}) \ ready
    BY <2>13, <2>14 DEF NamesApart
  <2> QED
    BY <2>10, <2>11, <2>12, <2>15, <2>16 DEF NodeAlertsExact, KVMNodes, Workers, OpenNodes
<1> QED
  BY <1>1, Invariance, PTL

(* A controller in a namespace of its own, as docs/deployment.md:34 has    *)
(* it, where no pods are called as KubeVirt's are: the alerts on missing   *)
(* components fire and those on components that are there cannot, whatever *)
(* KubeVirt does.                                                          *)
BlindAlerts ==
    ~Beside /\ (\A app \in Components : Watched(app) = {}) /\ Settled =>
        /\ \A a \in {"VirtAPIDown", "VirtOperatorDown", "VirtControllerDown", "NoReadyVirtController",
                     "NoReadyVirtOperator"} : Fires(a)
        /\ \A a \in {"LowReadyVirtControllersCount", "LowReadyVirtOperatorsCount", "NoLeadingVirtOperator",
                     "LowVirtAPICount", "LowVirtControllersCount", "LowVirtOperatorCount",
                     "VirtApiRESTErrorsBurst", "VirtControllerRESTErrorsBurst",
                     "VirtHandlerRESTErrorsBurst", "VirtOperatorRESTErrorsBurst",
                     "VirtHandlerDaemonSetRolloutFailing"} : ~Fires(a)

THEOREM ApartFromKubeVirt == Spec => []BlindAlerts
<1>1. ASSUME ComponentAlertsExact, NodeAlertsExact PROVE BlindAlerts
  <2> SUFFICES ASSUME ~Beside, \A app \in Components : Watched(app) = {}, Settled PROVE BlindAlerts
    BY DEF BlindAlerts
  <2>1. \A app \in Components : UpPods(app) = {} /\ RunningPods(app) = {} /\ ReadyPods(app) = {}
    BY PodSets
  <2>2. /\ UpPods("virt-api") = {} /\ UpPods("virt-operator") = {} /\ UpPods("virt-controller") = {}
        /\ UpPods("virt-handler") = {}
        /\ RunningPods("virt-controller") = {} /\ RunningPods("virt-operator") = {}
        /\ ReadyPods("virt-controller") = {} /\ ReadyPods("virt-operator") = {}
    BY <2>1 DEF Components
  <2>3. /\ Fires("VirtAPIDown") /\ Fires("VirtOperatorDown") /\ Fires("VirtControllerDown")
        /\ Fires("NoReadyVirtController") /\ Fires("NoReadyVirtOperator")
    BY <1>1, <2>2 DEF ComponentAlertsExact
  <2>4. /\ ~Fires("LowReadyVirtControllersCount") /\ ~Fires("LowReadyVirtOperatorsCount")
        /\ ~Fires("NoLeadingVirtOperator")
    BY <1>1, <2>2 DEF ComponentAlertsExact
  <2>5. /\ ~Fires("LowVirtAPICount") /\ ~Fires("LowVirtControllersCount") /\ ~Fires("LowVirtOperatorCount")
    BY <1>1 DEF ComponentAlertsExact
  <2>6. /\ ~Fires("VirtApiRESTErrorsBurst") /\ ~Fires("VirtControllerRESTErrorsBurst")
        /\ ~Fires("VirtHandlerRESTErrorsBurst") /\ ~Fires("VirtOperatorRESTErrorsBurst")
    BY <1>1, <2>2 DEF ComponentAlertsExact
  <2>7. ~Fires("VirtHandlerDaemonSetRolloutFailing")
    BY <1>1 DEF NodeAlertsExact
  <2> QED
    BY <2>3, <2>4, <2>5, <2>6, <2>7 DEF BlindAlerts
<1> QED
  BY <1>1, ComponentAlertsCorrect, NodeAlertsCorrect, PTL

-----------------------------------------------------------------------------
(* What a scrape has of VMs and VMIs. *)
VMLabels(k) == LET o == Object("vms", k)
               IN  Scraped(k, [status |-> Lower[o.status], status_group |-> GetVMStatusGroup(o.status)])
PodFor(k) == Value(getVMIPod(k, Object("vmis", k), cluster.pods))
VMILabels(k) == LET o == Object("vmis", k)
                IN  Scraped(k, [node |-> o.node, phase |-> Lower[o.phase], vmi_pod |-> PodFor(k)])
BlockerLabels(k) == Scraped(k, [node |-> Object("vmis", k).node])
Blocked(k) == IF IsVMIEvictable(Object("vmis", k)) THEN 0 ELSE 1

LEMMA VMSeriesIs == \A k : VMSeries(k) = {Series("kubevirt_vm_info", VMLabels(k), 1)}
<1> SUFFICES ASSUME NEW k PROVE VMSeries(k) = {Series("kubevirt_vm_info", VMLabels(k), 1)}
  OBVIOUS
<1> DEFINE o == Object("vms", k)
           labels == [key    |-> k,
                      type   |-> ResourceName(k[1], o.instancetype, <<>>),
                      pref   |-> ResourceName(k[1], o.preference, <<>>),
                      status |-> Lower[o.status],
                      group  |-> GetVMStatusGroup(o.status)]
           s == Sample("kubevirt_vm_info", labels, 1)
<1>1. CollectVMsInfo(k, o, <<>>) = <<s>>
  BY DEF CollectVMsInfo
<1>2. s.labels.status = Lower[o.status] /\ s.labels.group = GetVMStatusGroup(o.status)
  BY DEF Sample
<1> HIDE DEF s, o
<1>3. Head(<<s>>) = s
  OBVIOUS
<1> QED
  BY <1>1, <1>2, <1>3 DEF VMSeries, VMLabels, o

LEMMA VMISeriesIs ==
    \A k : VMISeries(k) = {Series("kubevirt_vmi_info", VMILabels(k), 1),
                           Series("kubevirt_vmi_non_evictable", BlockerLabels(k), Blocked(k))}
<1> SUFFICES ASSUME NEW k
             PROVE  VMISeries(k) = {Series("kubevirt_vmi_info", VMILabels(k), 1),
                                    Series("kubevirt_vmi_non_evictable", BlockerLabels(k), Blocked(k))}
  OBVIOUS
<1> DEFINE o == Object("vmis", k)
           pod == PodFor(k)
           labels == [key       |-> k,
                      node      |-> o.node,
                      phase     |-> Lower[o.phase],
                      type      |-> ResourceName(k[1], o.instancetype, <<>>),
                      evictable |-> IsVMIEvictable(o),
                      pod       |-> pod]
           s == Sample("kubevirt_vmi_info", labels, 1)
           b == Sample("kubevirt_vmi_non_evictable", [key |-> k, node |-> o.node],
                       IF IsVMIEvictable(o) THEN 0 ELSE 1)
<1>1. CollectVMIInfo(k, o, pod, <<>>) = <<s>> /\ getEvictionBlocker(k, o) = <<b>>
  BY DEF CollectVMIInfo, getEvictionBlocker
<1>2. /\ s.labels.node = o.node /\ s.labels.phase = Lower[o.phase] /\ s.labels.pod = pod
      /\ b.labels.node = o.node /\ b.value = Blocked(k)
  BY DEF Sample, Blocked
<1> HIDE DEF s, b, o, pod
<1>3. Head(<<s>>) = s /\ Head(<<b>>) = b
  OBVIOUS
<1>4. VMISeries(k) = {Series("kubevirt_vmi_info", Scraped(k, [node |-> s.labels.node, phase |-> s.labels.phase,
                                                              vmi_pod |-> s.labels.pod]), 1),
                      Series("kubevirt_vmi_non_evictable", Scraped(k, [node |-> b.labels.node]), b.value)}
  BY <1>1, <1>3 DEF VMISeries, o, pod, PodFor
<1> QED
  BY <1>2, <1>4 DEF VMILabels, BlockerLabels, o, pod

LEMMA InstanceSamples ==
    ASSUME ClusterOK(cluster)
    PROVE  /\ \A e : e \in All(Scrape, "kubevirt_vm_info") <=>
                  \E k \in Existing("vms") : e = Element(VMLabels(k), 1)
           /\ \A e : e \in All(Scrape, "kubevirt_vmi_info") <=>
                  \E k \in Existing("vmis") : e = Element(VMILabels(k), 1)
           /\ \A e : e \in All(Scrape, "kubevirt_vmi_non_evictable") <=>
                  \E k \in Existing("vmis") : e = Element(BlockerLabels(k), Blocked(k))
<1> DEFINE VMOf(k) == Series("kubevirt_vm_info", VMLabels(k), 1)
           VMIOf(k) == Series("kubevirt_vmi_info", VMILabels(k), 1)
           BlockerOf(k) == Series("kubevirt_vmi_non_evictable", BlockerLabels(k), Blocked(k))
<1>1. \A s : s \in AllVMs <=> \E k \in Existing("vms") : s = VMOf(k)
  BY VMSeriesIs DEF AllVMs
<1>2. \A s : s \in AllVMIs <=> \E k \in Existing("vmis") : s = VMIOf(k) \/ s = BlockerOf(k)
  BY VMISeriesIs DEF AllVMIs
<1>3. \A k : /\ VMOf(k).metric = "kubevirt_vm_info" /\ VMOf(k).element = Element(VMLabels(k), 1)
             /\ VMIOf(k).metric = "kubevirt_vmi_info" /\ VMIOf(k).element = Element(VMILabels(k), 1)
             /\ BlockerOf(k).metric = "kubevirt_vmi_non_evictable"
             /\ BlockerOf(k).element = Element(BlockerLabels(k), Blocked(k))
  BY SeriesFacts
<1> HIDE DEF VMOf, VMIOf, BlockerOf
<1>4. \A m \in InfoMetrics : \A e : e \in All(Scrape, m) <=> Under(AllVMs \cup AllVMIs, m, e)
  BY Sources
<1>5. \A e : Under(AllVMs \cup AllVMIs, "kubevirt_vm_info", e) <=>
                 \E k \in Existing("vms") : e = Element(VMLabels(k), 1)
  BY <1>1, <1>2, <1>3 DEF Under
<1>6. \A e : Under(AllVMs \cup AllVMIs, "kubevirt_vmi_info", e) <=>
                 \E k \in Existing("vmis") : e = Element(VMILabels(k), 1)
  BY <1>1, <1>2, <1>3 DEF Under
<1>7. \A e : Under(AllVMs \cup AllVMIs, "kubevirt_vmi_non_evictable", e) <=>
                 \E k \in Existing("vmis") : e = Element(BlockerLabels(k), Blocked(k))
  BY <1>1, <1>2, <1>3 DEF Under
<1> QED
  BY <1>4, <1>5, <1>6, <1>7 DEF InfoMetrics

(* The labels of what is about the object k.                               *)
NamedAs(l, k) ==
    /\ "name" \in DOMAIN l /\ l["name"] = k[2]
    /\ "namespace" \in DOMAIN l <=> Namespace # ""
    /\ "namespace" \in DOMAIN l => l["namespace"] = Namespace

LEMMA ScrapedLabels ==
    ASSUME NEW k, k[2] # "", NEW l, \A m \in DOMAIN l : m \notin {"namespace", "pod", "job", "name", "exported_namespace"}
    PROVE  /\ NamedAs(Scraped(k, l), k)
           /\ \A m \in DOMAIN l : /\ m \in DOMAIN Scraped(k, l) <=> l[m] # ""
                                  /\ l[m] # "" => Scraped(k, l)[m] = l[m]
           /\ \A m : m \notin DOMAIN l /\ m \notin {"namespace", "pod", "job", "name", "exported_namespace"}
                         => m \notin DOMAIN Scraped(k, l)
<1> DEFINE T == {"namespace", "pod", "job", "name", "exported_namespace"}
           t == Target(k)
           x == Extend(t, l)
<1>1. DOMAIN t = T /\ t["name"] = k[2] /\ t["namespace"] = Namespace
  BY DEF Target
<1> HIDE DEF t
<1>2. /\ DOMAIN x = T \cup DOMAIN l
      /\ \A m \in T : x[m] = t[m]
      /\ \A m \in DOMAIN l : m \notin T => x[m] = l[m]
  BY <1>1 DEF Extend
<1> HIDE DEF x
<1>3. /\ DOMAIN NonEmpty(x) = {m \in DOMAIN x : x[m] # ""}
      /\ \A m \in DOMAIN NonEmpty(x) : NonEmpty(x)[m] = x[m]
  BY DEF NonEmpty
<1>4. Scraped(k, l) = NonEmpty(x)
  BY DEF Scraped, x, t
<1>5. NamedAs(Scraped(k, l), k)
  BY <1>1, <1>2, <1>3, <1>4 DEF NamedAs
<1>6. \A m \in DOMAIN l : /\ m \in DOMAIN Scraped(k, l) <=> l[m] # ""
                          /\ l[m] # "" => Scraped(k, l)[m] = l[m]
  BY <1>2, <1>3, <1>4
<1>7. \A m : m \notin DOMAIN l /\ m \notin T => m \notin DOMAIN Scraped(k, l)
  BY <1>2, <1>3, <1>4
<1> QED
  BY <1>5, <1>6, <1>7

LEMMA GroupIsError == \A s : GetVMStatusGroup(s) = "error" <=> s \in StatusGroups.error
<1> SUFFICES ASSUME NEW s PROVE GetVMStatusGroup(s) = "error" <=> s \in StatusGroups.error
  OBVIOUS
<1>1. /\ Groups = {"starting", "running", "migrating", "non_running", "error"}
      /\ StatusGroups["error"] = StatusGroups.error
  BY DEF Groups, StatusGroups
<1>2. \A g \in Groups : g # "error" => \A t \in StatusGroups.error : t \notin StatusGroups[g]
  BY DEF Groups, StatusGroups
<1>3. CASE \E g \in Groups : s \in StatusGroups[g]
  <2> DEFINE c == CHOOSE g \in Groups : s \in StatusGroups[g]
  <2>1. c \in Groups /\ s \in StatusGroups[c]
    BY <1>3
  <2>2. GetVMStatusGroup(s) = c
    BY <1>3 DEF GetVMStatusGroup
  <2> HIDE DEF c
  <2> QED
    BY <1>1, <1>2, <2>1, <2>2
<1>4. CASE ~\E g \in Groups : s \in StatusGroups[g]
  BY <1>1, <1>4 DEF GetVMStatusGroup
<1> QED
  BY <1>3, <1>4

(* Statuses and phases in lower case.                                      *)
LEMMA LoweredFacts ==
    /\ DOMAIN Lowered = {"Provisioning", "Starting", "Running", "Stopping", "Terminating"}
    /\ Lowered["Provisioning"] = "provisioning" /\ Lowered["Starting"] = "starting"
    /\ Lowered["Running"] = "running" /\ Lowered["Stopping"] = "stopping"
    /\ Lowered["Terminating"] = "terminating"
BY DEF Lowered

LEMMA LowerFacts == \A s \in DOMAIN Lower : \A t \in DOMAIN Lowered : Lower[s] = Lowered[t] <=> s = t
<1> DEFINE Distinguished == \A s \in DOMAIN Lower : \A t \in DOMAIN Lowered : Lower[s] = Lowered[t] <=> s = t
<1>1. Distinguished
  BY AlertingAssumption
<1> QED
  BY <1>1

(* What the labels of a VM's and a VMI's samples say.                      *)
LEMMA VMLabelFacts ==
    ASSUME ClusterOK(cluster), NEW k \in Existing("vms")
    PROVE  /\ NamedAs(VMLabels(k), k) /\ "node" \notin DOMAIN VMLabels(k)
           /\ \A s \in DOMAIN Lowered :
                 ("status" \in DOMAIN VMLabels(k) /\ VMLabels(k)["status"] = Lowered[s])
                     <=> Object("vms", k).status = s
           /\ ("status_group" \in DOMAIN VMLabels(k) /\ VMLabels(k)["status_group"] = "error")
                  <=> Object("vms", k).status \in StatusGroups.error
<1> DEFINE o == Object("vms", k)
           l == [status |-> Lower[o.status], status_group |-> GetVMStatusGroup(o.status)]
<1>1. k[2] # "" /\ o.status \in DOMAIN Lower
  BY ObjectFacts DEF ClusterKinds, WellFormed
<1>2. \A s \in DOMAIN Lowered : Lowered[s] # "" /\ (Lower[o.status] = Lowered[s] <=> o.status = s)
  <2>1. \A s \in DOMAIN Lowered : Lowered[s] # ""
    BY LoweredFacts
  <2> QED
    BY <1>1, <2>1, LowerFacts
<1>3. /\ DOMAIN l = {"status", "status_group"}
      /\ l["status"] = Lower[o.status] /\ l["status_group"] = GetVMStatusGroup(o.status)
  OBVIOUS
<1>4. VMLabels(k) = Scraped(k, l)
  BY DEF VMLabels
<1> HIDE DEF l
<1>5. /\ NamedAs(Scraped(k, l), k)
      /\ \A m \in DOMAIN l : /\ m \in DOMAIN Scraped(k, l) <=> l[m] # ""
                             /\ l[m] # "" => Scraped(k, l)[m] = l[m]
      /\ \A m : m \notin DOMAIN l /\ m \notin {"namespace", "pod", "job", "name", "exported_namespace"}
                    => m \notin DOMAIN Scraped(k, l)
  <2>1. \A m \in DOMAIN l : m \notin {"namespace", "pod", "job", "name", "exported_namespace"}
    BY <1>3
  <2> QED
    BY <1>1, <2>1, ScrapedLabels
<1>6. NamedAs(VMLabels(k), k) /\ "node" \notin DOMAIN VMLabels(k)
  BY <1>3, <1>4, <1>5
<1>7. ASSUME NEW s \in DOMAIN Lowered
      PROVE  ("status" \in DOMAIN VMLabels(k) /\ VMLabels(k)["status"] = Lowered[s]) <=> o.status = s
  BY <1>2, <1>3, <1>4, <1>5
<1>8. ("status_group" \in DOMAIN VMLabels(k) /\ VMLabels(k)["status_group"] = "error")
          <=> GetVMStatusGroup(o.status) = "error"
  <2>1. "error" # ""
    OBVIOUS
  <2> QED
    BY <1>3, <1>4, <1>5, <2>1
<1>9. GetVMStatusGroup(o.status) = "error" <=> o.status \in StatusGroups.error
  BY GroupIsError
<1> QED
  BY <1>6, <1>7, <1>8, <1>9

LEMMA VMILabelFacts ==
    ASSUME ClusterOK(cluster), NEW k \in Existing("vmis")
    PROVE  /\ NamedAs(VMILabels(k), k) /\ NamedAs(BlockerLabels(k), k)
           /\ "node" \in DOMAIN VMILabels(k) <=> Object("vmis", k).node # ""
           /\ "node" \in DOMAIN VMILabels(k) => VMILabels(k)["node"] = Object("vmis", k).node
           /\ ("phase" \in DOMAIN VMILabels(k) /\ VMILabels(k)["phase"] = "running")
                  <=> Object("vmis", k).phase = "Running"
<1> DEFINE o == Object("vmis", k)
           l == [node |-> o.node, phase |-> Lower[o.phase], vmi_pod |-> PodFor(k)]
           b == [node |-> o.node]
<1>1. k[2] # "" /\ o.phase \in DOMAIN Lower
  BY ObjectFacts DEF ClusterKinds, WellFormed
<1>2. Lower[o.phase] = "running" <=> o.phase = "Running"
  <2>1. "Running" \in DOMAIN Lowered /\ Lowered["Running"] = "running"
    BY LoweredFacts
  <2>2. \A s \in DOMAIN Lower : Lower[s] = Lowered["Running"] <=> s = "Running"
    BY <2>1, LowerFacts
  <2>3. \A s \in DOMAIN Lower : Lower[s] = "running" <=> s = "Running"
    BY <2>1, <2>2
  <2> QED
    BY <1>1, <2>3
<1>3. /\ DOMAIN l = {"node", "phase", "vmi_pod"} /\ l["node"] = o.node /\ l["phase"] = Lower[o.phase]
      /\ DOMAIN b = {"node"}
  OBVIOUS
<1>4. VMILabels(k) = Scraped(k, l) /\ BlockerLabels(k) = Scraped(k, b)
  BY DEF VMILabels, BlockerLabels
<1> HIDE DEF l, b
<1>5. /\ NamedAs(Scraped(k, l), k)
      /\ \A m \in DOMAIN l : /\ m \in DOMAIN Scraped(k, l) <=> l[m] # ""
                             /\ l[m] # "" => Scraped(k, l)[m] = l[m]
  <2>1. \A m \in DOMAIN l : m \notin {"namespace", "pod", "job", "name", "exported_namespace"}
    BY <1>3
  <2> QED
    BY <1>1, <2>1, ScrapedLabels
<1>6. NamedAs(Scraped(k, b), k)
  <2>1. \A m \in DOMAIN b : m \notin {"namespace", "pod", "job", "name", "exported_namespace"}
    BY <1>3
  <2> QED
    BY <1>1, <2>1, ScrapedLabels
<1> QED
  BY <1>2, <1>3, <1>4, <1>5, <1>6

(* The samples of two objects join if the objects have one name.           *)
LEMMA OnPerVMI ==
    \A e, f, j, k : NamedAs(e.labels, j) /\ NamedAs(f.labels, k) =>
        (On(e, PerVMI) = On(f, PerVMI) <=> j[2] = k[2])
<1> SUFFICES ASSUME NEW e, NEW f, NEW j, NEW k, NamedAs(e.labels, j), NamedAs(f.labels, k)
             PROVE  On(e, PerVMI) = On(f, PerVMI) <=> j[2] = k[2]
  OBVIOUS
<1> DEFINE D == PerVMI \cap DOMAIN e.labels
<1>1. D = PerVMI \cap DOMAIN f.labels /\ "name" \in D /\ \A l \in D : l = "name" \/ l = "namespace"
  BY DEF NamedAs, PerVMI
<1>2. On(e, PerVMI) = [l \in D |-> e.labels[l]] /\ On(f, PerVMI) = [l \in D |-> f.labels[l]]
  BY <1>1 DEF On
<1>3. "namespace" \in D => e.labels["namespace"] = f.labels["namespace"]
  BY DEF NamedAs
<1>4. e.labels["name"] = j[2] /\ f.labels["name"] = k[2]
  BY DEF NamedAs
<1> HIDE DEF D
<1>5. On(e, PerVMI)["name"] = j[2] /\ On(f, PerVMI)["name"] = k[2]
  BY <1>1, <1>2, <1>4
<1>6. j[2] = k[2] => \A l \in D : e.labels[l] = f.labels[l]
  BY <1>1, <1>3, <1>4
<1> QED
  BY <1>2, <1>5, <1>6

(* The VMIs that a drain of their node would have to wait for.             *)
Unmovable == {k \in Existing("vmis") : LET o == Object("vmis", k)
                                       IN  /\ o.phase = "Running"
                                           /\ o.strategy \in {"LiveMigrate", "LiveMigrateIfPossible"}
                                           /\ o.migratable # {TRUE}}

LEMMA EvictionIs ==
    ASSUME ClusterOK(cluster), NEW db, UniqueNames(Existing("vmis")),
           All(db, "kubevirt_vmi_info") = All(Scrape, "kubevirt_vmi_info"),
           All(db, "kubevirt_vmi_non_evictable") = All(Scrape, "kubevirt_vmi_non_evictable")
    PROVE  {l.name : l \in {e.labels : e \in CannotBeEvicted(db)}} = {k[2] : k \in Unmovable}
<1> DEFINE V == Existing("vmis")
           R == {k \in V : Object("vmis", k).phase = "Running"}
           v == All(db, "kubevirt_vmi_non_evictable")
           w == Select(db, "kubevirt_vmi_info", [phase |-> {"running"}])
           b == [k \in V |-> Element(BlockerLabels(k), Blocked(k))]
           i == [k \in V |-> Element(VMILabels(k), 1)]
           z == [k \in V |-> Join(b[k], i[k], {})]
           J == Joins(v, w, PerVMI, {})
<1>1. \A e : e \in v <=> \E k \in V : e = b[k]
  BY InstanceSamples
<1>2. /\ \A k \in V : b[k].labels = BlockerLabels(k) /\ b[k].value = Blocked(k)
      /\ \A k \in V : i[k].labels = VMILabels(k) /\ i[k].value = 1
  BY ElementFacts
<1>3. \A e : e \in w <=> \E k \in R : e = i[k]
  <2>1. \A e : e \in w <=> /\ e \in All(Scrape, "kubevirt_vmi_info")
                           /\ "phase" \in DOMAIN e.labels /\ e.labels["phase"] = "running"
    BY DEF Select
  <2>2. \A e : e \in All(Scrape, "kubevirt_vmi_info") <=> \E k \in V : e = i[k]
    BY InstanceSamples
  <2>3. \A k \in V : ("phase" \in DOMAIN i[k].labels /\ i[k].labels["phase"] = "running")
                         <=> Object("vmis", k).phase = "Running"
    BY <1>2, VMILabelFacts
  <2>4. \A k : k \in R <=> k \in V /\ Object("vmis", k).phase = "Running"
    OBVIOUS
  <2> HIDE DEF w, i, R, V
  <2> QED
    BY <2>1, <2>2, <2>3, <2>4
<1>4. \A k \in V : NamedAs(b[k].labels, k) /\ NamedAs(i[k].labels, k)
  BY <1>2, VMILabelFacts
<1>5. \A k \in V : z[k] = Join(b[k], i[k], {})
  OBVIOUS
<1>6. \A k \in R : k \in V /\ Object("vmis", k).phase = "Running"
  OBVIOUS
<1>7. CannotBeEvicted(db) = Where(J, LAMBDA n : n = 1)
  BY DEF CannotBeEvicted, Joins
<1>8. \A j, k \in V : j[2] = k[2] => j = k
  BY DEF UniqueNames
<1>9. \A k : k \in Unmovable <=> k \in R /\ Blocked(k) = 1
  <2>1. \A k : k \in Unmovable <=>
            /\ k \in R /\ Object("vmis", k).strategy \in {"LiveMigrate", "LiveMigrateIfPossible"}
            /\ Object("vmis", k).migratable # {TRUE}
    BY DEF Unmovable
  <2>2. \A k : Blocked(k) = 1 <=>
            /\ Object("vmis", k).strategy \in {"LiveMigrate", "LiveMigrateIfPossible"}
            /\ Object("vmis", k).migratable # {TRUE}
    <3>1. \A o : IsVMIEvictable(o) <=> ~(/\ o.strategy \in {"LiveMigrate", "LiveMigrateIfPossible"}
                                        /\ o.migratable # {TRUE})
      BY DEF IsVMIEvictable
    <3>2. \A k : Blocked(k) = 1 <=> ~IsVMIEvictable(Object("vmis", k))
      <4> SUFFICES ASSUME NEW k PROVE Blocked(k) = 1 <=> ~IsVMIEvictable(Object("vmis", k))
        OBVIOUS
      <4>1. CASE IsVMIEvictable(Object("vmis", k))
        BY <4>1 DEF Blocked
      <4>2. CASE ~IsVMIEvictable(Object("vmis", k))
        BY <4>2 DEF Blocked
      <4> QED
        BY <4>1, <4>2
    <3> QED
      BY <3>1, <3>2
  <2> QED
    BY <2>1, <2>2
<1> HIDE DEF v, w, b, i, z
<1>10. \A j, k \in V : On(b[j], PerVMI) = On(i[k], PerVMI) <=> j = k
  BY <1>4, <1>8, OnPerVMI
<1>11. ~Ambiguous(w, PerVMI)
  <2>1. \A j, k \in V : On(i[j], PerVMI) = On(i[k], PerVMI) => j = k
    BY <1>4, <1>8, OnPerVMI
  <2> HIDE DEF V, R
  <2> QED
    BY <1>3, <1>6, <2>1 DEF Ambiguous
<1>12. \A x : x \in J <=> \E e \in v : \E f \in w : On(e, PerVMI) = On(f, PerVMI) /\ x = Join(e, f, {})
  BY <1>11, JoinsAre
<1> HIDE DEF J, R, V
<1>13. \A x : x \in J <=> \E k \in R : x = z[k]
  BY <1>1, <1>3, <1>5, <1>6, <1>10, <1>12
<1>14. ASSUME NEW k \in R PROVE z[k].labels.name = k[2] /\ (z[k].value = 1 <=> Blocked(k) = 1)
  <2>1. z[k].labels = JoinLabels(b[k], i[k], {}) /\ z[k].value = Blocked(k) * 1
    BY <1>2, <1>5, <1>6, JoinFacts
  <2>2. "name" \in DOMAIN b[k].labels /\ b[k].labels["name"] = k[2]
    BY <1>4, <1>6 DEF NamedAs
  <2>3. z[k].labels["name"] = k[2]
    BY <2>1, <2>2 DEF JoinLabels
  <2> QED
    BY <2>1, <2>3 DEF Blocked
<1>15. \A n : n \in {l.name : l \in {e.labels : e \in CannotBeEvicted(db)}} <=>
           \E x \in J : x.value = 1 /\ n = x.labels.name
  BY <1>7 DEF Where
<1>16. \A n : n \in {k[2] : k \in Unmovable} <=> \E k \in R : Blocked(k) = 1 /\ n = k[2]
  BY <1>9
<1>17. ASSUME NEW x \in J, x.value = 1 PROVE x.labels.name \in {k[2] : k \in Unmovable}
  <2>1. PICK k \in R : x = z[k]
    BY <1>13
  <2>2. x.labels.name = k[2] /\ Blocked(k) = 1
    BY <1>14, <1>17, <2>1
  <2> QED
    BY <1>16, <2>2
<1>18. ASSUME NEW k \in R, Blocked(k) = 1 PROVE k[2] \in {l.name : l \in {e.labels : e \in CannotBeEvicted(db)}}
  <2>1. z[k] \in J /\ z[k].value = 1 /\ k[2] = z[k].labels.name
    BY <1>13, <1>14, <1>18
  <2> QED
    BY <1>15, <2>1
<1>19. \A n : n \in {l.name : l \in {e.labels : e \in CannotBeEvicted(db)}} => n \in {k[2] : k \in Unmovable}
  BY <1>15, <1>17
<1>20. \A n : n \in {k[2] : k \in Unmovable} => n \in {l.name : l \in {e.labels : e \in CannotBeEvicted(db)}}
  BY <1>16, <1>18
<1> QED
  BY <1>19, <1>20

-----------------------------------------------------------------------------
(* VMs that are stuck. *)
Failed == {k \in Existing("vms") : Object("vms", k).status \in StatusGroups.error}
VMsIn(S) == {k \in Existing("vms") : Object("vms", k).status \in S}
Namesake(k) == \E j \in Existing("vmis") : j[2] = k[2]
VMElement(k) == Element(VMLabels(k), 1)
VMIElement(k) == Element(VMILabels(k), 1)

LEMMA VMSelections ==
    ASSUME ClusterOK(cluster), NEW db, All(db, "kubevirt_vm_info") = All(Scrape, "kubevirt_vm_info"),
           NEW S \in SUBSET DOMAIN Lowered
    PROVE  /\ \A e : e \in InStatus(db, {Lowered[s] : s \in S}) <=> \E k \in VMsIn(S) : e = VMElement(k)
           /\ \A e : e \in InError(db) <=> \E k \in Failed : e = VMElement(k)
<1> DEFINE V == Existing("vms")
           T == {Lowered[s] : s \in S}
<1>1. \A e : e \in All(db, "kubevirt_vm_info") <=> \E k \in V : e = VMElement(k)
  BY InstanceSamples DEF VMElement
<1>2. \A k : VMElement(k).labels = VMLabels(k)
  BY ElementFacts DEF VMElement
<1>3. \A k : k \in VMsIn(S) <=> k \in V /\ Object("vms", k).status \in S
  BY DEF VMsIn
<1>4. \A k : k \in Failed <=> k \in V /\ Object("vms", k).status \in StatusGroups.error
  BY DEF Failed
<1>5. \A U, e : e \in InStatus(db, U) <=>
          /\ e \in All(db, "kubevirt_vm_info") /\ "status" \in DOMAIN e.labels
          /\ e.labels["status"] \in U
  BY DEF InStatus, Select
<1>6. \A e : e \in InError(db) <=>
          /\ e \in All(db, "kubevirt_vm_info") /\ "status_group" \in DOMAIN e.labels
          /\ e.labels["status_group"] = "error"
  BY DEF InError, Select
<1>7. \A t : t \in T <=> \E s \in S : t = Lowered[s]
  OBVIOUS
<1> HIDE DEF V, T
<1>8. ASSUME NEW k \in V
      PROVE  /\ ("status" \in DOMAIN VMLabels(k) /\ VMLabels(k)["status"] \in T)
                    <=> Object("vms", k).status \in S
             /\ ("status_group" \in DOMAIN VMLabels(k) /\ VMLabels(k)["status_group"] = "error")
                    <=> Object("vms", k).status \in StatusGroups.error
  <2>1. /\ \A s \in DOMAIN Lowered :
               ("status" \in DOMAIN VMLabels(k) /\ VMLabels(k)["status"] = Lowered[s])
                   <=> Object("vms", k).status = s
        /\ ("status_group" \in DOMAIN VMLabels(k) /\ VMLabels(k)["status_group"] = "error")
               <=> Object("vms", k).status \in StatusGroups.error
    BY VMLabelFacts DEF V
  <2>2. ("status" \in DOMAIN VMLabels(k) /\ VMLabels(k)["status"] \in T) => Object("vms", k).status \in S
    BY <1>7, <2>1
  <2>3. ASSUME Object("vms", k).status \in S
        PROVE  "status" \in DOMAIN VMLabels(k) /\ VMLabels(k)["status"] \in T
    <3>1. PICK s \in S : Object("vms", k).status = s
      BY <2>3
    <3>2. s \in DOMAIN Lowered
      OBVIOUS
    <3>3. "status" \in DOMAIN VMLabels(k) /\ VMLabels(k)["status"] = Lowered[s]
      BY <2>1, <3>1, <3>2
    <3> QED
      BY <1>7, <3>3
  <2> QED
    BY <2>1, <2>2, <2>3
<1>9. \A e : e \in InStatus(db, T) <=> \E k \in VMsIn(S) : e = VMElement(k)
  BY <1>1, <1>2, <1>3, <1>5, <1>8
<1>10. \A e : e \in InError(db) <=> \E k \in Failed : e = VMElement(k)
  BY <1>1, <1>2, <1>4, <1>6, <1>8
<1> QED
  BY <1>9, <1>10 DEF T

(* Elements of VMs are told apart by their labels. *)
LEMMA OrOfVMs ==
    ASSUME NEW v, NEW w, \A e \in v \cup w : \E k : e = VMElement(k)
    PROVE  Or(v, w) = v \cup w
<1>1. \A k : VMElement(k).labels = VMLabels(k) /\ VMElement(k) = Element(VMLabels(k), 1)
  BY ElementFacts DEF VMElement
<1>2. \A e, f \in v \cup w : e.labels = f.labels => e = f
  BY <1>1
<1> QED
  BY <1>2 DEF Or

LEMMA SumByLabels ==
    ASSUME NEW v, NEW names
    PROVE  \A l : l \in {x.labels : x \in SumBy(v, names)} <=> \E e \in v : l = On(e, names)
<1>1. SumBy(v, names) = {Element(g, Total(Part(v, names, g))) : g \in Parts(v, names)}
  BY SumByIs
<1>2. \A g, n : Element(g, n).labels = g
  BY ElementFacts
<1>3. \A l : l \in {x.labels : x \in SumBy(v, names)} <=> l \in Parts(v, names)
  BY <1>1, <1>2
<1> QED
  BY <1>3 DEF Parts

LEMMA OnKeeps ==
    ASSUME NEW e, NEW k, NEW names, NamedAs(e.labels, k), PerVMI \subseteq names
    PROVE  NamedAs(On(e, names), k)
BY DEF NamedAs, On, PerVMI

(* VMs in these states, or in error, that have no instance.                *)
Unhealthy == VMsIn({"Provisioning", "Starting", "Terminating"}) \cup Failed
UnhealthyLabels == {"name", "namespace", "status"}

LEMMA UnhealthyIs ==
    ASSUME ClusterOK(cluster), NEW db, All(db, "kubevirt_vm_info") = All(Scrape, "kubevirt_vm_info"),
           All(db, "kubevirt_vmi_info") = All(Scrape, "kubevirt_vmi_info")
    PROVE  \A n : n \in {l.name : l \in {e.labels : e \in StuckInUnhealthyState(db)}} <=>
               \E k \in Unhealthy : n = k[2] /\ ~Namesake(k)
<1> DEFINE S == {"Provisioning", "Starting", "Terminating"}
           a == InStatus(db, {"provisioning", "starting", "terminating"})
           b == InError(db)
           s == SumBy(a \cup b, UnhealthyLabels)
           w == All(db, "kubevirt_vmi_info")
<1>1. S \in SUBSET DOMAIN Lowered /\ {Lowered[t] : t \in S} = {"provisioning", "starting", "terminating"}
  BY LoweredFacts
<1>2. /\ \A e : e \in a <=> \E k \in VMsIn(S) : e = VMElement(k)
      /\ \A e : e \in b <=> \E k \in Failed : e = VMElement(k)
  <2>1. \A e : e \in InStatus(db, {Lowered[t] : t \in S}) <=> \E k \in VMsIn(S) : e = VMElement(k)
    BY <1>1, VMSelections
  <2>2. \A e : e \in b <=> \E k \in Failed : e = VMElement(k)
    BY <1>1, VMSelections
  <2> QED
    BY <1>1, <2>1, <2>2
<1>3. \A e : e \in w <=> \E k \in Existing("vmis") : e = VMIElement(k)
  BY InstanceSamples DEF VMIElement
<1>4. \A k : k \in Unhealthy <=> k \in VMsIn(S) \/ k \in Failed
  BY DEF Unhealthy
<1> HIDE DEF a, b, w, S
<1>5. \A e : e \in a \cup b <=> \E k \in Unhealthy : e = VMElement(k)
  BY <1>2, <1>4
<1>6. Or(a, b) = a \cup b
  BY <1>5, OrOfVMs
<1>7. StuckInUnhealthyState(db) = UnlessOn(s, w, PerVMI)
  BY <1>6 DEF StuckInUnhealthyState, UnhealthyLabels, a, b, w
<1>8. \A l : l \in {x.labels : x \in s} <=> \E k \in Unhealthy : l = On(VMElement(k), UnhealthyLabels)
  <2>1. \A l : l \in {x.labels : x \in s} <=> \E e \in a \cup b : l = On(e, UnhealthyLabels)
    BY SumByLabels
  <2> HIDE DEF s
  <2> QED
    BY <1>5, <2>1
<1>9. \A k \in Unhealthy : NamedAs(On(VMElement(k), UnhealthyLabels), k)
  <2> SUFFICES ASSUME NEW k \in Unhealthy PROVE NamedAs(On(VMElement(k), UnhealthyLabels), k)
    OBVIOUS
  <2>1. k \in Existing("vms")
    BY DEF Unhealthy, VMsIn, Failed
  <2>2. NamedAs(VMElement(k).labels, k)
    BY <2>1, VMLabelFacts, ElementFacts DEF VMElement
  <2>3. PerVMI \subseteq UnhealthyLabels
    BY DEF PerVMI, UnhealthyLabels
  <2> QED
    BY <2>2, <2>3, OnKeeps
<1>10. \A j \in Existing("vmis") : NamedAs(VMIElement(j).labels, j)
  <2>1. \A j : VMIElement(j).labels = VMILabels(j)
    BY ElementFacts DEF VMIElement
  <2> QED
    BY <2>1, VMILabelFacts
<1> HIDE DEF s
<1>11. \A x : x \in UnlessOn(s, w, PerVMI) <=> x \in s /\ \A f \in w : On(x, PerVMI) # On(f, PerVMI)
  BY DEF UnlessOn, AndOn
<1>12. ASSUME NEW x, NEW k, NamedAs(x.labels, k)
       PROVE  (\A f \in w : On(x, PerVMI) # On(f, PerVMI)) <=> ~Namesake(k)
  <2>1. \A j \in Existing("vmis") : On(x, PerVMI) = On(VMIElement(j), PerVMI) <=> k[2] = j[2]
    BY <1>10, <1>12, OnPerVMI
  <2> QED
    BY <1>3, <2>1 DEF Namesake
<1>13. \A l, k : NamedAs(l, k) => l.name = k[2]
  BY DEF NamedAs
<1>14. ASSUME NEW x \in s
       PROVE  \E k \in Unhealthy : NamedAs(x.labels, k)
  BY <1>8, <1>9
<1>15. ASSUME NEW k \in Unhealthy
       PROVE  \E x \in s : NamedAs(x.labels, k)
  <2>1. On(VMElement(k), UnhealthyLabels) \in {x.labels : x \in s}
    BY <1>8
  <2>2. PICK x \in s : x.labels = On(VMElement(k), UnhealthyLabels)
    BY <2>1
  <2> QED
    BY <1>9, <2>2
<1>16. ASSUME NEW x \in StuckInUnhealthyState(db)
       PROVE  \E k \in Unhealthy : x.labels.name = k[2] /\ ~Namesake(k)
  <2>1. x \in s /\ \A f \in w : On(x, PerVMI) # On(f, PerVMI)
    BY <1>7, <1>11
  <2>2. PICK k \in Unhealthy : NamedAs(x.labels, k)
    BY <1>14, <2>1
  <2> QED
    BY <1>12, <1>13, <2>1, <2>2
<1>17. ASSUME NEW k \in Unhealthy, ~Namesake(k)
       PROVE  \E x \in StuckInUnhealthyState(db) : x.labels.name = k[2]
  <2>1. PICK x \in s : NamedAs(x.labels, k)
    BY <1>15
  <2>2. x \in StuckInUnhealthyState(db)
    BY <1>7, <1>11, <1>12, <1>17, <2>1
  <2> QED
    BY <1>13, <2>1, <2>2
<1>18. \A n : n \in {l.name : l \in {e.labels : e \in StuckInUnhealthyState(db)}} <=>
           \E x \in StuckInUnhealthyState(db) : n = x.labels.name
  OBVIOUS
<1> QED
  BY <1>16, <1>17, <1>18

(* VMs in these states, or in error, that have an instance.                *)
Moving == {"Starting", "Stopping", "Terminating"}
Placed == {k \in Existing("vms") \cap Existing("vmis") : k \in VMsIn(Moving) \/ k \in Failed}
PlacedLabels == {"name", "namespace", "status", "node"}
Placement(k) == Join(VMElement(k), VMIElement(k), {"node"})

LEMMA StuckOnNodeIs ==
    ASSUME ClusterOK(cluster), UniqueNames(Existing("vms") \cup Existing("vmis")), NEW db,
           All(db, "kubevirt_vm_info") = All(Scrape, "kubevirt_vm_info"),
           All(db, "kubevirt_vmi_info") = All(Scrape, "kubevirt_vmi_info")
    PROVE  \A l : l \in {e.labels : e \in StuckOnNode(db)} <=>
               \E k \in Placed : l = On(Placement(k), PlacedLabels)
<1> DEFINE V == Existing("vms")
           I == Existing("vmis")
           a == InStatus(db, {"starting", "stopping", "terminating"})
           b == InError(db)
           w == All(db, "kubevirt_vmi_info")
           c == AndOn(b, w, PerVMI)
           J == Joins(a \cup c, w, PerVMI, {"node"})
<1>1. Moving \in SUBSET DOMAIN Lowered /\ {Lowered[t] : t \in Moving} = {"starting", "stopping", "terminating"}
  BY LoweredFacts DEF Moving
<1>2. /\ \A e : e \in a <=> \E k \in VMsIn(Moving) : e = VMElement(k)
      /\ \A e : e \in b <=> \E k \in Failed : e = VMElement(k)
  <2>1. \A e : e \in InStatus(db, {Lowered[t] : t \in Moving}) <=> \E k \in VMsIn(Moving) : e = VMElement(k)
    BY <1>1, VMSelections
  <2>2. \A e : e \in b <=> \E k \in Failed : e = VMElement(k)
    BY <1>1, VMSelections
  <2> QED
    BY <1>1, <2>1, <2>2
<1>3. \A e : e \in w <=> \E k \in I : e = VMIElement(k)
  BY InstanceSamples DEF VMIElement
<1>4. \A k : /\ k \in VMsIn(Moving) \/ k \in Failed => k \in V
             /\ k \in Placed <=> k \in I /\ (k \in VMsIn(Moving) \/ k \in Failed)
  BY DEF Placed, VMsIn, Failed
<1>5. /\ \A k \in V : NamedAs(VMElement(k).labels, k)
      /\ \A k \in I : NamedAs(VMIElement(k).labels, k)
  <2>1. \A k : VMElement(k).labels = VMLabels(k) /\ VMIElement(k).labels = VMILabels(k)
    BY ElementFacts DEF VMElement, VMIElement
  <2> QED
    BY <2>1, VMLabelFacts, VMILabelFacts
<1>6. \A j, k \in V \cup I : j[2] = k[2] => j = k
  BY DEF UniqueNames
<1>7. \A e : e \in c <=> e \in b /\ \E f \in w : On(e, PerVMI) = On(f, PerVMI)
  BY DEF AndOn
<1> HIDE DEF a, b, w, c, V, I
<1>8. \A j \in V : \A k \in I : On(VMElement(j), PerVMI) = On(VMIElement(k), PerVMI) <=> j = k
  <2> SUFFICES ASSUME NEW j \in V, NEW k \in I
               PROVE  On(VMElement(j), PerVMI) = On(VMIElement(k), PerVMI) <=> j = k
    OBVIOUS
  <2>1. On(VMElement(j), PerVMI) = On(VMIElement(k), PerVMI) <=> j[2] = k[2]
    BY <1>5, OnPerVMI
  <2> QED
    BY <1>6, <2>1
<1>9. ~Ambiguous(w, PerVMI)
  <2>1. \A j, k \in I : On(VMIElement(j), PerVMI) = On(VMIElement(k), PerVMI) => j = k
    <3> SUFFICES ASSUME NEW j \in I, NEW k \in I, On(VMIElement(j), PerVMI) = On(VMIElement(k), PerVMI)
                 PROVE  j = k
      OBVIOUS
    <3>1. j[2] = k[2]
      BY <1>5, OnPerVMI
    <3> QED
      BY <1>6, <3>1
  <2> QED
    BY <1>3, <2>1 DEF Ambiguous
<1>10. \A e \in a \cup c : \E k \in V : e = VMElement(k)
  BY <1>2, <1>4, <1>7
<1>11. Or(a, c) = a \cup c
  BY <1>10, OrOfVMs
<1>12. StuckOnNode(db) = SumBy(J, PlacedLabels)
  BY <1>11 DEF StuckOnNode, PlacedLabels, Joins, a, b, c, w
<1>13. \A x : x \in J <=> \E e \in a \cup c : \E f \in w : On(e, PerVMI) = On(f, PerVMI) /\ x = Join(e, f, {"node"})
  BY <1>9, JoinsAre
<1> HIDE DEF J
<1>14. ASSUME NEW x \in J PROVE \E k \in Placed : x = Placement(k)
  <2>1. PICK e \in a \cup c, f \in w : On(e, PerVMI) = On(f, PerVMI) /\ x = Join(e, f, {"node"})
    BY <1>13
  <2>2. PICK j : (j \in VMsIn(Moving) \/ j \in Failed) /\ e = VMElement(j)
    BY <1>2, <1>7, <2>1
  <2>3. PICK k \in I : f = VMIElement(k)
    BY <1>3, <2>1
  <2>4. j = k
    BY <1>4, <1>8, <2>1, <2>2, <2>3
  <2>5. k \in Placed
    BY <1>4, <2>2, <2>4
  <2>6. x = Placement(k)
    BY <2>1, <2>2, <2>3, <2>4 DEF Placement
  <2> QED
    BY <2>5, <2>6
<1>15. ASSUME NEW k \in Placed PROVE Placement(k) \in J
  <2>1. k \in I /\ k \in V /\ (k \in VMsIn(Moving) \/ k \in Failed)
    BY <1>4
  <2>2. VMIElement(k) \in w /\ On(VMElement(k), PerVMI) = On(VMIElement(k), PerVMI)
    BY <1>3, <1>8, <2>1
  <2>3. VMElement(k) \in a \cup c
    BY <1>2, <1>7, <2>1, <2>2
  <2> QED
    BY <1>13, <2>2, <2>3 DEF Placement
<1>16. \A l : l \in {e.labels : e \in SumBy(J, PlacedLabels)} <=> \E x \in J : l = On(x, PlacedLabels)
  BY SumByLabels
<1>17. ASSUME NEW l, l \in {e.labels : e \in StuckOnNode(db)}
       PROVE  \E k \in Placed : l = On(Placement(k), PlacedLabels)
  <2>1. PICK x \in J : l = On(x, PlacedLabels)
    BY <1>12, <1>16, <1>17
  <2> QED
    BY <1>14, <2>1
<1>18. ASSUME NEW k \in Placed
       PROVE  On(Placement(k), PlacedLabels) \in {e.labels : e \in StuckOnNode(db)}
  BY <1>12, <1>15, <1>16
<1> QED
  BY <1>17, <1>18

(* The alert names the VM and, if there is one, the node of its instance.  *)
LEMMA PlacementLabels ==
    ASSUME ClusterOK(cluster), NEW k \in Existing("vms") \cap Existing("vmis")
    PROVE  LET l == On(Placement(k), PlacedLabels)
           IN  /\ l.name = k[2]
               /\ On(Element(l, 1), {"name", "node"}) = NonEmpty([name |-> k[2], node |-> Object("vmis", k).node])
<1> DEFINE e == VMElement(k)
           f == VMIElement(k)
           p == Placement(k)
           l == On(p, PlacedLabels)
           n == Object("vmis", k).node
           g == [name |-> k[2], node |-> n]
<1>1. e.labels = VMLabels(k) /\ f.labels = VMILabels(k)
  BY ElementFacts DEF VMElement, VMIElement
<1>2. "name" \in DOMAIN VMLabels(k) /\ VMLabels(k)["name"] = k[2] /\ "node" \notin DOMAIN VMLabels(k)
  BY VMLabelFacts DEF NamedAs
<1>3. "node" \in DOMAIN VMILabels(k) <=> n # ""
  BY VMILabelFacts
<1>4. "node" \in DOMAIN VMILabels(k) => VMILabels(k)["node"] = n
  BY VMILabelFacts
<1>5. k[2] # ""
  BY ObjectFacts DEF ClusterKinds, WellFormed
<1>6. p.labels = JoinLabels(e, f, {"node"})
  BY JoinFacts DEF Placement
<1>7. /\ DOMAIN g = {"name", "node"} /\ g["name"] = k[2] /\ g["node"] = n
  OBVIOUS
<1> HIDE DEF e, f, p, n, g
<1>8. /\ "name" \in DOMAIN p.labels /\ p.labels["name"] = k[2]
      /\ "node" \in DOMAIN p.labels <=> n # ""
      /\ "node" \in DOMAIN p.labels => p.labels["node"] = n
  BY <1>1, <1>2, <1>3, <1>4, <1>6 DEF JoinLabels
<1>9. /\ "name" \in DOMAIN l /\ l["name"] = k[2]
      /\ "node" \in DOMAIN l <=> n # ""
      /\ "node" \in DOMAIN l => l["node"] = n
  BY <1>8 DEF On, PlacedLabels
<1> HIDE DEF l
<1>10. Element(l, 1).labels = l
  BY ElementFacts
<1>11. On(Element(l, 1), {"name", "node"}) = [m \in {"name", "node"} \cap DOMAIN l |-> l[m]]
  BY <1>10 DEF On
<1>12. NonEmpty(g) = [m \in {x \in DOMAIN g : g[x] # ""} |-> g[m]]
  BY DEF NonEmpty
<1>13. {"name", "node"} \cap DOMAIN l = {x \in DOMAIN g : g[x] # ""}
  BY <1>5, <1>7, <1>9
<1>14. \A m \in {"name", "node"} \cap DOMAIN l : l[m] = g[m]
  BY <1>7, <1>9
<1>15. On(Element(l, 1), {"name", "node"}) = NonEmpty(g)
  BY <1>11, <1>12, <1>13, <1>14
<1> QED
  BY <1>9, <1>15 DEF l, p, g, n

(* For every cluster whose VMIs have different names, VMCannotBeEvicted    *)
(* fires for the running VMIs that cannot be migrated although they are to *)
(* be, and for no other.                                                   *)
THEOREM EvictionAlertCorrect == Spec => []EvictionAlertExact
<1>1. IInv => EvictionAlertExact
  <2> SUFFICES ASSUME IInv, Settled, UniqueNames(Existing("vmis")) PROVE EvictionAlertExact
    BY DEF EvictionAlertExact
  <2> DEFINE db == Extend(Scrape, recorded)
  <2>1. ClusterOK(cluster) /\ ScrapeOK(Scrape)
    BY ScrapeIsOK DEF IInv, ClusterInv
  <2>2. firing = Expressed(db)
    BY DEF IInv, SettledInv, Settled
  <2>3. Sound(db, Scrape)
    BY <2>1, ExtendFacts DEF IInv, ShapeInv
  <2> HIDE DEF db
  <2>4. \A m \in Inputs : All(db, m) = All(Scrape, m)
    BY <2>3, InputsAreNoRules DEF Sound
  <2>5. \A a \in AlertNames : firing[a] = {e.labels : e \in AlertExpr(a, db)}
    BY <2>2 DEF Expressed
  <2>6. firing["VMCannotBeEvicted"] = {e.labels : e \in CannotBeEvicted(db)}
    BY <2>5 DEF AlertNames, AlertExpr
  <2>7. /\ All(db, "kubevirt_vmi_info") = All(Scrape, "kubevirt_vmi_info")
        /\ All(db, "kubevirt_vmi_non_evictable") = All(Scrape, "kubevirt_vmi_non_evictable")
    BY <2>4 DEF Inputs
  <2>8. {l.name : l \in {e.labels : e \in CannotBeEvicted(db)}} = {k[2] : k \in Unmovable}
    BY <2>1, <2>7, EvictionIs
  <2> QED
    BY <2>6, <2>8 DEF EvictionAlertExact, Unmovable
<1> QED
  BY <1>1, Invariance, PTL

(* For every cluster whose VMs and VMIs have different names, a stuck VM   *)
(* raises exactly one of the two alerts, with the node of its instance if  *)
(* it has one, and no VM, stuck or not, raises both.                       *)
THEOREM StuckVMsCorrect == Spec => []StuckVMsAlertedOnce
<1>1. IInv => StuckVMsAlertedOnce
  <2> SUFFICES ASSUME IInv, Settled, UniqueNames(Existing("vms") \cup Existing("vmis"))
               PROVE  StuckVMsAlertedOnce
    BY DEF StuckVMsAlertedOnce
  <2> DEFINE db == Extend(Scrape, recorded)
             stuck == {k \in Existing("vms") :
                          LET status == Object("vms", k).status
                          IN  status \in {"Starting", "Terminating"} \cup StatusGroups.error}
             Idle == firing["VirtualMachineStuckInUnhealthyState"]
             OnSome == firing["VirtualMachineStuckOnNode"]
             IdleNames == {l.name : l \in Idle}
             OnSomeNames == {l.name : l \in OnSome}
             at(k) == NonEmpty([name |-> k[2], node |-> Object("vmis", k).node])
             LabelsOf(k) == On(Placement(k), PlacedLabels)
  <2>1. ClusterOK(cluster) /\ ScrapeOK(Scrape)
    BY ScrapeIsOK DEF IInv, ClusterInv
  <2>2. firing = Expressed(db)
    BY DEF IInv, SettledInv, Settled
  <2>3. Sound(db, Scrape)
    BY <2>1, ExtendFacts DEF IInv, ShapeInv
  <2> HIDE DEF db
  <2>4. \A m \in Inputs : All(db, m) = All(Scrape, m)
    BY <2>3, InputsAreNoRules DEF Sound
  <2>5. \A a \in AlertNames : firing[a] = {e.labels : e \in AlertExpr(a, db)}
    BY <2>2 DEF Expressed
  <2>6. /\ Idle = {e.labels : e \in StuckInUnhealthyState(db)}
        /\ OnSome = {e.labels : e \in StuckOnNode(db)}
    BY <2>5 DEF AlertNames, AlertExpr
  <2>7. /\ All(db, "kubevirt_vm_info") = All(Scrape, "kubevirt_vm_info")
        /\ All(db, "kubevirt_vmi_info") = All(Scrape, "kubevirt_vmi_info")
    BY <2>4 DEF Inputs
  <2>8. \A n : n \in IdleNames <=> \E k \in Unhealthy : n = k[2] /\ ~Namesake(k)
    BY <2>1, <2>6, <2>7, UnhealthyIs
  <2>9. \A l : l \in OnSome <=> \E k \in Placed : l = LabelsOf(k)
    BY <2>1, <2>6, <2>7, StuckOnNodeIs
  <2>10. \A k \in Placed : k \in Existing("vms") /\ k \in Existing("vmis")
    BY DEF Placed
  <2>11. \A k \in Placed : LabelsOf(k).name = k[2] /\ On(Element(LabelsOf(k), 1), {"name", "node"}) = at(k)
    BY <2>1, <2>10, PlacementLabels
  <2>12. \A k \in Unhealthy : k \in Existing("vms")
    BY DEF Unhealthy, VMsIn, Failed
  <2>13. \A j, k \in Existing("vms") \cup Existing("vmis") : j[2] = k[2] => j = k
    BY DEF UniqueNames
  <2>14. \A k \in stuck : /\ k \in Existing("vms") /\ k \in Unhealthy
                          /\ k \in Existing("vmis") => k \in Placed
    BY DEF Unhealthy, Placed, VMsIn, Failed, Moving
  <2>15. \A n : n \in OnSomeNames <=> \E l \in OnSome : n = l.name
    OBVIOUS
  <2> HIDE DEF stuck, Idle, OnSome, IdleNames, OnSomeNames, at, LabelsOf
  <2>16. \A n : n \in OnSomeNames <=> \E k \in Placed : n = k[2]
    BY <2>9, <2>11, <2>15
  <2>17. ASSUME NEW k \in stuck, k \in Existing("vmis")
         PROVE  k[2] \notin IdleNames /\ \E l \in OnSome : On(Element(l, 1), {"name", "node"}) = at(k)
    <3>1. k[2] \notin IdleNames
      <4>1. \A j \in Unhealthy : j[2] = k[2] => Namesake(j)
        BY <2>17 DEF Namesake
      <4> QED
        BY <2>8, <4>1
    <3>2. LabelsOf(k) \in OnSome /\ On(Element(LabelsOf(k), 1), {"name", "node"}) = at(k)
      BY <2>9, <2>11, <2>14, <2>17
    <3> QED
      BY <3>1, <3>2
  <2>18. ASSUME NEW k \in stuck, k \notin Existing("vmis")
         PROVE  k[2] \in IdleNames /\ k[2] \notin OnSomeNames
    <3>1. \A j \in Existing("vmis") : j[2] # k[2]
      BY <2>13, <2>14, <2>18
    <3>2. k[2] \in IdleNames
      BY <2>8, <2>14, <3>1 DEF Namesake
    <3>3. k[2] \notin OnSomeNames
      BY <2>10, <2>16, <3>1
    <3> QED
      BY <3>2, <3>3
  <2>19. IdleNames \cap OnSomeNames = {}
    <3> SUFFICES ASSUME NEW n, n \in IdleNames, n \in OnSomeNames PROVE FALSE
      OBVIOUS
    <3>1. PICK j \in Unhealthy : n = j[2] /\ ~Namesake(j)
      BY <2>8
    <3>2. PICK k \in Placed : n = k[2]
      BY <2>16
    <3> QED
      BY <2>10, <3>1, <3>2 DEF Namesake
  <2>20. \A k \in stuck : IF k \in Existing("vmis")
             THEN k[2] \notin IdleNames /\ \E l \in OnSome : On(Element(l, 1), {"name", "node"}) = at(k)
             ELSE k[2] \in IdleNames /\ k[2] \notin OnSomeNames
    BY <2>17, <2>18
  <2> QED
    BY <2>19, <2>20 DEF StuckVMsAlertedOnce, stuck, Idle, OnSome, IdleNames, OnSomeNames, at
<1> QED
  BY <1>1, Invariance, PTL
=============================================================================
