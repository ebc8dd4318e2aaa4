---------------------------- MODULE ScrapeProofs ----------------------------
(***************************************************************************)
(* Theorems about Scrape. A scrape is followed call by call: which calls   *)
(* are still to be made, and which call each sample comes from. What a     *)
(* call reports is taken from CollectorProofs.                             *)
(***************************************************************************)
EXTENDS Scrape, CollectorProofs

(* A collector has listed its objects, and made this call. *)
Listed(c) == Call("list", <<>>) \notin ToSet(c.calls)
Made(c, do, k) == Listed(c) /\ Call(do, k) \notin ToSet(c.calls)

(* Once a collector has listed its objects, the calls that are left are    *)
(* different, and each is about an object that was listed.                 *)
CollectorOK(c, kind, dos) ==
    /\ DOMAIN c = {"listed", "calls"}
    /\ IsSeq(c.calls) /\ IsInjective(c.calls)
    /\ \/ c \in {Idle, Started}
       \/ /\ StoreOK(kind, c.listed)
          /\ \A x \in ToSet(c.calls) : \E do \in dos : \E k \in Existing(c.listed) : x = Call(do, k)

CollectorsOK ==
    /\ CollectorOK(vm, "vms", {"disks", "info", "reports"})
    /\ CollectorOK(vmi, "vmis", {"info", "reports"})
    /\ ~running => vm = Idle /\ vmi = Idle
    /\ DOMAIN stores = Kinds
    /\ OnePodPerNode(stores.pods)

(* Each sample has one origin: a call that was made, or a collector that   *)
(* has reported.                                                           *)
VMMetrics == [disks |-> {"kubevirt_vm_disk_allocated_size_bytes"}, info |-> {"kubevirt_vm_info"}, reports |-> VMReportMetrics]
VMIMetrics == [info |-> {"kubevirt_vmi_info"}, reports |-> VMIReportMetrics]
Of(s, c, metrics) ==
    \E do \in DOMAIN metrics :
        /\ s.metric \in metrics[do]
        /\ Made(c, do, s.labels.key)
        /\ running => s.labels.key \in Existing(c.listed)
Origin(s) ==
    \/ Of(s, vm, VMMetrics)
    \/ Of(s, vmi, VMIMetrics)
    \/ s.metric \in MigrationMetrics /\ "migrations" \in reported
    \/ s.metric \in StatisticsMetrics /\ "statistics" \in reported
Origins == \A s \in samples : Origin(s)

(* Only statistics have base labels, and those of a key are the same. *)
Based(s) == "base" \in DOMAIN s.labels
BasesAgree ==
    /\ \A s \in samples : Based(s) => s.metric \in StatisticsMetrics
    /\ \A s, t \in samples : Based(s) /\ Based(t) /\ s.labels.base.key = t.labels.base.key
                               => s.labels.base = t.labels.base

(* What the samples say of the VMs that were listed. *)
ListedVM(k) == Value(vm.listed[k])
FactMetrics == ResourceMetrics \cup TimestampMetrics
Facts(k, o) == ToSet(CollectResourceRequestsAndLimits(k, o)) \cup ToSet(reportVMTimestamps(k, o))
VMsTold ==
    running /\ Listed(vm) =>
        \A k \in Existing(vm.listed) :
            /\ \A s \in samples : s.metric = "kubevirt_vm_info" /\ s.labels.key = k =>
                  s.labels.group = GetVMStatusGroup(ListedVM(k).status)
            /\ Call("reports", k) \notin ToSet(vm.calls) =>
                  {s \in samples : s.metric \in FactMetrics /\ s.labels.key = k} = Facts(k, ListedVM(k))

IInv == /\ TypeOK
        /\ CollectorsOK
        /\ Origins
        /\ NoDuplicateSamples
        /\ BasesAgree

-----------------------------------------------------------------------------
(* What is stored, and calls. *)
LEMMA CallFacts ==
    /\ \A do, k : Call(do, k).do = do /\ Call(do, k).key = k
    /\ \A do, k, e, q : Call(do, k) = Call(e, q) => do = e /\ k = q
BY DEF Call

LEMMA StoreFacts ==
    ASSUME NEW kind \in Kinds, NEW store, StoreOK(kind, store)
    PROVE  /\ DOMAIN store = DOMAIN Contents[kind]
           /\ IsFiniteSet(Existing(store))
           /\ \A k \in Existing(store) :
                 /\ k \in DOMAIN Contents[kind]
                 /\ Value(store[k]) \in Contents[kind][k]
                 /\ store[k] = {Value(store[k])}
<1>1. DOMAIN store = DOMAIN Contents[kind]
  BY DEF StoreOK
<1>2. IsFiniteSet(DOMAIN store) /\ Existing(store) \subseteq DOMAIN store
  BY <1>1, ScrapeAssumption DEF Existing
<1>3. IsFiniteSet(Existing(store))
  BY <1>2, FS_Subset
<1>4. ASSUME NEW k \in Existing(store)
      PROVE  /\ k \in DOMAIN Contents[kind]
             /\ Value(store[k]) \in Contents[kind][k]
             /\ store[k] = {Value(store[k])}
  <2>1. k \in DOMAIN store /\ store[k] # {}
    BY DEF Existing
  <2>2. PICK c \in Contents[kind][k] : store[k] = {c}
    BY <2>1 DEF StoreOK
  <2>3. Value(store[k]) \in store[k]
    BY <2>1, ValueFacts
  <2>4. Value(store[k]) = c
    BY <2>2, <2>3
  <2> QED
    BY <1>1, <2>1, <2>2, <2>4
<1> QED
  BY <1>1, <1>3, <1>4

LEMMA KindsListed ==
    /\ Kinds = {"vms", "vmis", "pods", "migrations", "pvcs", "types", "statistics"}
    /\ Contents["vms"] = VMs /\ Contents["vmis"] = VMIs /\ Contents["pods"] = Pods
    /\ Contents["migrations"] = Migrations /\ Contents["statistics"] = Statistics
BY DEF Kinds, Contents

LEMMA VMsOK ==
    ASSUME NEW store, StoreOK("vms", store), NEW k \in Existing(store)
    PROVE  VMOK(Value(store[k]))
<1>1. k \in DOMAIN VMs /\ Value(store[k]) \in VMs[k]
  BY StoreFacts, KindsListed
<1> QED
  BY <1>1, ObjectsAssumption DEF VMOK

LEMMA VMIsOK ==
    ASSUME NEW store, StoreOK("vmis", store), NEW k \in Existing(store)
    PROVE  VMIOK(Value(store[k]))
<1>1. k \in DOMAIN VMIs /\ Value(store[k]) \in VMIs[k]
  BY StoreFacts, KindsListed
<1> QED
  BY <1>1, ObjectsAssumption DEF VMIOK

LEMMA EntriesOK ==
    ASSUME NEW store, StoreOK("statistics", store), NEW k \in Existing(store)
    PROVE  StatsOK(Value(store[k]).stats)
<1>1. k \in DOMAIN Statistics /\ Value(store[k]) \in Statistics[k]
  BY StoreFacts, KindsListed
<1> QED
  BY <1>1, StatisticsAssumption

(* The calls of a pass over the listed objects. *)
Pass(keys, do) == [i \in DOMAIN keys |-> Call(do, keys[i])]

LEMMA PassFacts ==
    ASSUME NEW keys, IsSeq(keys), IsInjective(keys), NEW do
    PROVE  /\ IsSeq(Pass(keys, do)) /\ IsInjective(Pass(keys, do))
           /\ \A x : x \in ToSet(Pass(keys, do)) <=> \E k \in ToSet(keys) : x = Call(do, k)
<1> DEFINE p == Pass(keys, do)
<1>1. p = [i \in DOMAIN keys |-> p[i]]
  BY DEF Pass
<1>2. \A i \in DOMAIN keys : p[i] = Call(do, keys[i])
  BY DEF Pass
<1> HIDE DEF p
<1>3. IsSeq(p) /\ DOMAIN p = DOMAIN keys
  BY <1>1, MapIsSeq
<1>4. IsInjective(p)
  BY <1>2, <1>3, CallFacts DEF IsInjective
<1>5. \A x : x \in ToSet(p) <=> \E k \in ToSet(keys) : x = Call(do, k)
  BY <1>2, <1>3 DEF ToSet
<1> QED
  BY <1>3, <1>4, <1>5 DEF p

LEMMA ConcatInjective ==
    ASSUME NEW s, NEW t, IsSeq(s), IsSeq(t), IsInjective(s), IsInjective(t),
           ToSet(s) \cap ToSet(t) = {}
    PROVE  IsSeq(s \o t) /\ IsInjective(s \o t) /\ ToSet(s \o t) = ToSet(s) \cup ToSet(t)
<1> DEFINE u == s \o t
<1>1. IsSeq(u) /\ ToSet(u) = ToSet(s) \cup ToSet(t) /\ Len(u) = Len(s) + Len(t)
      /\ \A i \in 1..Len(u) : u[i] = IF i <= Len(s) THEN s[i] ELSE t[i - Len(s)]
  BY ConcatFacts
<1>2. /\ Len(s) \in Nat /\ DOMAIN s = 1..Len(s)
      /\ Len(t) \in Nat /\ DOMAIN t = 1..Len(t)
      /\ Len(u) \in Nat /\ DOMAIN u = 1..Len(u)
  BY <1>1, SeqFacts
<1> HIDE DEF u
<1>3. ASSUME NEW i \in DOMAIN u, NEW j \in DOMAIN u, u[i] = u[j]
      PROVE  i = j
  <2>1. CASE i <= Len(s) /\ j <= Len(s)
    <3>1. i \in DOMAIN s /\ j \in DOMAIN s /\ u[i] = s[i] /\ u[j] = s[j]
      BY <1>1, <1>2, <2>1
    <3> QED
      BY <1>3, <3>1 DEF IsInjective
  <2>2. CASE i > Len(s) /\ j > Len(s)
    <3>1. /\ i - Len(s) \in DOMAIN t /\ j - Len(s) \in DOMAIN t
          /\ u[i] = t[i - Len(s)] /\ u[j] = t[j - Len(s)]
      BY <1>1, <1>2, <2>2
    <3>2. i - Len(s) = j - Len(s)
      BY <1>3, <3>1 DEF IsInjective
    <3> QED
      BY <1>2, <3>2
  <2>3. CASE i <= Len(s) /\ j > Len(s)
    <3>1. i \in DOMAIN s /\ j - Len(s) \in DOMAIN t /\ u[i] = s[i] /\ u[j] = t[j - Len(s)]
      BY <1>1, <1>2, <2>3
    <3>2. u[i] \in ToSet(s) /\ u[j] \in ToSet(t)
      BY <3>1 DEF ToSet
    <3> QED
      BY <1>3, <3>2
  <2>4. CASE i > Len(s) /\ j <= Len(s)
    <3>1. j \in DOMAIN s /\ i - Len(s) \in DOMAIN t /\ u[j] = s[j] /\ u[i] = t[i - Len(s)]
      BY <1>1, <1>2, <2>4
    <3>2. u[j] \in ToSet(s) /\ u[i] \in ToSet(t)
      BY <3>1 DEF ToSet
    <3> QED
      BY <1>3, <3>2
  <2> QED
    BY <1>2, <2>1, <2>2, <2>3, <2>4
<1>4. IsInjective(u)
  BY <1>3 DEF IsInjective
<1> QED
  BY <1>1, <1>4 DEF u

VMCalls(keys) == Pass(keys, "disks") \o Pass(keys, "info") \o Pass(keys, "reports")

LEMMA VMCallsFacts ==
    ASSUME NEW keys, IsSeq(keys), IsInjective(keys)
    PROVE  /\ IsSeq(VMCalls(keys)) /\ IsInjective(VMCalls(keys))
           /\ \A x \in ToSet(VMCalls(keys)) :
                 \E do \in {"disks", "info", "reports"} : \E k \in ToSet(keys) : x = Call(do, k)
           /\ \A k \in ToSet(keys) : \A do \in {"disks", "info", "reports"} :
                 Call(do, k) \in ToSet(VMCalls(keys))
<1> DEFINE a == Pass(keys, "disks")
           b == Pass(keys, "info")
           c == Pass(keys, "reports")
           p == a \o b
           q == p \o c
<1>1. /\ IsSeq(a) /\ IsInjective(a) /\ \A x : x \in ToSet(a) <=> \E k \in ToSet(keys) : x = Call("disks", k)
      /\ IsSeq(b) /\ IsInjective(b) /\ \A x : x \in ToSet(b) <=> \E k \in ToSet(keys) : x = Call("info", k)
      /\ IsSeq(c) /\ IsInjective(c) /\ \A x : x \in ToSet(c) <=> \E k \in ToSet(keys) : x = Call("reports", k)
  BY PassFacts
<1>2. VMCalls(keys) = q
  BY DEF VMCalls
<1> HIDE DEF a, b, c
<1>3. ToSet(a) \cap ToSet(b) = {}
  BY <1>1, CallFacts
<1>4. IsSeq(p) /\ IsInjective(p) /\ ToSet(p) = ToSet(a) \cup ToSet(b)
  BY <1>1, <1>3, ConcatInjective
<1> HIDE DEF p
<1>5. ToSet(p) \cap ToSet(c) = {}
  BY <1>1, <1>4, CallFacts
<1>6. IsSeq(q) /\ IsInjective(q) /\ ToSet(q) = ToSet(p) \cup ToSet(c)
  BY <1>1, <1>4, <1>5, ConcatInjective
<1> HIDE DEF q
<1>7. \A x \in ToSet(q) :
         \E do \in {"disks", "info", "reports"} : \E k \in ToSet(keys) : x = Call(do, k)
  BY <1>1, <1>4, <1>6
<1>8. \A k \in ToSet(keys) : \A do \in {"disks", "info", "reports"} : Call(do, k) \in ToSet(q)
  BY <1>1, <1>4, <1>6
<1> QED
  BY <1>2, <1>6, <1>7, <1>8

VMICalls(keys) == ForAll(keys, LAMBDA k : <<Call("info", k), Call("reports", k)>>)

LEMMA VMICallsFacts ==
    ASSUME NEW keys, IsSeq(keys), IsInjective(keys)
    PROVE  /\ IsSeq(VMICalls(keys)) /\ IsInjective(VMICalls(keys))
           /\ \A x \in ToSet(VMICalls(keys)) :
                 \E do \in {"info", "reports"} : \E k \in ToSet(keys) : x = Call(do, k)
           /\ \A k \in ToSet(keys) : \A do \in {"info", "reports"} :
                 Call(do, k) \in ToSet(VMICalls(keys))
<1> DEFINE F(i) == <<Call("info", keys[i]), Call("reports", keys[i])>>
           f == [i \in DOMAIN keys |-> F(i)]
           u == FlattenSeq(f)
<1>1. VMICalls(keys) = u
  BY DEF VMICalls, ForAll
<1>2. \A i : /\ IsSeq(F(i)) /\ DOMAIN F(i) = 1..2
             /\ F(i)[1] = Call("info", keys[i]) /\ F(i)[2] = Call("reports", keys[i])
  <2> SUFFICES ASSUME NEW i
               PROVE  /\ IsSeq(F(i)) /\ DOMAIN F(i) = 1..2
                      /\ F(i)[1] = Call("info", keys[i]) /\ F(i)[2] = Call("reports", keys[i])
    OBVIOUS
  <2> DEFINE a == Call("info", keys[i])
             b == Call("reports", keys[i])
  <2> HIDE DEF a, b
  <2>1. <<a, b>>[1] = a /\ <<a, b>>[2] = b /\ <<a, b>> = [j \in 1..2 |-> <<a, b>>[j]]
    OBVIOUS
  <2>2. IsSeq(<<a, b>>) /\ DOMAIN <<a, b>> = 1..2
    BY <2>1, FunctionIsSeq
  <2>3. F(i) = <<a, b>>
    BY DEF a, b
  <2> QED
    BY <2>1, <2>2, <2>3 DEF a, b
<1> HIDE DEF F
<1>3. IsSeq(f) /\ DOMAIN f = DOMAIN keys /\ \A i \in DOMAIN keys : f[i] = F(i)
  BY MapIsSeq
<1> HIDE DEF f
<1>4. AllSeqs(f)
  BY <1>2, <1>3 DEF AllSeqs
<1>5. IsSeq(u) /\ ToSet(u) = UNION {ToSet(f[i]) : i \in DOMAIN f} /\ Places(u, f, Len(f))
  BY <1>4, FlattenFacts
<1> HIDE DEF u
<1>6. DOMAIN f = 1..Len(f)
  BY <1>3, SeqFacts
<1>7. \A a, b \in 1..2 : \A i, j \in DOMAIN f : f[i][a] = f[j][b] => a = b /\ keys[i] = keys[j]
  <2> SUFFICES ASSUME NEW a \in 1..2, NEW b \in 1..2, NEW i \in DOMAIN f, NEW j \in DOMAIN f,
                      f[i][a] = f[j][b]
               PROVE  a = b /\ keys[i] = keys[j]
    OBVIOUS
  <2>1. /\ f[i][1] = Call("info", keys[i]) /\ f[i][2] = Call("reports", keys[i])
        /\ f[j][1] = Call("info", keys[j]) /\ f[j][2] = Call("reports", keys[j])
    BY <1>2, <1>3
  <2>2. (a = 1 \/ a = 2) /\ (b = 1 \/ b = 2)
    OBVIOUS
  <2> QED
    BY <2>1, <2>2, CallFacts
<1>8. ASSUME NEW m \in DOMAIN u, NEW n \in DOMAIN u, u[m] = u[n] PROVE m = n
  <2> SUFFICES ASSUME m # n PROVE FALSE
    OBVIOUS
  <2>1. PICK i, j \in 1..Len(f) : \E a \in DOMAIN f[i], b \in DOMAIN f[j] :
            u[m] = f[i][a] /\ u[n] = f[j][b] /\ (i # j \/ a # b)
    BY <1>5 DEF Places
  <2>2. PICK a \in DOMAIN f[i], b \in DOMAIN f[j] :
            u[m] = f[i][a] /\ u[n] = f[j][b] /\ (i # j \/ a # b)
    BY <2>1
  <2>3. i \in DOMAIN f /\ j \in DOMAIN f /\ a \in 1..2 /\ b \in 1..2
    BY <1>2, <1>3, <1>6
  <2>6. f[i][a] = f[j][b]
    BY <1>8, <2>2
  <2>4. a = b /\ keys[i] = keys[j]
    BY <1>7, <2>3, <2>6
  <2>5. i = j
    BY <1>3, <2>3, <2>4 DEF IsInjective
  <2> QED
    BY <2>2, <2>4, <2>5
<1>9. ASSUME NEW x \in ToSet(u)
      PROVE  \E do \in {"info", "reports"} : \E k \in ToSet(keys) : x = Call(do, k)
  <2>1. PICK i \in DOMAIN keys : x \in ToSet(F(i))
    BY <1>3, <1>5
  <2>2. x = F(i)[1] \/ x = F(i)[2]
    <3>1. \A j \in 1..2 : j = 1 \/ j = 2
      OBVIOUS
    <3> QED
      BY <1>2, <2>1, <3>1 DEF ToSet
  <2>3. keys[i] \in ToSet(keys)
    BY DEF ToSet
  <2> QED
    BY <1>2, <2>2, <2>3
<1>10. ASSUME NEW k \in ToSet(keys)
       PROVE  Call("info", k) \in ToSet(u) /\ Call("reports", k) \in ToSet(u)
  <2>1. PICK i \in DOMAIN keys : k = keys[i]
    BY DEF ToSet
  <2>2. ToSet(f[i]) \subseteq ToSet(u)
    BY <1>3, <1>5, <2>1
  <2>3. 1 \in DOMAIN f[i] /\ 2 \in DOMAIN f[i] /\ f[i][1] = Call("info", k) /\ f[i][2] = Call("reports", k)
    BY <1>2, <1>3, <2>1
  <2> QED
    BY <2>2, <2>3 DEF ToSet
<1> QED
  BY <1>1, <1>5, <1>8, <1>9, <1>10 DEF IsInjective

-----------------------------------------------------------------------------
(* No two families of metrics share one. *)
LEMMA FamiliesDisjoint ==
    /\ {"kubevirt_vm_disk_allocated_size_bytes", "kubevirt_vm_info"} \cap VMReportMetrics = {}
    /\ {"kubevirt_vmi_info"} \cap VMIReportMetrics = {}
    /\ ({"kubevirt_vm_disk_allocated_size_bytes", "kubevirt_vm_info"} \cup VMReportMetrics) \cap ({"kubevirt_vmi_info"} \cup VMIReportMetrics) = {}
    /\ ({"kubevirt_vm_disk_allocated_size_bytes", "kubevirt_vm_info"} \cup VMReportMetrics) \cap MigrationMetrics = {}
    /\ ({"kubevirt_vmi_info"} \cup VMIReportMetrics) \cap MigrationMetrics = {}
    /\ ({"kubevirt_vm_disk_allocated_size_bytes", "kubevirt_vm_info"} \cup VMReportMetrics) \cap StatisticsMetrics = {}
    /\ ({"kubevirt_vmi_info"} \cup VMIReportMetrics) \cap StatisticsMetrics = {}
    /\ MigrationMetrics \cap StatisticsMetrics = {}
    /\ FactMetrics \subseteq VMReportMetrics
<1> DEFINE V == VMReportMetrics
           I == VMIReportMetrics
           M == MigrationMetrics
           S == StatisticsMetrics
<1>1. V = {"kubevirt_vm_resource_requests", "kubevirt_vm_resource_limits", "kubevirt_vm_labels", "kubevirt_vm_starting_status_last_transition_timestamp_seconds",
           "kubevirt_vm_running_status_last_transition_timestamp_seconds", "kubevirt_vm_migrating_status_last_transition_timestamp_seconds", "kubevirt_vm_non_running_status_last_transition_timestamp_seconds",
           "kubevirt_vm_error_status_last_transition_timestamp_seconds", "kubevirt_vm_create_date_timestamp_seconds", "kubevirt_vm_vnic_info"}
  BY TimestampMetricNames DEF VMReportMetrics, ResourceMetrics
<1>2. I = {"kubevirt_vmi_non_evictable", "kubevirt_vmi_status_addresses", "kubevirt_vmi_migration_start_time_seconds",
           "kubevirt_vmi_migration_end_time_seconds", "kubevirt_vmi_vnic_info", "kubevirt_vmi_launcher_memory_overhead_bytes"}
  BY DEF VMIReportMetrics, MigrationTimeMetrics
<1>3. M = {"kubevirt_vmi_migration_succeeded", "kubevirt_vmi_migration_failed", "kubevirt_vmi_migrations_in_pending_phase",
           "kubevirt_vmi_migrations_in_scheduling_phase", "kubevirt_vmi_migrations_in_unset_phase",
           "kubevirt_vmi_migrations_in_running_phase"}
  BY CountsListed DEF MigrationMetrics, CountMetrics
<1>4. FactMetrics \subseteq V
  BY DEF FactMetrics, VMReportMetrics
<1> DEFINE P == {"kubevirt_vm_disk_allocated_size_bytes", "kubevirt_vm_info", "kubevirt_vm_resource_requests", "kubevirt_vm_resource_limits",
                 "kubevirt_vm_labels", "kubevirt_vm_starting_status_last_transition_timestamp_seconds", "kubevirt_vm_running_status_last_transition_timestamp_seconds",
                 "kubevirt_vm_migrating_status_last_transition_timestamp_seconds", "kubevirt_vm_non_running_status_last_transition_timestamp_seconds", "kubevirt_vm_error_status_last_transition_timestamp_seconds",
                 "kubevirt_vm_create_date_timestamp_seconds", "kubevirt_vm_vnic_info"}
           Q == {"kubevirt_vmi_info", "kubevirt_vmi_non_evictable", "kubevirt_vmi_status_addresses", "kubevirt_vmi_migration_start_time_seconds",
                 "kubevirt_vmi_migration_end_time_seconds", "kubevirt_vmi_vnic_info", "kubevirt_vmi_launcher_memory_overhead_bytes"}
<1>5. P = {"kubevirt_vm_disk_allocated_size_bytes", "kubevirt_vm_info"} \cup V /\ Q = {"kubevirt_vmi_info"} \cup I
  BY <1>1, <1>2
<1>6. {"kubevirt_vm_disk_allocated_size_bytes", "kubevirt_vm_info"} \cap V = {} /\ {"kubevirt_vmi_info"} \cap I = {}
  BY <1>1, <1>2
<1>7. P \cap Q = {}
  OBVIOUS
<1>8. P \cap M = {} /\ Q \cap M = {}
  BY <1>3
<1>9. (P \cup Q \cup M) \cap (CPUNames \cup LoadNames \cup VCPUNames) = {}
  BY <1>3 DEF CPUNames, LoadNames, VCPUNames
<1>10. (P \cup Q \cup M) \cap MemoryNames = {}
  BY <1>3 DEF MemoryNames
<1>11. (P \cup Q \cup M) \cap NetworkNames = {}
  BY <1>3 DEF NetworkNames
<1>12. (P \cup Q \cup M) \cap BlockNames = {}
  BY <1>3 DEF BlockNames
<1>13. (P \cup Q \cup M) \cap ({"kubevirt_vmi_dirty_rate_bytes_per_second"} \cup GuestNames) = {}
  BY <1>3 DEF GuestNames
<1> HIDE DEF P, Q, M
<1>14. (P \cup Q \cup M) \cap S = {}
  BY <1>9, <1>10, <1>11, <1>12, <1>13 DEF StatisticsMetrics
<1> HIDE DEF V, I, S
<1> QED
  BY <1>4, <1>5, <1>6, <1>7, <1>8, <1>14 DEF V, I, S, M

-----------------------------------------------------------------------------
(* What the registry does with new samples. *)
LEMMA Gathered ==
    ASSUME NEW new, Good(new), Gather(new), ~failed,
           \A x \in ToSet(new), s \in samples : Id(x) # Id(s)
    PROVE  failed' = FALSE /\ samples' = samples \cup ToSet(new)
<1>1. Len(new) \in Nat /\ Cardinality({Id(s) : s \in ToSet(new)}) = Len(new)
  BY GoodCount
<1>2. ~(Cardinality({Id(s) : s \in ToSet(new)}) < Len(new))
  BY <1>1
<1>3. {Id(s) : s \in ToSet(new)} \cap {Id(s) : s \in samples} = {}
  OBVIOUS
<1>4. samples' = samples \cup ToSet(new)
  BY DEF Gather
<1>5. failed' = FALSE
  BY <1>2, <1>3 DEF Gather
<1> QED
  BY <1>4, <1>5

LEMMA CollectorFacts ==
    ASSUME NEW c, NEW kind, NEW dos, CollectorOK(c, kind, dos), "list" \notin dos,
           NEW do \in dos, Calls(c, do)
    PROVE  LET k == Head(c.calls).key
               d == Done(c)
           IN  /\ StoreOK(kind, c.listed) /\ k \in Existing(c.listed)
               /\ Head(c.calls) = Call(do, k) /\ Head(c.calls) \in ToSet(c.calls)
               /\ Listed(c) /\ Listed(d)
               /\ d.listed = c.listed
               /\ ToSet(c.calls) = {Call(do, k)} \cup ToSet(d.calls)
               /\ Call(do, k) \notin ToSet(d.calls)
               /\ CollectorOK(d, kind, dos)
<1> DEFINE h == Head(c.calls)
           k == h.key
           d == Done(c)
<1>1. IsSeq(c.calls) /\ c.calls # <<>> /\ IsInjective(c.calls) /\ h.do = do
  BY DEF CollectorOK, Calls
<1>2. /\ IsSeq(Tail(c.calls)) /\ IsInjective(Tail(c.calls)) /\ h \in ToSet(c.calls)
      /\ ToSet(c.calls) = {h} \cup ToSet(Tail(c.calls)) /\ h \notin ToSet(Tail(c.calls))
  BY <1>1, TailFacts
<1>3. d.listed = c.listed /\ d.calls = Tail(c.calls) /\ DOMAIN d = {"listed", "calls"}
  BY DEF Done, CollectorOK
<1> HIDE DEF h, d
<1>4. c # Idle
  BY <1>1 DEF Idle
<1>5. c # Started
  <2> SUFFICES ASSUME c = Started PROVE FALSE
    OBVIOUS
  <2>1. c.calls = <<Call("list", <<>>)>>
    BY DEF Started
  <2>2. ToSet(c.calls) = {Call("list", <<>>)}
    BY <2>1, OneIsSeq
  <2>3. h = Call("list", <<>>)
    BY <1>2, <2>2
  <2> QED
    BY <1>1, <2>3, CallFacts
<1>6. /\ StoreOK(kind, c.listed)
      /\ \A x \in ToSet(c.calls) : \E e \in dos : \E q \in Existing(c.listed) : x = Call(e, q)
  BY <1>4, <1>5 DEF CollectorOK
<1>7. h = Call(do, k) /\ k \in Existing(c.listed)
  <2>1. PICK e \in dos, q \in Existing(c.listed) : h = Call(e, q)
    BY <1>2, <1>6
  <2> QED
    BY <1>1, <2>1, CallFacts
<1>8. Listed(c) /\ Listed(d)
  BY <1>2, <1>3, <1>6, CallFacts DEF Listed
<1>9. CollectorOK(d, kind, dos)
  BY <1>2, <1>3, <1>6 DEF CollectorOK
<1> QED
  BY <1>2, <1>3, <1>6, <1>7, <1>8, <1>9 DEF h, d

LEMMA MetricsDisjoint ==
    /\ \A d, e \in DOMAIN VMMetrics : \A m : m \in VMMetrics[d] /\ m \in VMMetrics[e] => d = e
    /\ \A d, e \in DOMAIN VMIMetrics : \A m : m \in VMIMetrics[d] /\ m \in VMIMetrics[e] => d = e
    /\ \A d \in DOMAIN VMMetrics : \A m \in VMMetrics[d] :
          /\ m \notin MigrationMetrics /\ m \notin StatisticsMetrics
          /\ \A e \in DOMAIN VMIMetrics : m \notin VMIMetrics[e]
    /\ \A e \in DOMAIN VMIMetrics : \A m \in VMIMetrics[e] :
          m \notin MigrationMetrics /\ m \notin StatisticsMetrics
    /\ \A m \in MigrationMetrics : m \notin StatisticsMetrics
<1>1. /\ DOMAIN VMMetrics = {"disks", "info", "reports"}
      /\ VMMetrics["disks"] = {"kubevirt_vm_disk_allocated_size_bytes"} /\ VMMetrics["info"] = {"kubevirt_vm_info"}
      /\ VMMetrics["reports"] = VMReportMetrics
  BY DEF VMMetrics
<1>2. /\ DOMAIN VMIMetrics = {"info", "reports"}
      /\ VMIMetrics["info"] = {"kubevirt_vmi_info"} /\ VMIMetrics["reports"] = VMIReportMetrics
  BY DEF VMIMetrics
<1>3. \A d, e \in DOMAIN VMMetrics : \A m : m \in VMMetrics[d] /\ m \in VMMetrics[e] => d = e
  BY <1>1, FamiliesDisjoint
<1>4. \A d, e \in DOMAIN VMIMetrics : \A m : m \in VMIMetrics[d] /\ m \in VMIMetrics[e] => d = e
  BY <1>2, FamiliesDisjoint
<1>5. \A d \in DOMAIN VMMetrics :
         VMMetrics[d] \subseteq {"kubevirt_vm_disk_allocated_size_bytes", "kubevirt_vm_info"} \cup VMReportMetrics
  BY <1>1
<1>6. \A e \in DOMAIN VMIMetrics : VMIMetrics[e] \subseteq {"kubevirt_vmi_info"} \cup VMIReportMetrics
  BY <1>2
<1>7. \A d \in DOMAIN VMMetrics : \A m \in VMMetrics[d] :
         /\ m \notin MigrationMetrics /\ m \notin StatisticsMetrics
         /\ \A e \in DOMAIN VMIMetrics : m \notin VMIMetrics[e]
  BY <1>5, <1>6, FamiliesDisjoint
<1>8. \A e \in DOMAIN VMIMetrics : \A m \in VMIMetrics[e] :
         m \notin MigrationMetrics /\ m \notin StatisticsMetrics
  BY <1>6, FamiliesDisjoint
<1> QED
  BY <1>3, <1>4, <1>7, <1>8, FamiliesDisjoint

(* A step of a collector: its next call adds samples of the call's object. *)
LEMMA VMStep ==
    ASSUME IInv, NEW do \in {"disks", "info", "reports"}, Calls(vm, do), vm' = Done(vm),
           NEW new, Good(new), From(new, VMMetrics[do], Head(vm.calls).key), Gather(new),
           UNCHANGED <<stores, vmi, reported, running>>
    PROVE  /\ CollectorsOK' /\ Origins' /\ NoDuplicateSamples' /\ BasesAgree'
           /\ running /\ samples' = samples \cup ToSet(new) /\ failed' = FALSE
           /\ \A s \in ToSet(new) : IsSample(s)
<1> DEFINE k == Head(vm.calls).key
<1>1. CollectorOK(vm, "vms", {"disks", "info", "reports"}) /\ "list" \notin {"disks", "info", "reports"}
  BY DEF IInv, CollectorsOK
<1>2. /\ k \in Existing(vm.listed) /\ Call(do, k) \in ToSet(vm.calls)
      /\ Listed(vm) /\ Listed(vm') /\ vm'.listed = vm.listed
      /\ ToSet(vm.calls) = {Call(do, k)} \cup ToSet(vm'.calls)
      /\ Call(do, k) \notin ToSet(vm'.calls)
      /\ CollectorOK(vm', "vms", {"disks", "info", "reports"})
  <2> DEFINE D == {"disks", "info", "reports"}
             d == Done(vm)
  <2>1. CollectorOK(vm, "vms", D) /\ "list" \notin D /\ do \in D
    BY <1>1
  <2> HIDE DEF D
  <2>2. /\ k \in Existing(vm.listed) /\ Call(do, k) \in ToSet(vm.calls)
        /\ Listed(vm) /\ Listed(d) /\ d.listed = vm.listed
        /\ ToSet(vm.calls) = {Call(do, k)} \cup ToSet(d.calls)
        /\ Call(do, k) \notin ToSet(d.calls)
        /\ CollectorOK(d, "vms", D)
    BY <2>1, CollectorFacts
  <2>3. vm' = d
    OBVIOUS
  <2> HIDE DEF d
  <2> QED
    BY <2>2, <2>3 DEF D
<1>3. running
  <2> SUFFICES ASSUME ~running PROVE FALSE
    OBVIOUS
  <2>1. vm.calls = <<>>
    BY DEF IInv, CollectorsOK, Idle
  <2> QED
    BY <2>1 DEF Calls
<1>4. do \in DOMAIN VMMetrics
  BY DEF VMMetrics
<1>5. From(new, VMMetrics[do], k)
  OBVIOUS
<1> HIDE DEF k
<1>6. ASSUME NEW x \in ToSet(new), NEW s \in samples, Id(x) = Id(s) PROVE FALSE
  <2>1. s.metric \in VMMetrics[do] /\ s.labels.key = k
    BY <1>5, <1>6, IdFacts DEF From
  <2>2. Origin(s)
    BY DEF IInv, Origins
  <2>3. Of(s, vm, VMMetrics)
    BY <1>4, <2>1, <2>2, MetricsDisjoint DEF Origin, Of
  <2>4. PICK d \in DOMAIN VMMetrics : s.metric \in VMMetrics[d] /\ Made(vm, d, s.labels.key)
    BY <2>3 DEF Of
  <2>5. d = do
    BY <1>4, <2>1, <2>4, MetricsDisjoint
  <2> QED
    BY <1>2, <2>1, <2>4, <2>5 DEF Made
<1>7. ~failed
  BY DEF IInv, NoDuplicateSamples
<1>8. failed' = FALSE /\ samples' = samples \cup ToSet(new)
  BY <1>6, <1>7, Gathered
<1>9. ASSUME NEW s \in samples PROVE Origin(s)'
  <2>1. Origin(s)
    BY DEF IInv, Origins
  <2>2. ASSUME Of(s, vm, VMMetrics) PROVE Of(s, vm, VMMetrics)'
    BY <1>2, <2>2 DEF Of, Made
  <2>3. ASSUME Of(s, vmi, VMIMetrics) PROVE Of(s, vmi, VMIMetrics)'
    BY <2>3 DEF Of
  <2> QED
    BY <2>1, <2>2, <2>3 DEF Origin
<1>10. ASSUME NEW s \in ToSet(new) PROVE Origin(s)'
  <2>1. s.metric \in VMMetrics[do] /\ s.labels.key = k
    BY <1>5 DEF From
  <2>2. Of(s, vm, VMMetrics)'
    BY <1>2, <1>4, <2>1 DEF Of, Made
  <2> QED
    BY <2>2 DEF Origin
<1>11. Origins'
  BY <1>8, <1>9, <1>10 DEF Origins
<1>12. CollectorsOK'
  BY <1>2, <1>3 DEF IInv, CollectorsOK
<1>13. \A s \in ToSet(new) : ~Based(s)
  BY <1>5 DEF From, Based
<1>14. BasesAgree'
  BY <1>8, <1>13 DEF IInv, BasesAgree
<1> QED
  BY <1>3, <1>8, <1>11, <1>12, <1>14 DEF NoDuplicateSamples, Good

LEMMA VMIStep ==
    ASSUME IInv, NEW do \in {"info", "reports"}, Calls(vmi, do), vmi' = Done(vmi),
           NEW new, Good(new), From(new, VMIMetrics[do], Head(vmi.calls).key), Gather(new),
           UNCHANGED <<stores, vm, reported, running>>
    PROVE  /\ CollectorsOK' /\ Origins' /\ NoDuplicateSamples' /\ BasesAgree'
           /\ running /\ samples' = samples \cup ToSet(new) /\ failed' = FALSE
           /\ \A s \in ToSet(new) : IsSample(s)
<1> DEFINE k == Head(vmi.calls).key
<1>1. CollectorOK(vmi, "vmis", {"info", "reports"}) /\ "list" \notin {"info", "reports"}
  BY DEF IInv, CollectorsOK
<1>2. /\ k \in Existing(vmi.listed) /\ Call(do, k) \in ToSet(vmi.calls)
      /\ Listed(vmi) /\ Listed(vmi') /\ vmi'.listed = vmi.listed
      /\ ToSet(vmi.calls) = {Call(do, k)} \cup ToSet(vmi'.calls)
      /\ Call(do, k) \notin ToSet(vmi'.calls)
      /\ CollectorOK(vmi', "vmis", {"info", "reports"})
  <2> DEFINE D == {"info", "reports"}
             d == Done(vmi)
  <2>1. CollectorOK(vmi, "vmis", D) /\ "list" \notin D /\ do \in D
    BY <1>1
  <2> HIDE DEF D
  <2>2. /\ k \in Existing(vmi.listed) /\ Call(do, k) \in ToSet(vmi.calls)
        /\ Listed(vmi) /\ Listed(d) /\ d.listed = vmi.listed
        /\ ToSet(vmi.calls) = {Call(do, k)} \cup ToSet(d.calls)
        /\ Call(do, k) \notin ToSet(d.calls)
        /\ CollectorOK(d, "vmis", D)
    BY <2>1, CollectorFacts
  <2>3. vmi' = d
    OBVIOUS
  <2> HIDE DEF d
  <2> QED
    BY <2>2, <2>3 DEF D
<1>3. running
  <2> SUFFICES ASSUME ~running PROVE FALSE
    OBVIOUS
  <2>1. vmi.calls = <<>>
    BY DEF IInv, CollectorsOK, Idle
  <2> QED
    BY <2>1 DEF Calls
<1>4. do \in DOMAIN VMIMetrics
  BY DEF VMIMetrics
<1>5. From(new, VMIMetrics[do], k)
  OBVIOUS
<1> HIDE DEF k
<1>6. ASSUME NEW x \in ToSet(new), NEW s \in samples, Id(x) = Id(s) PROVE FALSE
  <2>1. s.metric \in VMIMetrics[do] /\ s.labels.key = k
    BY <1>5, <1>6, IdFacts DEF From
  <2>2. Origin(s)
    BY DEF IInv, Origins
  <2>3. Of(s, vmi, VMIMetrics)
    BY <1>4, <2>1, <2>2, MetricsDisjoint DEF Origin, Of
  <2>4. PICK d \in DOMAIN VMIMetrics : s.metric \in VMIMetrics[d] /\ Made(vmi, d, s.labels.key)
    BY <2>3 DEF Of
  <2>5. d = do
    BY <1>4, <2>1, <2>4, MetricsDisjoint
  <2> QED
    BY <1>2, <2>1, <2>4, <2>5 DEF Made
<1>7. ~failed
  BY DEF IInv, NoDuplicateSamples
<1>8. failed' = FALSE /\ samples' = samples \cup ToSet(new)
  BY <1>6, <1>7, Gathered
<1>9. ASSUME NEW s \in samples PROVE Origin(s)'
  <2>1. Origin(s)
    BY DEF IInv, Origins
  <2>2. ASSUME Of(s, vmi, VMIMetrics) PROVE Of(s, vmi, VMIMetrics)'
    BY <1>2, <2>2 DEF Of, Made
  <2>3. ASSUME Of(s, vm, VMMetrics) PROVE Of(s, vm, VMMetrics)'
    BY <2>3 DEF Of
  <2> QED
    BY <2>1, <2>2, <2>3 DEF Origin
<1>10. ASSUME NEW s \in ToSet(new) PROVE Origin(s)'
  <2>1. s.metric \in VMIMetrics[do] /\ s.labels.key = k
    BY <1>5 DEF From
  <2>2. Of(s, vmi, VMIMetrics)'
    BY <1>2, <1>4, <2>1 DEF Of, Made
  <2> QED
    BY <2>2 DEF Origin
<1>11. Origins'
  BY <1>8, <1>9, <1>10 DEF Origins
<1>12. CollectorsOK'
  BY <1>2, <1>3 DEF IInv, CollectorsOK
<1>13. \A s \in ToSet(new) : ~Based(s)
  BY <1>5 DEF From, Based
<1>14. BasesAgree'
  BY <1>8, <1>13 DEF IInv, BasesAgree
<1> QED
  BY <1>3, <1>8, <1>11, <1>12, <1>14 DEF NoDuplicateSamples, Good

LEMMA IdleAndStarted ==
    /\ \A kind, dos : CollectorOK(Idle, kind, dos) /\ CollectorOK(Started, kind, dos)
    /\ Idle.calls = <<>> /\ ToSet(Idle.calls) = {}
    /\ ToSet(Started.calls) = {Call("list", <<>>)}
    /\ ~Listed(Started) /\ Listed(Idle)
<1> DEFINE l == Call("list", <<>>)
<1>1. Idle.calls = <<>> /\ DOMAIN Idle = {"listed", "calls"}
  BY DEF Idle
<1>2. Started.calls = <<l>> /\ DOMAIN Started = {"listed", "calls"}
  BY DEF Started
<1> HIDE DEF l
<1>3. IsSeq(<<>>) /\ ToSet(<<>>) = {} /\ DOMAIN <<>> = 1..0
  BY EmptyIsSeq, SeqFacts, GoodEmpty
<1>4. IsSeq(<<l>>) /\ ToSet(<<l>>) = {l} /\ Len(<<l>>) = 1
  BY OneIsSeq
<1>5. DOMAIN <<l>> = 1..1
  BY <1>4, SeqFacts
<1>6. IsInjective(<<>>) /\ IsInjective(<<l>>)
  BY <1>3, <1>5 DEF IsInjective
<1>7. \A kind, dos : CollectorOK(Idle, kind, dos) /\ CollectorOK(Started, kind, dos)
  BY <1>1, <1>2, <1>3, <1>4, <1>6 DEF CollectorOK
<1> QED
  BY <1>1, <1>2, <1>3, <1>4, <1>7 DEF Listed, l

LEMMA CollectorTyped ==
    ASSUME NEW c, NEW kind, NEW dos, dos \subseteq {"disks", "info", "reports"}, CollectorOK(c, kind, dos)
    PROVE  ToSet(c.calls) \subseteq
             {Call("list", <<>>)} \cup {Call(do, k) : do \in {"disks", "info", "reports"},
                                                     k \in Existing(c.listed)}
<1>1. CASE c \in {Idle, Started}
  BY <1>1, IdleAndStarted
<1>2. CASE c \notin {Idle, Started}
  BY <1>2 DEF CollectorOK
<1> QED
  BY <1>1, <1>2

(* A collector that has yet to list its objects was just started. *)
LEMMA ListPending ==
    ASSUME NEW c, NEW kind, NEW dos, CollectorOK(c, kind, dos), "list" \notin dos, Calls(c, "list")
    PROVE  c = Started
<1>1. c.calls # <<>> /\ Head(c.calls).do = "list" /\ IsSeq(c.calls)
  BY DEF Calls, CollectorOK
<1>2. Head(c.calls) \in ToSet(c.calls)
  BY <1>1, TailFacts
<1>3. c # Idle
  BY <1>1, IdleAndStarted
<1>4. ~\A x \in ToSet(c.calls) : \E do \in dos : \E k \in Existing(c.listed) : x = Call(do, k)
  BY <1>1, <1>2, CallFacts
<1> QED
  BY <1>3, <1>4 DEF CollectorOK

(* TypeOK apart from the collectors. *)
OthersTyped ==
    /\ \A kind \in Kinds : StoreOK(kind, stores[kind])
    /\ changes \in 0..MaxChanges
    /\ reported \subseteq {"migrations", "statistics"}
    /\ {running, failed} \subseteq BOOLEAN
    /\ \A s \in samples \cup last : IsSample(s)
    /\ stale \in 0..2

LEMMA TypesSplit == CollectorsOK => (TypeOK <=> OthersTyped)
<1> SUFFICES ASSUME CollectorsOK PROVE TypeOK <=> OthersTyped
  OBVIOUS
<1> DEFINE V == {"disks", "info", "reports"}
           I == {"info", "reports"}
<1>1. /\ CollectorOK(vm, "vms", V) /\ V \subseteq {"disks", "info", "reports"}
      /\ CollectorOK(vmi, "vmis", I) /\ I \subseteq {"disks", "info", "reports"}
  BY DEF CollectorsOK
<1> HIDE DEF V, I
<1>2. ToSet(vm.calls) \subseteq
         {Call("list", <<>>)} \cup {Call(do, k) : do \in {"disks", "info", "reports"}, k \in Existing(vm.listed)}
  BY <1>1, CollectorTyped
<1>3. ToSet(vmi.calls) \subseteq
         {Call("list", <<>>)} \cup {Call(do, k) : do \in {"disks", "info", "reports"}, k \in Existing(vmi.listed)}
  BY <1>1, CollectorTyped
<1>4. \A c \in {vm, vmi} : ToSet(c.calls) \subseteq
         {Call("list", <<>>)} \cup {Call(do, k) : do \in {"disks", "info", "reports"}, k \in Existing(c.listed)}
  BY <1>2, <1>3
<1> QED
  BY <1>4 DEF TypeOK, OthersTyped, IsSample

-----------------------------------------------------------------------------
(* The collectors that read one store. *)
LEMMA MigrationSamples ==
    ASSUME NEW migrations, IsFiniteSet(DOMAIN migrations)
    PROVE  LET s == ReportMigrationStats(migrations) IN
           Good(s) /\ \A x \in ToSet(s) : x.metric \in MigrationMetrics /\ ~Based(x)
<1> DEFINE s == ReportMigrationStats(migrations)
<1>1. /\ Good(s)
      /\ \A x \in ToSet(s) : x.metric \in MigrationMetrics
      /\ \A x : x \in ToSet(s) <=>
            \/ \E k \in FinishedKeys(migrations, "Succeeded") :
                  x = FinishedSample(migrations, "kubevirt_vmi_migration_succeeded", k)
            \/ \E k \in FinishedKeys(migrations, "Failed") :
                  x = FinishedSample(migrations, "kubevirt_vmi_migration_failed", k)
            \/ \E c \in Counted : x = CountSample(migrations, c)
  BY MigrationsReported
<1>2. \A m, k : ~Based(FinishedSample(migrations, m, k))
  BY DEF FinishedSample, Sample, Based
<1>3. \A c : ~Based(CountSample(migrations, c))
  BY DEF CountSample, Sample, Based
<1> HIDE DEF s
<1>4. \A x \in ToSet(s) : ~Based(x)
  BY <1>1, <1>2, <1>3
<1> QED
  BY <1>1, <1>4 DEF s

(* Labels of the samples of an entry. *)
Base(store, runtime, k) == [key |-> k, node |-> Value(store[k]).vmi.node, runtime |-> runtime[k]]
StatisticsOf(store, runtime) ==
    ForAll(SetToSeq(Existing(store)),
           LAMBDA k : VMStatsSamples(Report(k, Value(store[k]), runtime[k])))

LEMMA StatisticsSamples ==
    ASSUME NEW store, StoreOK("statistics", store), NEW runtime
    PROVE  LET s == StatisticsOf(store, runtime) IN
           /\ Good(s)
           /\ \A x \in ToSet(s) : /\ x.metric \in StatisticsMetrics
                                  /\ \E k \in Existing(store) : x.labels.base = Base(store, runtime, k)
<1> DEFINE E == Existing(store)
           l == SetToSeq(E)
           r(k) == Report(k, Value(store[k]), runtime[k])
           F(i) == VMStatsSamples(r(l[i]))
           f == [i \in DOMAIN l |-> F(i)]
<1>1. StatisticsOf(store, runtime) = FlattenSeq(f)
  BY DEF StatisticsOf, ForAll
<1>2. IsFiniteSet(E)
  BY StoreFacts, KindsListed
<1>3. \A k \in E : StatsOK(r(k).stats) /\ r(k).base = Base(store, runtime, k)
  BY EntriesOK DEF Report, Base
<1>4. \A k, q : Base(store, runtime, k) = Base(store, runtime, q) => k = q
  BY DEF Base
<1> HIDE DEF E, r
<1>5. IsSeq(l) /\ ToSet(l) = E /\ IsInjective(l)
  BY <1>2, SetToSeqFacts
<1> HIDE DEF l
<1>6. \A i \in DOMAIN l : l[i] \in E
  BY <1>5 DEF ToSet
<1>7. \A i \in DOMAIN l : /\ Good(F(i))
                          /\ Stat(F(i), StatisticsMetrics, Base(store, runtime, l[i]))
  BY <1>3, <1>6, StatisticsStat
<1> HIDE DEF F
<1>8. IsSeq(f) /\ DOMAIN f = DOMAIN l /\ \A i \in DOMAIN l : f[i] = F(i)
  BY <1>5, MapIsSeq
<1> HIDE DEF f
<1>9. ASSUME NEW i \in DOMAIN f, NEW j \in DOMAIN f, i # j PROVE Apart(f[i], f[j])
  <2> SUFFICES ASSUME NEW x \in ToSet(f[i]), NEW y \in ToSet(f[j]), Id(x) = Id(y) PROVE FALSE
    BY DEF Apart
  <2>1. x.labels = y.labels
    BY IdFacts
  <2>2. x.labels.base = Base(store, runtime, l[i]) /\ y.labels.base = Base(store, runtime, l[j])
    BY <1>7, <1>8 DEF Stat
  <2>3. l[i] = l[j]
    BY <1>4, <2>1, <2>2
  <2> QED
    BY <1>5, <1>8, <1>9, <2>3 DEF IsInjective
<1>10. \A i \in DOMAIN f : Good(f[i])
  BY <1>7, <1>8
<1>11. Good(FlattenSeq(f)) /\ ToSet(FlattenSeq(f)) = UNION {ToSet(f[i]) : i \in DOMAIN f}
  BY <1>8, <1>9, <1>10, GoodFlatten
<1>12. ASSUME NEW x \in ToSet(FlattenSeq(f))
       PROVE  /\ x.metric \in StatisticsMetrics
              /\ \E k \in E : x.labels.base = Base(store, runtime, k)
  <2>1. PICK i \in DOMAIN l : x \in ToSet(F(i))
    BY <1>8, <1>11
  <2>2. x.metric \in StatisticsMetrics /\ x.labels.base = Base(store, runtime, l[i])
    BY <1>7, <2>1 DEF Stat
  <2> QED
    BY <1>6, <2>2
<1> QED
  BY <1>1, <1>11, <1>12 DEF E

(* A collector that reports once. *)
LEMMA ReportStep ==
    ASSUME IInv, NEW collector, Reports(collector), NEW new, Good(new), Gather(new),
           \/ collector = "migrations" /\ \A x \in ToSet(new) : x.metric \in MigrationMetrics
           \/ collector = "statistics" /\ \A x \in ToSet(new) : x.metric \in StatisticsMetrics
    PROVE  /\ CollectorsOK' /\ Origins' /\ NoDuplicateSamples'
           /\ samples' = samples \cup ToSet(new) /\ failed' = FALSE
           /\ \A s \in ToSet(new) : IsSample(s)
<1>1. /\ running /\ collector \notin reported /\ reported' = reported \cup {collector}
      /\ UNCHANGED <<stores, changes, vm, vmi, running, last, stale>>
  BY DEF Reports
<1>2. ASSUME NEW x \in ToSet(new), NEW s \in samples, Id(x) = Id(s) PROVE FALSE
  <2>1. s.metric = x.metric
    BY <1>2, IdFacts
  <2>2. Origin(s)
    BY DEF IInv, Origins
  <2>3. CASE collector = "migrations"
    BY <1>1, <2>1, <2>2, <2>3, MetricsDisjoint DEF Origin, Of
  <2>4. CASE collector = "statistics"
    BY <1>1, <2>1, <2>2, <2>4, MetricsDisjoint DEF Origin, Of
  <2> QED
    BY <2>3, <2>4
<1>3. failed' = FALSE /\ samples' = samples \cup ToSet(new)
  BY <1>2, Gathered DEF IInv, NoDuplicateSamples
<1>4. ASSUME NEW s \in samples PROVE Origin(s)'
  <2>1. Origin(s)
    BY DEF IInv, Origins
  <2>2. Of(s, vm, VMMetrics)' <=> Of(s, vm, VMMetrics)
    BY <1>1 DEF Of
  <2>3. Of(s, vmi, VMIMetrics)' <=> Of(s, vmi, VMIMetrics)
    BY <1>1 DEF Of
  <2> QED
    BY <1>1, <2>1, <2>2, <2>3 DEF Origin
<1>5. ASSUME NEW s \in ToSet(new) PROVE Origin(s)'
  BY <1>1 DEF Origin
<1>6. Origins'
  BY <1>3, <1>4, <1>5 DEF Origins
<1>7. CollectorsOK'
  BY <1>1 DEF IInv, CollectorsOK
<1> QED
  BY <1>3, <1>6, <1>7 DEF NoDuplicateSamples, Good

-----------------------------------------------------------------------------
(* The inductive invariant. *)
LEMMA InvInit == Init => IInv
<1> SUFFICES ASSUME Init PROVE IInv
  OBVIOUS
<1> USE DEF Init
<1>1. /\ stores = [kind \in Kinds |-> stores[kind]]
      /\ \A kind \in Kinds : StoreOK(kind, stores[kind])
      /\ OnePodPerNode(stores.pods)
  BY ScrapeAssumption
<1>2. CollectorsOK
  BY <1>1, IdleAndStarted DEF CollectorsOK
<1>6. MaxChanges \in Nat
  BY ScrapeAssumption
<1>7. changes \in 0..MaxChanges /\ stale \in 0..2
  BY <1>6
<1>3. OthersTyped
  BY <1>1, <1>7 DEF OthersTyped
<1>4. TypeOK
  BY <1>2, <1>3, TypesSplit
<1>5. Origins /\ NoDuplicateSamples /\ BasesAgree
  BY DEF Origins, NoDuplicateSamples, BasesAgree
<1> QED
  BY <1>2, <1>4, <1>5 DEF IInv

LEMMA SplitNext ==
    ASSUME CollectorsOK', OthersTyped' PROVE TypeOK'
<1>1. (CollectorsOK => (TypeOK <=> OthersTyped))'
  BY TypesSplit, PTL
<1> QED
  BY <1>1

LEMMA UpdateStep ==
    ASSUME IInv, Update PROVE IInv'
<1>0. PICK kind \in Kinds : \E k \in DOMAIN Contents[kind] : Change(kind, k)
  BY DEF Update
<1>1. PICK k \in DOMAIN Contents[kind] : Change(kind, k)
  BY <1>0
<1>2. PICK o \in {{}} \cup {{c} : c \in Contents[kind][k]} :
          stores' = [stores EXCEPT ![kind][k] = o]
  BY <1>1 DEF Change
<1>3. /\ changes < MaxChanges /\ changes' = changes + 1 /\ OnePodPerNode(stores'.pods)
      /\ stale' = (IF running THEN 2 ELSE 1) /\ last' = {}
      /\ UNCHANGED <<vm, vmi, reported, running, samples, failed>>
  BY <1>1 DEF Change
<1>4. CollectorsOK /\ OthersTyped
  BY TypesSplit DEF IInv
<1>5. ASSUME NEW q \in Kinds PROVE StoreOK(q, stores'[q])
  <2>1. StoreOK(q, stores[q]) /\ DOMAIN stores = Kinds
    BY <1>4 DEF OthersTyped, CollectorsOK
  <2>2. CASE q # kind
    BY <1>2, <2>1, <2>2
  <2>3. CASE q = kind
    <3> DEFINE a == stores[q]
               b == stores'[q]
    <3>1. b = [a EXCEPT ![k] = o]
      BY <1>2, <2>1, <2>3
    <3>2. DOMAIN a = DOMAIN Contents[q] /\ \A j \in DOMAIN a : a[j] \in {{}} \cup {{c} : c \in Contents[q][j]}
      BY <2>1 DEF StoreOK
    <3>3. o \in {{}} \cup {{c} : c \in Contents[q][k]}
      BY <2>3
    <3> HIDE DEF a, b
    <3>4. b = [j \in DOMAIN Contents[q] |-> b[j]]
      BY <3>1, <3>2
    <3>5. \A j \in DOMAIN b : b[j] \in {{}} \cup {{c} : c \in Contents[q][j]}
      BY <3>1, <3>2, <3>3
    <3>6. StoreOK(q, b)
      BY <3>4, <3>5 DEF StoreOK
    <3> QED
      BY <3>6 DEF b
  <2> QED
    BY <2>2, <2>3
<1>6. DOMAIN stores' = Kinds
  BY <1>2, <1>4 DEF CollectorsOK
<1>7. CollectorsOK'
  BY <1>3, <1>4, <1>6 DEF CollectorsOK
<1>8. changes' \in 0..MaxChanges /\ stale' \in 0..2
  BY <1>3, <1>4, ScrapeAssumption DEF OthersTyped
<1>9. OthersTyped'
  BY <1>3, <1>4, <1>5, <1>8 DEF OthersTyped
<1>10. Origins' /\ NoDuplicateSamples' /\ BasesAgree'
  BY <1>3 DEF IInv, Origins, Origin, Of, NoDuplicateSamples, BasesAgree
<1> QED
  BY <1>7, <1>9, <1>10, SplitNext DEF IInv

LEMMA BeginStep ==
    ASSUME IInv, Begin PROVE IInv'
<1> USE DEF Begin
<1>1. CollectorsOK /\ OthersTyped
  BY TypesSplit DEF IInv
<1>2. CollectorsOK'
  BY <1>1, IdleAndStarted DEF CollectorsOK
<1>3. OthersTyped'
  BY <1>1 DEF OthersTyped
<1>4. Origins' /\ NoDuplicateSamples' /\ BasesAgree'
  BY DEF Origins, NoDuplicateSamples, BasesAgree
<1> QED
  BY <1>2, <1>3, <1>4, SplitNext DEF IInv

LEMMA EndStep ==
    ASSUME IInv, End PROVE IInv'
<1> USE DEF End
<1>1. CollectorsOK /\ OthersTyped
  BY TypesSplit DEF IInv
<1>2. CollectorsOK'
  BY <1>1, IdleAndStarted DEF CollectorsOK
<1>3. stale' \in 0..2
  BY <1>1 DEF OthersTyped
<1>4. OthersTyped'
  BY <1>1, <1>3 DEF OthersTyped
<1>5. ASSUME NEW s \in samples PROVE Origin(s)'
  <2>1. Origin(s)
    BY DEF IInv, Origins
  <2>2. \A do, q : Made(Idle, do, q)
    BY IdleAndStarted DEF Made
  <2>3. Of(s, vm, VMMetrics) => Of(s, vm, VMMetrics)'
    BY <2>2 DEF Of
  <2>4. Of(s, vmi, VMIMetrics) => Of(s, vmi, VMIMetrics)'
    BY <2>2 DEF Of
  <2> QED
    BY <2>1, <2>3, <2>4 DEF Origin
<1>6. Origins' /\ NoDuplicateSamples' /\ BasesAgree'
  BY <1>5 DEF IInv, Origins, NoDuplicateSamples, BasesAgree
<1> QED
  BY <1>2, <1>4, <1>6, SplitNext DEF IInv

LEMMA ListVMsStep ==
    ASSUME IInv, ListVMs
    PROVE  /\ IInv' /\ samples' = samples /\ running' = running
           /\ vm'.listed = stores.vms
           /\ \A k \in Existing(stores.vms) : Call("reports", k) \in ToSet(vm'.calls)
           /\ \A s \in samples : ~Of(s, vm, VMMetrics)
<1> DEFINE keys == SetToSeq(Existing(stores.vms))
           V == {"disks", "info", "reports"}
<1>1. CollectorsOK /\ OthersTyped
  BY TypesSplit DEF IInv
<1>2. /\ vm' = [listed |-> stores.vms, calls |-> VMCalls(keys)]
      /\ UNCHANGED <<stores, changes, vmi, reported, running, samples, failed, last, stale>>
      /\ Calls(vm, "list")
  BY DEF ListVMs, VMCalls, Pass
<1>3. StoreOK("vms", stores.vms) /\ IsFiniteSet(Existing(stores.vms))
  BY <1>1, KindsListed, StoreFacts DEF OthersTyped
<1>4. IsSeq(keys) /\ ToSet(keys) = Existing(stores.vms) /\ IsInjective(keys)
  BY <1>3, SetToSeqFacts
<1> HIDE DEF keys
<1>5. /\ IsSeq(VMCalls(keys)) /\ IsInjective(VMCalls(keys))
      /\ \A x \in ToSet(VMCalls(keys)) : \E do \in V : \E k \in ToSet(keys) : x = Call(do, k)
      /\ \A k \in ToSet(keys) : Call("reports", k) \in ToSet(VMCalls(keys))
  BY <1>4, VMCallsFacts
<1>6. vm = Started /\ "list" \notin V
  <2>1. CollectorOK(vm, "vms", V) /\ "list" \notin V
    BY <1>1 DEF CollectorsOK
  <2> HIDE DEF V
  <2> QED
    BY <1>2, <2>1, ListPending
<1>7. running
  BY <1>1, <1>6, IdleAndStarted DEF CollectorsOK
<1>8. vm'.listed = stores.vms /\ vm'.calls = VMCalls(keys) /\ DOMAIN vm' = {"listed", "calls"}
  BY <1>2
<1>9. CollectorOK(vm', "vms", V)
  <2> HIDE DEF V
  <2> QED
    BY <1>3, <1>4, <1>5, <1>8 DEF CollectorOK
<1>10. CollectorsOK'
  BY <1>1, <1>2, <1>7, <1>9 DEF CollectorsOK
<1>11. OthersTyped'
  BY <1>1, <1>2 DEF OthersTyped
<1>12. \A s \in samples : ~Of(s, vm, VMMetrics)
  BY <1>6, IdleAndStarted DEF Of, Made
<1>13. ASSUME NEW s \in samples PROVE Origin(s)'
  <2>1. Origin(s) /\ ~Of(s, vm, VMMetrics)
    BY <1>12 DEF IInv, Origins
  <2>2. Of(s, vmi, VMIMetrics) => Of(s, vmi, VMIMetrics)'
    BY <1>2 DEF Of
  <2> QED
    BY <1>2, <2>1, <2>2 DEF Origin
<1>14. Origins' /\ NoDuplicateSamples' /\ BasesAgree'
  BY <1>2, <1>13 DEF IInv, Origins, NoDuplicateSamples, BasesAgree
<1>15. IInv'
  BY <1>10, <1>11, <1>14, SplitNext DEF IInv
<1> QED
  BY <1>2, <1>4, <1>5, <1>8, <1>12, <1>15

LEMMA ListVMIsStep ==
    ASSUME IInv, ListVMIs
    PROVE  IInv'
<1> DEFINE keys == SetToSeq(Existing(stores.vmis))
           V == {"info", "reports"}
<1>1. CollectorsOK /\ OthersTyped
  BY TypesSplit DEF IInv
<1>2. /\ vmi' = [listed |-> stores.vmis, calls |-> VMICalls(keys)]
      /\ UNCHANGED <<stores, changes, vm, reported, running, samples, failed, last, stale>>
      /\ Calls(vmi, "list")
  BY DEF ListVMIs, VMICalls
<1>3. StoreOK("vmis", stores.vmis) /\ IsFiniteSet(Existing(stores.vmis))
  BY <1>1, KindsListed, StoreFacts DEF OthersTyped
<1>4. IsSeq(keys) /\ ToSet(keys) = Existing(stores.vmis) /\ IsInjective(keys)
  BY <1>3, SetToSeqFacts
<1> HIDE DEF keys
<1>5. /\ IsSeq(VMICalls(keys)) /\ IsInjective(VMICalls(keys))
      /\ \A x \in ToSet(VMICalls(keys)) : \E do \in V : \E k \in ToSet(keys) : x = Call(do, k)
  BY <1>4, VMICallsFacts
<1>6. vmi = Started /\ "list" \notin V
  <2>1. CollectorOK(vmi, "vmis", V) /\ "list" \notin V
    BY <1>1 DEF CollectorsOK
  <2> HIDE DEF V
  <2> QED
    BY <1>2, <2>1, ListPending
<1>7. running
  BY <1>1, <1>6, IdleAndStarted DEF CollectorsOK
<1>8. vmi'.listed = stores.vmis /\ vmi'.calls = VMICalls(keys) /\ DOMAIN vmi' = {"listed", "calls"}
  BY <1>2
<1>9. CollectorOK(vmi', "vmis", V)
  <2> HIDE DEF V
  <2> QED
    BY <1>3, <1>4, <1>5, <1>8 DEF CollectorOK
<1>10. CollectorsOK'
  BY <1>1, <1>2, <1>7, <1>9 DEF CollectorsOK
<1>11. OthersTyped'
  BY <1>1, <1>2 DEF OthersTyped
<1>12. \A s \in samples : ~Of(s, vmi, VMIMetrics)
  BY <1>6, IdleAndStarted DEF Of, Made
<1>13. ASSUME NEW s \in samples PROVE Origin(s)'
  <2>1. Origin(s) /\ ~Of(s, vmi, VMIMetrics)
    BY <1>12 DEF IInv, Origins
  <2>2. Of(s, vm, VMMetrics) => Of(s, vm, VMMetrics)'
    BY <1>2 DEF Of
  <2> QED
    BY <1>2, <2>1, <2>2 DEF Origin
<1>14. Origins' /\ NoDuplicateSamples' /\ BasesAgree'
  BY <1>2, <1>13 DEF IInv, Origins, NoDuplicateSamples, BasesAgree
<1> QED
  BY <1>10, <1>11, <1>14, SplitNext DEF IInv

(* Samples that say nothing of a VM or of the pod of a VMI. *)
Elsewhere(s) == /\ s.metric \notin VMReportMetrics /\ s.metric # "kubevirt_vm_info" /\ s.metric # "kubevirt_vmi_info"

LEMMA VMDisksStep ==
    ASSUME IInv, VMDisks
    PROVE  /\ IInv' /\ running /\ running' = running /\ vm' = Done(vm) /\ Calls(vm, "disks")
           /\ \E new : /\ samples' = samples \cup ToSet(new)
                       /\ \A s \in ToSet(new) : Elsewhere(s) /\ s.metric \notin VMIReportMetrics
<1> DEFINE k == Head(vm.calls).key
           o == Value(vm.listed[k])
           new == collectDiskMetricsFromPVC(k, o, stores.pvcs)
           V == {"disks", "info", "reports"}
<1>1. /\ Calls(vm, "disks") /\ Gather(new) /\ vm' = Done(vm)
      /\ UNCHANGED <<stores, changes, vmi, reported, running, last, stale>>
  BY DEF VMDisks
<1>2. CollectorOK(vm, "vms", V) /\ "list" \notin V /\ "disks" \in V
  BY DEF IInv, CollectorsOK
<1>3. StoreOK("vms", vm.listed) /\ k \in Existing(vm.listed)
  <2> HIDE DEF V
  <2> QED
    BY <1>1, <1>2, CollectorFacts
<1>4. VMOK(o)
  BY <1>3, VMsOK
<1>5. Good(new) /\ From(new, VMMetrics["disks"], k)
  BY <1>4, DisksReported DEF VMMetrics
<1> HIDE DEF new, k
<1>6. /\ CollectorsOK' /\ Origins' /\ NoDuplicateSamples' /\ BasesAgree' /\ running
      /\ samples' = samples \cup ToSet(new) /\ failed' = FALSE /\ \A s \in ToSet(new) : IsSample(s)
  BY <1>1, <1>5, VMStep DEF k
<1>7. OthersTyped'
  <2>1. OthersTyped
    BY TypesSplit DEF IInv
  <2> QED
    BY <1>1, <1>6, <2>1 DEF OthersTyped
<1>8. IInv'
  BY <1>6, <1>7, SplitNext DEF IInv
<1>9. \A s \in ToSet(new) : Elsewhere(s) /\ s.metric \notin VMIReportMetrics
  BY <1>5, FamiliesDisjoint DEF From, VMMetrics, Elsewhere
<1> QED
  BY <1>1, <1>6, <1>8, <1>9

LEMMA VMInfoStep ==
    ASSUME IInv, VMInfo
    PROVE  /\ IInv' /\ running /\ running' = running /\ vm' = Done(vm) /\ Calls(vm, "info")
           /\ \E new : /\ samples' = samples \cup ToSet(new)
                       /\ \A s \in ToSet(new) :
                             /\ s.metric = "kubevirt_vm_info"
                             /\ s.labels.key = Head(vm.calls).key
                             /\ s.labels.group = GetVMStatusGroup(ListedVM(s.labels.key).status)
<1> DEFINE k == Head(vm.calls).key
           o == Value(vm.listed[k])
           new == CollectVMsInfo(k, o, stores.types)
<1>1. /\ Calls(vm, "info") /\ Gather(new) /\ vm' = Done(vm)
      /\ UNCHANGED <<stores, changes, vmi, reported, running, last, stale>>
  BY DEF VMInfo
<1>2. /\ Good(new) /\ From(new, VMMetrics["info"], k)
      /\ \A s \in ToSet(new) : s.labels.group = GetVMStatusGroup(o.status)
  BY InfoReported DEF VMMetrics
<1> HIDE DEF new, k
<1>3. /\ CollectorsOK' /\ Origins' /\ NoDuplicateSamples' /\ BasesAgree' /\ running
      /\ samples' = samples \cup ToSet(new) /\ failed' = FALSE /\ \A s \in ToSet(new) : IsSample(s)
  BY <1>1, <1>2, VMStep DEF k
<1>4. OthersTyped'
  <2>1. OthersTyped
    BY TypesSplit DEF IInv
  <2> QED
    BY <1>1, <1>3, <2>1 DEF OthersTyped
<1>5. IInv'
  BY <1>3, <1>4, SplitNext DEF IInv
<1>6. \A s \in ToSet(new) :
         /\ s.metric = "kubevirt_vm_info"
         /\ s.labels.key = k
         /\ s.labels.group = GetVMStatusGroup(ListedVM(s.labels.key).status)
  BY <1>2 DEF From, VMMetrics, ListedVM
<1> QED
  BY <1>1, <1>3, <1>5, <1>6 DEF k

LEMMA VMReportsStep ==
    ASSUME IInv, VMReports
    PROVE  LET k == Head(vm.calls).key IN
           /\ IInv' /\ running /\ running' = running /\ vm' = Done(vm) /\ Calls(vm, "reports")
           /\ \E new : /\ samples' = samples \cup ToSet(new)
                       /\ \A s \in ToSet(new) : /\ s.metric \notin {"kubevirt_vm_info", "kubevirt_vmi_info"} \cup VMIReportMetrics
                                                /\ s.labels.key = k
                       /\ \A s : s \in ToSet(new) /\ s.metric \in FactMetrics <=> s \in Facts(k, ListedVM(k))
<1> DEFINE k == Head(vm.calls).key
           o == Value(vm.listed[k])
           V == {"disks", "info", "reports"}
<1>1. PICK labels \in ReportVMLabels(k, o) : Gather(VMReport(k, o, labels))
  BY DEF VMReports, VMReport
<1> DEFINE new == VMReport(k, o, labels)
<1>2. /\ Calls(vm, "reports") /\ vm' = Done(vm)
      /\ UNCHANGED <<stores, changes, vmi, reported, running, last, stale>>
  BY DEF VMReports
<1>3. CollectorOK(vm, "vms", V) /\ "list" \notin V /\ "reports" \in V
  BY DEF IInv, CollectorsOK
<1>4. StoreOK("vms", vm.listed) /\ k \in Existing(vm.listed)
  <2> HIDE DEF V
  <2> QED
    BY <1>2, <1>3, CollectorFacts
<1>5. VMOK(o)
  BY <1>4, VMsOK
<1> DEFINE a == CollectResourceRequestsAndLimits(k, o)
           b == reportVMTimestamps(k, o)
           c == collectVMCreationTimestamp(k, o)
           d == CollectVmsVnicInfo(k, o)
<1> HIDE DEF k, o
<1>6. /\ Good(new) /\ From(new, VMReportMetrics, k)
      /\ ToSet(new) = ToSet(a) \cup ToSet(labels) \cup ToSet(b) \cup ToSet(c) \cup ToSet(d)
  BY <1>5, VMReported
<1>7. /\ From(a, ResourceMetrics, k) /\ From(labels, {"kubevirt_vm_labels"}, k) /\ From(b, TimestampMetrics, k)
      /\ From(c, {"kubevirt_vm_create_date_timestamp_seconds"}, k) /\ From(d, {"kubevirt_vm_vnic_info"}, k)
  BY <1>5, ResourcesReported, LabelsReported, TimestampsReported, CreationReported, VMVnicsReported
<1>8. Facts(k, o) = ToSet(a) \cup ToSet(b)
  BY DEF Facts
<1> HIDE DEF new, a, b, c, d
<1>9. From(new, VMMetrics["reports"], k) /\ Gather(new)
  BY <1>1, <1>6 DEF VMMetrics, new
<1>10. /\ CollectorsOK' /\ Origins' /\ NoDuplicateSamples' /\ BasesAgree' /\ running
       /\ samples' = samples \cup ToSet(new) /\ failed' = FALSE /\ \A s \in ToSet(new) : IsSample(s)
  BY <1>2, <1>6, <1>9, VMStep DEF k
<1>11. OthersTyped'
  <2>1. OthersTyped
    BY TypesSplit DEF IInv
  <2> QED
    BY <1>2, <1>10, <2>1 DEF OthersTyped
<1>12. IInv'
  BY <1>10, <1>11, SplitNext DEF IInv
<1>13. \A s \in ToSet(new) : /\ s.metric \notin {"kubevirt_vm_info", "kubevirt_vmi_info"} \cup VMIReportMetrics
                            /\ s.labels.key = k
  BY <1>6, FamiliesDisjoint DEF From
<1>14. {"kubevirt_vm_labels", "kubevirt_vm_create_date_timestamp_seconds", "kubevirt_vm_vnic_info"} \cap FactMetrics = {}
  BY TimestampMetricNames DEF FactMetrics, ResourceMetrics
<1>15. \A s : s \in ToSet(new) /\ s.metric \in FactMetrics <=> s \in Facts(k, o)
  BY <1>6, <1>7, <1>8, <1>14 DEF From, FactMetrics
<1>16. o = ListedVM(k)
  BY DEF o, ListedVM
<1> QED
  BY <1>2, <1>10, <1>12, <1>13, <1>15, <1>16 DEF k

LEMMA VMIInfoStep ==
    ASSUME IInv, VMIInfo
    PROVE  /\ IInv' /\ running /\ UNCHANGED <<running, vm>>
           /\ LET k == Head(vmi.calls).key IN
              \E new : \E pod \in getVMIPod(k, Value(vmi.listed[k]), stores.pods) :
                 /\ samples' = samples \cup ToSet(new)
                 /\ \A s, r \in ToSet(new) : s = r
                 /\ \A s \in ToSet(new) : /\ s.metric = "kubevirt_vmi_info" /\ s.labels.key = k
                                          /\ s.labels.pod = pod
                                          /\ s.labels.node = Value(vmi.listed[k]).node
                                          /\ s.labels.evictable = IsVMIEvictable(Value(vmi.listed[k]))
<1> DEFINE k == Head(vmi.calls).key
           o == Value(vmi.listed[k])
<1>1. PICK pod \in getVMIPod(k, o, stores.pods) : Gather(CollectVMIInfo(k, o, pod, stores.types))
  BY DEF VMIInfo
<1> DEFINE new == CollectVMIInfo(k, o, pod, stores.types)
<1>2. /\ Calls(vmi, "info") /\ vmi' = Done(vmi) /\ Gather(new)
      /\ UNCHANGED <<stores, changes, vm, reported, running, last, stale>>
  BY <1>1 DEF VMIInfo
<1> HIDE DEF k, o
<1>3. /\ Good(new) /\ From(new, {"kubevirt_vmi_info"}, k)
      /\ \A s \in ToSet(new) : /\ s.labels.pod = pod /\ s.labels.node = o.node
                               /\ s.labels.evictable = IsVMIEvictable(o)
      /\ \A s, r \in ToSet(new) : s = r
  BY VMIInfoReported
<1>4. From(new, VMIMetrics["info"], k)
  BY <1>3 DEF VMIMetrics
<1> HIDE DEF new
<1>5. /\ CollectorsOK' /\ Origins' /\ NoDuplicateSamples' /\ BasesAgree' /\ running
      /\ samples' = samples \cup ToSet(new) /\ failed' = FALSE /\ \A s \in ToSet(new) : IsSample(s)
  BY <1>2, <1>3, <1>4, VMIStep DEF k
<1>6. OthersTyped'
  <2>1. OthersTyped
    BY TypesSplit DEF IInv
  <2> QED
    BY <1>2, <1>5, <2>1 DEF OthersTyped
<1>7. IInv'
  BY <1>5, <1>6, SplitNext DEF IInv
<1>8. \A s \in ToSet(new) : /\ s.metric = "kubevirt_vmi_info" /\ s.labels.key = k
                            /\ s.labels.pod = pod /\ s.labels.node = o.node
                            /\ s.labels.evictable = IsVMIEvictable(o)
  BY <1>3 DEF From
<1> QED
  BY <1>1, <1>2, <1>3, <1>5, <1>7, <1>8 DEF k, o

LEMMA VMIReportsStep ==
    ASSUME IInv, VMIReports
    PROVE  /\ IInv' /\ running /\ UNCHANGED <<running, vm, reported>>
           /\ LET k == Head(vmi.calls).key IN
              \E new : /\ samples' = samples \cup ToSet(new)
                       /\ \A s \in ToSet(new) :
                             /\ Elsewhere(s) /\ s.labels.key = k
                             /\ s.metric \in SeriesMetrics => Fits(s, Value(vmi.listed[k]))
<1> DEFINE k == Head(vmi.calls).key
           o == Value(vmi.listed[k])
           new == VMIReport(k, o, stores.migrations)
           V == {"info", "reports"}
<1>1. /\ Calls(vmi, "reports") /\ vmi' = Done(vmi) /\ Gather(new)
      /\ UNCHANGED <<stores, changes, vm, reported, running, last, stale>>
  BY DEF VMIReports, VMIReport
<1>2. CollectorOK(vmi, "vmis", V) /\ "list" \notin V /\ "reports" \in V
  BY DEF IInv, CollectorsOK
<1>3. StoreOK("vmis", vmi.listed) /\ k \in Existing(vmi.listed)
  <2> HIDE DEF V
  <2> QED
    BY <1>1, <1>2, CollectorFacts
<1>4. VMIOK(o)
  BY <1>3, VMIsOK
<1> HIDE DEF k, o
<1>5. /\ Good(new) /\ From(new, VMIReportMetrics, k)
      /\ \A s \in ToSet(new) : s.metric \in SeriesMetrics => Fits(s, o)
  BY <1>4, VMIReported
<1>6. From(new, VMIMetrics["reports"], k)
  BY <1>5 DEF VMIMetrics
<1> HIDE DEF new
<1>7. /\ CollectorsOK' /\ Origins' /\ NoDuplicateSamples' /\ BasesAgree' /\ running
      /\ samples' = samples \cup ToSet(new) /\ failed' = FALSE /\ \A s \in ToSet(new) : IsSample(s)
  BY <1>1, <1>5, <1>6, VMIStep DEF k
<1>8. OthersTyped'
  <2>1. OthersTyped
    BY TypesSplit DEF IInv
  <2> QED
    BY <1>1, <1>7, <2>1 DEF OthersTyped
<1>9. IInv'
  BY <1>7, <1>8, SplitNext DEF IInv
<1>10. \A s \in ToSet(new) : Elsewhere(s) /\ s.labels.key = k
  BY <1>5, FamiliesDisjoint DEF From, Elsewhere
<1> QED
  BY <1>1, <1>5, <1>7, <1>9, <1>10 DEF k, o

LEMMA MigrationReportsStep ==
    ASSUME IInv, MigrationReports
    PROVE  /\ IInv' /\ running /\ UNCHANGED <<running, vm>>
           /\ \E new : /\ samples' = samples \cup ToSet(new)
                       /\ \A s \in ToSet(new) : Elsewhere(s) /\ s.metric \notin VMIReportMetrics
<1> DEFINE new == ReportMigrationStats(stores.migrations)
<1>1. OthersTyped /\ Reports("migrations") /\ Gather(new)
  BY TypesSplit DEF IInv, MigrationReports
<1>2. /\ running /\ reported' = reported \cup {"migrations"}
      /\ UNCHANGED <<stores, changes, vm, vmi, running, last, stale>>
  BY <1>1 DEF Reports
<1>3. IsFiniteSet(DOMAIN stores.migrations)
  <2>1. StoreOK("migrations", stores.migrations) /\ "migrations" \in Kinds
    BY <1>1, KindsListed DEF OthersTyped
  <2>2. DOMAIN stores.migrations = DOMAIN Contents["migrations"]
    BY <2>1, StoreFacts
  <2> QED
    BY <2>1, <2>2, ScrapeAssumption
<1>4. Good(new) /\ \A x \in ToSet(new) : x.metric \in MigrationMetrics /\ ~Based(x)
  BY <1>3, MigrationSamples
<1> HIDE DEF new
<1>5. /\ CollectorsOK' /\ Origins' /\ NoDuplicateSamples'
      /\ samples' = samples \cup ToSet(new) /\ failed' = FALSE /\ \A s \in ToSet(new) : IsSample(s)
  BY <1>1, <1>4, ReportStep
<1>6. OthersTyped'
  BY <1>1, <1>2, <1>5 DEF OthersTyped
<1>7. BasesAgree'
  BY <1>4, <1>5 DEF IInv, BasesAgree
<1>8. IInv'
  BY <1>5, <1>6, <1>7, SplitNext DEF IInv
<1>9. \A s \in ToSet(new) : Elsewhere(s) /\ s.metric \notin VMIReportMetrics
  BY <1>4, FamiliesDisjoint DEF Elsewhere
<1> QED
  BY <1>2, <1>5, <1>8, <1>9

LEMMA StatisticsReportsStep ==
    ASSUME IInv, StatisticsReports
    PROVE  /\ IInv' /\ running /\ UNCHANGED <<running, vm>>
           /\ "migrations" \notin reported' \ reported
           /\ \E new : /\ samples' = samples \cup ToSet(new)
                       /\ \A s \in ToSet(new) : Elsewhere(s) /\ s.metric \notin VMIReportMetrics
<1> DEFINE store == stores.statistics
<1>1. PICK runtime \in RuntimeLabels : Gather(StatisticsOf(store, runtime))
  BY DEF StatisticsReports, StatisticsOf, ReportOf
<1> DEFINE new == StatisticsOf(store, runtime)
<1>2. OthersTyped /\ Reports("statistics") /\ Gather(new)
  BY <1>1, TypesSplit DEF IInv, StatisticsReports
<1>3. /\ running /\ reported' = reported \cup {"statistics"} /\ "statistics" \notin reported
      /\ UNCHANGED <<stores, changes, vm, vmi, running, last, stale>>
  BY <1>2 DEF Reports
<1>4. StoreOK("statistics", store)
  BY <1>2, KindsListed DEF OthersTyped
<1> HIDE DEF store
<1>5. /\ Good(new)
      /\ \A x \in ToSet(new) : /\ x.metric \in StatisticsMetrics
                               /\ \E k \in Existing(store) : x.labels.base = Base(store, runtime, k)
  BY <1>4, StatisticsSamples
<1> HIDE DEF new
<1>6. /\ CollectorsOK' /\ Origins' /\ NoDuplicateSamples'
      /\ samples' = samples \cup ToSet(new) /\ failed' = FALSE /\ \A s \in ToSet(new) : IsSample(s)
  BY <1>2, <1>5, ReportStep
<1>7. OthersTyped'
  BY <1>2, <1>3, <1>6 DEF OthersTyped
<1>8. \A s \in samples : ~Based(s)
  <2> SUFFICES ASSUME NEW s \in samples, Based(s) PROVE FALSE
    OBVIOUS
  <2>1. s.metric \in StatisticsMetrics /\ Origin(s)
    BY DEF IInv, BasesAgree, Origins
  <2> QED
    BY <1>3, <2>1, MetricsDisjoint DEF Origin, Of
<1>9. \A k : Base(store, runtime, k).key = k
  BY DEF Base
<1>10. \A s, t \in ToSet(new) : s.labels.base.key = t.labels.base.key => s.labels.base = t.labels.base
  BY <1>5, <1>9
<1>11. BasesAgree'
  BY <1>5, <1>6, <1>8, <1>10 DEF BasesAgree
<1>12. IInv'
  BY <1>6, <1>7, <1>11, SplitNext DEF IInv
<1>13. \A s \in ToSet(new) : Elsewhere(s) /\ s.metric \notin VMIReportMetrics
  BY <1>5, FamiliesDisjoint DEF Elsewhere
<1> QED
  BY <1>3, <1>6, <1>12, <1>13

LEMMA InvNext ==
    ASSUME IInv, [Next]_vars PROVE IInv'
<1>1. CASE Update
  BY <1>1, UpdateStep
<1>2. CASE Begin
  BY <1>2, BeginStep
<1>3. CASE End
  BY <1>3, EndStep
<1>4. CASE ListVMs
  BY <1>4, ListVMsStep
<1>5. CASE VMDisks
  BY <1>5, VMDisksStep
<1>6. CASE VMInfo
  BY <1>6, VMInfoStep
<1>7. CASE VMReports
  BY <1>7, VMReportsStep
<1>8. CASE ListVMIs
  BY <1>8, ListVMIsStep
<1>9. CASE VMIInfo
  BY <1>9, VMIInfoStep
<1>10. CASE VMIReports
  BY <1>10, VMIReportsStep
<1>11. CASE MigrationReports
  BY <1>11, MigrationReportsStep
<1>12. CASE StatisticsReports
  BY <1>12, StatisticsReportsStep
<1>13. CASE UNCHANGED vars
  <2>1. CollectorsOK' /\ OthersTyped' /\ Origins' /\ NoDuplicateSamples' /\ BasesAgree'
    <3>1. OthersTyped
      BY TypesSplit DEF IInv
    <3> QED
      BY <1>13, <3>1 DEF IInv, vars, CollectorsOK, OthersTyped, Origins, Origin, Of,
                         NoDuplicateSamples, BasesAgree
  <2> QED
    BY <2>1, SplitNext DEF IInv
<1> QED
  BY <1>1, <1>2, <1>3, <1>4, <1>5, <1>6, <1>7, <1>8, <1>9, <1>10, <1>11, <1>12, <1>13 DEF Next

LEMMA Invariance == Spec => []IInv
BY InvInit, InvNext, PTL DEF Spec

-----------------------------------------------------------------------------
(* The state of the scrape keeps its type: whatever the informers do in    *)
(* between, a collector only looks objects up that it has listed, and the  *)
(* samples gathered are samples.                                           *)
THEOREM TypeCorrect == Spec => []TypeOK
BY Invariance, PTL DEF IInv

(* No scrape has a metric twice with the same labels, so that the registry *)
(* never refuses the answer: the collectors of vmstats_collector.go,       *)
(* vmistats_collector.go, migrationstats_collector.go and the reports of   *)
(* vmstats/ never repeat one another, for any number of objects and with   *)
(* any changes of the stores while they run.                               *)
THEOREM NoMetricTwice == Spec => []NoDuplicateSamples
BY Invariance, PTL DEF IInv

(* All statistics of a VMI in a scrape carry the same node and labels: one *)
(* report is made per entry of the cache, with labels built once           *)
(* (buildRuntimeLabels), although a map's order decides which label wins.  *)
THEOREM LabelsAreShared == Spec => []StatisticsShareLabels
<1>1. IInv => StatisticsShareLabels
  BY DEF IInv, BasesAgree, Based, StatisticsShareLabels, Answer
<1> QED
  BY <1>1, Invariance, PTL

(* What getVMIPod finds is a running pod of the VMI on its node. *)
LEMMA PodFound ==
    ASSUME NEW pods, StoreOK("pods", pods), NEW k, NEW o, NEW name \in getVMIPod(k, o, pods), name # None
    PROVE  \E pod \in pods[<<k[1], name>>] : /\ pod.running /\ pod.node = o.node
                                             /\ pod.createdBy = o.uid
<1>1. PICK p \in MatchingPods(k, o, pods) : name = p[2]
  BY DEF getVMIPod
<1>2. p \in DOMAIN pods /\ p[1] = k[1]
  BY DEF MatchingPods
<1>3. DOMAIN pods = DOMAIN Pods
  BY KindsListed, StoreFacts
<1>4. p = <<k[1], name>>
  BY <1>1, <1>2, <1>3, ScrapeAssumption
<1> QED
  BY <1>4 DEF MatchingPods

-----------------------------------------------------------------------------
(* What is told of the VMs follows from those that were listed. *)
LEMMA VMOrigin ==
    ASSUME IInv, NEW s \in samples, s.metric \in FactMetrics \cup {"kubevirt_vm_info"}
    PROVE  Of(s, vm, VMMetrics)
<1>1. Origin(s)
  BY DEF IInv, Origins
<1>2. \/ s.metric \in VMMetrics["reports"] /\ "reports" \in DOMAIN VMMetrics
      \/ s.metric \in VMMetrics["info"] /\ "info" \in DOMAIN VMMetrics
  BY FamiliesDisjoint DEF VMMetrics
<1> QED
  BY <1>1, <1>2, MetricsDisjoint DEF Origin, Of

(* A step that says nothing of VMs. *)
LEMMA ToldElsewhere ==
    ASSUME VMsTold, UNCHANGED <<running, vm>>, NEW new, samples' = samples \cup ToSet(new),
           \A s \in ToSet(new) : s.metric \notin VMReportMetrics /\ s.metric # "kubevirt_vm_info"
    PROVE  VMsTold'
<1> SUFFICES ASSUME running, Listed(vm), NEW k \in Existing(vm.listed)
             PROVE  /\ \A s \in samples' : s.metric = "kubevirt_vm_info" /\ s.labels.key = k =>
                          s.labels.group = GetVMStatusGroup(ListedVM(k).status)
                    /\ Call("reports", k) \notin ToSet(vm.calls) =>
                          {s \in samples' : s.metric \in FactMetrics /\ s.labels.key = k}
                             = Facts(k, ListedVM(k))
  BY DEF VMsTold, ListedVM
<1>1. {s \in samples' : s.metric \in FactMetrics /\ s.labels.key = k}
        = {s \in samples : s.metric \in FactMetrics /\ s.labels.key = k}
  BY FamiliesDisjoint
<1> QED
  BY <1>1 DEF VMsTold

(* A call of the VM collector. *)
LEMMA VMCallFacts ==
    ASSUME IInv, NEW do \in {"disks", "info", "reports"}, Calls(vm, do), vm' = Done(vm)
    PROVE  LET k == Head(vm.calls).key IN
           /\ Listed(vm) /\ Listed(vm') /\ vm'.listed = vm.listed /\ k \in Existing(vm.listed)
           /\ ToSet(vm.calls) = {Call(do, k)} \cup ToSet(vm'.calls)
           /\ Call(do, k) \in ToSet(vm.calls)
<1> DEFINE V == {"disks", "info", "reports"}
<1>1. CollectorOK(vm, "vms", V) /\ "list" \notin V /\ do \in V
  BY DEF IInv, CollectorsOK
<1> DEFINE k == Head(vm.calls).key
           d == Done(vm)
<1> HIDE DEF V
<1>2. /\ Listed(vm) /\ Listed(d) /\ d.listed = vm.listed /\ k \in Existing(vm.listed)
      /\ ToSet(vm.calls) = {Call(do, k)} \cup ToSet(d.calls)
  BY <1>1, CollectorFacts
<1>3. vm' = d
  OBVIOUS
<1> HIDE DEF k, d
<1>4. /\ Listed(vm) /\ Listed(vm') /\ vm'.listed = vm.listed /\ k \in Existing(vm.listed)
      /\ ToSet(vm.calls) = {Call(do, k)} \cup ToSet(vm'.calls)
      /\ Call(do, k) \in ToSet(vm.calls)
  BY <1>2, <1>3
<1> QED
  BY <1>4 DEF k

LEMMA ToldDisks ==
    ASSUME IInv, VMsTold, VMDisks PROVE VMsTold'
<1>1. /\ running /\ running' = running /\ Listed(vm) /\ vm'.listed = vm.listed
      /\ ToSet(vm.calls) = {Call("disks", Head(vm.calls).key)} \cup ToSet(vm'.calls)
  BY VMDisksStep, VMCallFacts
<1>2. PICK new : samples' = samples \cup ToSet(new) /\ \A s \in ToSet(new) : Elsewhere(s)
  BY VMDisksStep
<1>3. \A k : Call("reports", k) \notin ToSet(vm'.calls) => Call("reports", k) \notin ToSet(vm.calls)
  BY <1>1, CallFacts
<1> SUFFICES ASSUME NEW k \in Existing(vm.listed)
             PROVE  /\ \A s \in samples' : s.metric = "kubevirt_vm_info" /\ s.labels.key = k =>
                          s.labels.group = GetVMStatusGroup(ListedVM(k).status)
                    /\ Call("reports", k) \notin ToSet(vm'.calls) =>
                          {s \in samples' : s.metric \in FactMetrics /\ s.labels.key = k}
                             = Facts(k, ListedVM(k))
  BY <1>1 DEF VMsTold, ListedVM
<1>4. {s \in samples' : s.metric \in FactMetrics /\ s.labels.key = k}
        = {s \in samples : s.metric \in FactMetrics /\ s.labels.key = k}
  BY <1>2, FamiliesDisjoint DEF Elsewhere
<1> QED
  BY <1>1, <1>2, <1>3, <1>4 DEF VMsTold, Elsewhere

LEMMA ToldInfo ==
    ASSUME IInv, VMsTold, VMInfo PROVE VMsTold'
<1>1. /\ running /\ running' = running /\ Listed(vm) /\ vm'.listed = vm.listed
      /\ ToSet(vm.calls) = {Call("info", Head(vm.calls).key)} \cup ToSet(vm'.calls)
  BY VMInfoStep, VMCallFacts
<1>2. PICK new : /\ samples' = samples \cup ToSet(new)
                 /\ \A s \in ToSet(new) :
                       /\ s.metric = "kubevirt_vm_info"
                       /\ s.labels.group = GetVMStatusGroup(ListedVM(s.labels.key).status)
  BY VMInfoStep
<1>3. \A k : Call("reports", k) \notin ToSet(vm'.calls) => Call("reports", k) \notin ToSet(vm.calls)
  BY <1>1, CallFacts
<1> SUFFICES ASSUME NEW k \in Existing(vm.listed)
             PROVE  /\ \A s \in samples' : s.metric = "kubevirt_vm_info" /\ s.labels.key = k =>
                          s.labels.group = GetVMStatusGroup(ListedVM(k).status)
                    /\ Call("reports", k) \notin ToSet(vm'.calls) =>
                          {s \in samples' : s.metric \in FactMetrics /\ s.labels.key = k}
                             = Facts(k, ListedVM(k))
  BY <1>1 DEF VMsTold, ListedVM
<1>4. {s \in samples' : s.metric \in FactMetrics /\ s.labels.key = k}
        = {s \in samples : s.metric \in FactMetrics /\ s.labels.key = k}
  BY <1>2, FamiliesDisjoint
<1> QED
  BY <1>1, <1>2, <1>3, <1>4 DEF VMsTold

LEMMA ToldReports ==
    ASSUME IInv, VMsTold, VMReports PROVE VMsTold'
<1> DEFINE q == Head(vm.calls).key
<1>1. /\ running /\ running' = running /\ Listed(vm) /\ vm'.listed = vm.listed
      /\ ToSet(vm.calls) = {Call("reports", q)} \cup ToSet(vm'.calls)
      /\ Call("reports", q) \in ToSet(vm.calls)
  BY VMReportsStep, VMCallFacts
<1>2. PICK new : /\ samples' = samples \cup ToSet(new)
                 /\ \A s \in ToSet(new) : s.metric \notin {"kubevirt_vm_info", "kubevirt_vmi_info"} /\ s.labels.key = q
                 /\ \A s : s \in ToSet(new) /\ s.metric \in FactMetrics <=> s \in Facts(q, ListedVM(q))
  BY VMReportsStep
<1> HIDE DEF q
<1> SUFFICES ASSUME NEW k \in Existing(vm.listed)
             PROVE  /\ \A s \in samples' : s.metric = "kubevirt_vm_info" /\ s.labels.key = k =>
                          s.labels.group = GetVMStatusGroup(ListedVM(k).status)
                    /\ Call("reports", k) \notin ToSet(vm'.calls) =>
                          {s \in samples' : s.metric \in FactMetrics /\ s.labels.key = k}
                             = Facts(k, ListedVM(k))
  BY <1>1 DEF VMsTold, ListedVM
<1> DEFINE T(S) == {s \in S : s.metric \in FactMetrics /\ s.labels.key = k}
<1>3. CASE k # q
  <2>1. T(samples') = T(samples)
    BY <1>2, <1>3
  <2>2. Call("reports", k) \notin ToSet(vm'.calls) => Call("reports", k) \notin ToSet(vm.calls)
    BY <1>1, <1>3, CallFacts
  <2> QED
    BY <1>1, <1>2, <2>1, <2>2 DEF VMsTold
<1>4. CASE k = q
  <2>1. T(samples) = {}
    <3> SUFFICES ASSUME NEW s \in T(samples) PROVE FALSE
      OBVIOUS
    <3>1. Of(s, vm, VMMetrics)
      BY VMOrigin
    <3>2. s.metric \in VMMetrics["reports"] /\ "reports" \in DOMAIN VMMetrics
      BY FamiliesDisjoint DEF VMMetrics
    <3>3. Made(vm, "reports", k)
      BY <3>1, <3>2, MetricsDisjoint DEF Of
    <3> QED
      BY <1>1, <1>4, <3>3 DEF Made
  <2>2. T(samples') = Facts(k, ListedVM(k))
    BY <1>2, <1>4, <2>1
  <2> QED
    BY <1>1, <1>2, <2>2 DEF VMsTold
<1> QED
  BY <1>3, <1>4

(* Of the timestamps of a VM one is set, that of its status group. *)
LEMMA OneSet ==
    ASSUME NEW S, NEW k, NEW o, VMOK(o),
           {s \in S : s.metric \in FactMetrics /\ s.labels.key = k} = Facts(k, o)
    PROVE  {g \in Groups : \E s \in S : /\ s.metric = TimestampName[g]
                                        /\ s.labels.key = k /\ s.value # 0}
             = {getTimestampMetric(o.status)}
<1> DEFINE Set(g) == \E s \in S : s.metric = TimestampName[g] /\ s.labels.key = k /\ s.value # 0
           t == getTimestampMetric(o.status)
<1>1. \A s : s \in S /\ s.metric \in FactMetrics /\ s.labels.key = k <=> s \in Facts(k, o)
  OBVIOUS
<1>2. \A x : x \in ToSet(reportVMTimestamps(k, o)) <=> \E g \in Groups : x = Timestamp(k, o, g)
  BY TimestampsReported
<1>3. \A x \in ToSet(CollectResourceRequestsAndLimits(k, o)) : x.metric \in ResourceMetrics
  BY ResourcesReported DEF From
<1>4. /\ TimestampMetrics \subseteq FactMetrics
      /\ \A g \in Groups : TimestampName[g] \in TimestampMetrics
  BY DEF FactMetrics, TimestampMetrics
<1>5. TimestampMetrics \cap ResourceMetrics = {}
  BY TimestampMetricNames DEF ResourceMetrics
<1>6. \A g : /\ Timestamp(k, o, g).metric = TimestampName[g] /\ Timestamp(k, o, g).labels.key = k
             /\ Timestamp(k, o, g).value = IF g = t THEN GetLastConditionTransitionTime(o) ELSE 0
  BY SampleFacts DEF Timestamp
<1>7. GetLastConditionTransitionTime(o) # 0
  BY TransitionTimeSet DEF VMOK
<1>8. t \in Groups
  BY GroupsListed DEF getTimestampMetric
<1> HIDE DEF t
<1>9. Set(t)
  <2>1. Timestamp(k, o, t) \in Facts(k, o)
    BY <1>2, <1>8 DEF Facts
  <2> QED
    BY <1>1, <1>6, <1>7, <2>1
<1>10. ASSUME NEW g \in Groups, Set(g) PROVE g = t
  <2>1. PICK s \in S : s.metric = TimestampName[g] /\ s.labels.key = k /\ s.value # 0
    BY <1>10
  <2>2. s \in Facts(k, o) /\ s.metric \in TimestampMetrics
    BY <1>1, <1>4, <2>1
  <2>3. PICK h \in Groups : s = Timestamp(k, o, h)
    BY <1>2, <1>3, <1>5, <2>2 DEF Facts
  <2>4. h = g
    BY <1>6, <2>1, <2>3, GroupsListed
  <2> QED
    BY <1>6, <2>1, <2>3, <2>4
<1> QED
  BY <1>8, <1>9, <1>10 DEF t

(* A scrape that ends has told everything of the VMs that were listed. *)
LEMMA AllTold ==
    ASSUME IInv, VMsTold, End
    PROVE  /\ Answer' = samples
           /\ \A s \in samples : s.metric \in FactMetrics \cup {"kubevirt_vm_info"} =>
                 LET k == s.labels.key
                     o == ListedVM(k)
                 IN  /\ VMOK(o)
                     /\ s.metric = "kubevirt_vm_info" => s.labels.group = GetVMStatusGroup(o.status)
                     /\ {r \in samples : r.metric \in FactMetrics /\ r.labels.key = k} = Facts(k, o)
           /\ \A k \in Existing(vm.listed) :
                 /\ VMOK(ListedVM(k))
                 /\ {r \in samples : r.metric \in FactMetrics /\ r.labels.key = k} = Facts(k, ListedVM(k))
<1>1. Answer' = samples
  BY DEF End, Answer
<1>2. running /\ vm.calls = <<>>
  BY DEF End
<1>3. ToSet(vm.calls) = {} /\ Listed(vm)
  BY <1>2, GoodEmpty DEF Listed
<1>4. vm = Started => FALSE
  BY <1>3, IdleAndStarted
<1>5. \A k \in Existing(vm.listed) : VMOK(ListedVM(k))
  <2>1. CASE vm = Idle
    BY <2>1 DEF Idle, Existing
  <2>2. CASE vm # Idle
    <3>1. StoreOK("vms", vm.listed)
      BY <1>4, <2>2 DEF IInv, CollectorsOK, CollectorOK
    <3> QED
      BY <3>1, VMsOK DEF ListedVM
  <2> QED
    BY <2>1, <2>2
<1>6. \A s \in samples : s.metric \in FactMetrics \cup {"kubevirt_vm_info"} => s.labels.key \in Existing(vm.listed)
  BY <1>2, VMOrigin DEF Of
<1> QED
  BY <1>1, <1>2, <1>3, <1>5, <1>6 DEF VMsTold

LEMMA TimestampsAtEnd ==
    ASSUME IInv, VMsTold, End PROVE OneStatusTimestamp'
<1>1. Answer' = samples
  BY AllTold
<1> SUFFICES ASSUME NEW i \in samples, i.metric = "kubevirt_vm_info"
             PROVE  {g \in Groups : \E s \in samples : /\ s.metric = TimestampName[g]
                                                       /\ s.labels.key = i.labels.key
                                                       /\ s.value # 0}
                      = {IF i.labels.group \in Groups THEN i.labels.group ELSE "error"}
  BY <1>1 DEF OneStatusTimestamp
<1> DEFINE k == i.labels.key
           o == ListedVM(k)
<1>2. /\ VMOK(o) /\ i.labels.group = GetVMStatusGroup(o.status)
      /\ {r \in samples : r.metric \in FactMetrics /\ r.labels.key = k} = Facts(k, o)
  BY AllTold
<1> HIDE DEF k, o
<1>3. {g \in Groups : \E s \in samples : /\ s.metric = TimestampName[g]
                                         /\ s.labels.key = k /\ s.value # 0}
        = {getTimestampMetric(o.status)}
  BY <1>2, OneSet
<1> QED
  BY <1>2, <1>3 DEF k, getTimestampMetric

-----------------------------------------------------------------------------
(* The sizes of a VM, and what the samples of a scrape say of them. *)
Values(S, k, resource, unit, source) ==
    {s.value : s \in {r \in S : /\ r.metric = "kubevirt_vm_resource_requests"
                                /\ r.labels.key = k /\ r.labels.resource = resource
                                /\ r.labels.unit = unit /\ r.labels.source = source}}
LimitValues(S, k) ==
    {s.value : s \in {r \in S : /\ r.metric = "kubevirt_vm_resource_limits"
                                /\ r.labels.key = k /\ r.labels.resource = "memory"}}
Sizes(S, k, t) ==
    \A x : x \in S /\ x.metric \in ResourceMetrics /\ x.labels.key = k
             <=> x \in MemorySamples(k, t) \/ x \in CPUSamples(k, t)
Reported(q) == IF IsZero(q) THEN {} ELSE {Value(q)}

LEMMA MemoryMembers ==
    ASSUME NEW k, NEW t
    PROVE  \A x : x \in MemorySamples(k, t) <=>
              \/ ~IsZero(t.memoryRequest) /\ x = Request(k, "memory", "bytes", "domain", Value(t.memoryRequest))
              \/ ~IsZero(t.guest) /\ x = Request(k, "memory", "bytes", "guest", Value(t.guest))
              \/ t.hugepages # {} /\ x = Request(k, "memory", "bytes", "hugepages", Value(t.hugepages))
              \/ ~IsZero(t.memoryLimit) /\ x = Limit(k, "memory", "bytes", Value(t.memoryLimit))
              \/ /\ ~IsZero(GetVirtualMemory(t))
                 /\ x = Request(k, "memory", "bytes", "guest_effective", Value(GetVirtualMemory(t)))
BY DEF MemorySamples, Given

LEMMA CPUMembers ==
    ASSUME NEW k, NEW t
    PROVE  \A x : x \in CPUSamples(k, t) <=>
              \/ \E u \in Units : /\ t.cpu # {} /\ Value(t.cpu)[u] # 0
                                  /\ x = Request(k, "cpu", u, "domain", Value(t.cpu)[u])
              \/ ~IsZero(t.cpuRequest) /\ x = Request(k, "cpu", "cores", "requests", Value(t.cpuRequest))
              \/ /\ IsZero(t.cpuRequest) /\ t.cpu = {}
                 /\ \E u \in Units : x = Request(k, "cpu", u, "default", 1)
              \/ ~IsZero(t.cpuLimit) /\ x = Limit(k, "cpu", "cores", Value(t.cpuLimit))
              \/ x = Request(k, "cpu", "cores", "guest_effective",
                             IF t.cpu = {} THEN 1 ELSE GetNumberOfVCPUs(t.cpu))
BY DEF CPUSamples, DomainSamples, DefaultSamples, Given

LEMMA MemoryValues ==
    ASSUME NEW S, NEW k, NEW t, Sizes(S, k, t)
    PROVE  /\ Values(S, k, "memory", "bytes", "guest") = Reported(t.guest)
           /\ Values(S, k, "memory", "bytes", "domain") = Reported(t.memoryRequest)
           /\ Values(S, k, "memory", "bytes", "guest_effective") = Reported(GetVirtualMemory(t))
           /\ LimitValues(S, k) = Reported(t.memoryLimit)
<1> DEFINE M(x) == x \in MemorySamples(k, t)
<1>1. \A x \in CPUSamples(k, t) : x.labels.resource = "cpu"
  BY CPUMembers, RequestLabels
<1>2. \A x, src : x \in S /\ x.metric = "kubevirt_vm_resource_requests" /\ x.labels.key = k
                    /\ x.labels.resource = "memory" /\ x.labels.unit = "bytes" /\ x.labels.source = src
                  => M(x)
  BY <1>1 DEF Sizes, ResourceMetrics
<1>3. \A x : x \in S /\ x.metric = "kubevirt_vm_resource_limits" /\ x.labels.key = k
               /\ x.labels.resource = "memory" => M(x)
  BY <1>1 DEF Sizes, ResourceMetrics
<1>4. \A x : M(x) => x \in S
  BY DEF Sizes
<1>5. Values(S, k, "memory", "bytes", "guest") = Reported(t.guest)
  BY <1>2, <1>4, MemoryMembers, RequestLabels DEF Values, Reported
<1>6. Values(S, k, "memory", "bytes", "domain") = Reported(t.memoryRequest)
  BY <1>2, <1>4, MemoryMembers, RequestLabels DEF Values, Reported
<1>7. Values(S, k, "memory", "bytes", "guest_effective") = Reported(GetVirtualMemory(t))
  BY <1>2, <1>4, MemoryMembers, RequestLabels DEF Values, Reported
<1>8. LimitValues(S, k) = Reported(t.memoryLimit)
  BY <1>3, <1>4, MemoryMembers, RequestLabels DEF LimitValues, Reported
<1> QED
  BY <1>5, <1>6, <1>7, <1>8

LEMMA CPUValues ==
    ASSUME NEW S, NEW k, NEW t, Sizes(S, k, t)
    PROVE  /\ \A u \in Units : Values(S, k, "cpu", u, "domain")
                 = IF t.cpu # {} /\ Value(t.cpu)[u] # 0 THEN {Value(t.cpu)[u]} ELSE {}
           /\ Values(S, k, "cpu", "cores", "guest_effective")
                 = {IF t.cpu = {} THEN 1 ELSE GetNumberOfVCPUs(t.cpu)}
<1> DEFINE C(x) == x \in CPUSamples(k, t)
<1>1. \A x \in MemorySamples(k, t) : x.labels.resource = "memory"
  BY MemoryMembers, RequestLabels
<1>2. \A x : x \in S /\ x.metric = "kubevirt_vm_resource_requests" /\ x.labels.key = k
               /\ x.labels.resource = "cpu" => C(x)
  BY <1>1 DEF Sizes, ResourceMetrics
<1>3. \A x : C(x) => x \in S
  BY DEF Sizes
<1>4. ASSUME NEW u \in Units
      PROVE  Values(S, k, "cpu", u, "domain")
                 = IF t.cpu # {} /\ Value(t.cpu)[u] # 0 THEN {Value(t.cpu)[u]} ELSE {}
  <2>1. CASE t.cpu # {} /\ Value(t.cpu)[u] # 0
    <3>1. C(Request(k, "cpu", u, "domain", Value(t.cpu)[u]))
      BY <2>1, CPUMembers
    <3>2. \A x : C(x) /\ x.metric = "kubevirt_vm_resource_requests" /\ x.labels.unit = u /\ x.labels.source = "domain"
                 => x = Request(k, "cpu", u, "domain", Value(t.cpu)[u])
      BY CPUMembers, RequestLabels
    <3> QED
      BY <1>2, <1>3, <2>1, <3>1, <3>2, RequestLabels DEF Values
  <2>2. CASE ~(t.cpu # {} /\ Value(t.cpu)[u] # 0)
    <3>1. \A x : C(x) /\ x.metric = "kubevirt_vm_resource_requests" => ~(x.labels.unit = u /\ x.labels.source = "domain")
      BY <2>2, CPUMembers, RequestLabels
    <3> QED
      BY <1>2, <2>2, <3>1 DEF Values
  <2> QED
    BY <2>1, <2>2
<1>5. Values(S, k, "cpu", "cores", "guest_effective")
                 = {IF t.cpu = {} THEN 1 ELSE GetNumberOfVCPUs(t.cpu)}
  <2> DEFINE y == Request(k, "cpu", "cores", "guest_effective",
                          IF t.cpu = {} THEN 1 ELSE GetNumberOfVCPUs(t.cpu))
  <2>1. C(y)
    BY CPUMembers
  <2>2. \A x : C(x) /\ x.metric = "kubevirt_vm_resource_requests" /\ x.labels.source = "guest_effective" => x = y
    BY CPUMembers, RequestLabels
  <2> QED
    BY <1>2, <1>3, <2>1, <2>2, RequestLabels DEF Values
<1> QED
  BY <1>4, <1>5

(* A factor that is not set counts as one, and so does a product that      *)
(* wraps around to zero.                                                   *)
Factor(n) == IF n = 0 THEN 1 ELSE n
Wrapped(n) == IF n % 2^Width = 0 THEN 1 ELSE n % 2^Width

LEMMA TimesFacts ==
    ASSUME NEW a \in 0..(2^Width - 1), NEW b \in 0..(2^Width - 1)
    PROVE  Times(a, b) \in 0..(2^Width - 1) /\ Factor(Times(a, b)) = Wrapped(Factor(a) * Factor(b))
<1> DEFINE w == 2^Width
<1>1. w \in Nat \ {0} /\ a \in 0..(w - 1) /\ b \in 0..(w - 1)
  BY ScrapeAssumption
<1>2. \A n : Wrapped(n) = Factor(n % w)
  BY DEF Wrapped, Factor
<1>3. a # 0 /\ b # 0 => Times(a, b) = (a * b) % w
  BY DEF Times
<1> HIDE DEF w
<1>4. \A n \in 1..(w - 1) : n % w = n
  BY <1>1
<1>5. 1 % w = 1 \/ 1 % w = 0
  BY <1>1
<1>6. CASE a = 0 /\ b = 0
  <2>1. Times(a, b) = 0
    BY <1>6 DEF Times
  <2> QED
    BY <1>1, <1>2, <1>5, <1>6, <2>1 DEF Factor, w
<1>7. CASE a = 0 /\ b # 0
  <2>1. Times(a, b) = b /\ Factor(a) * Factor(b) = b
    BY <1>1, <1>7 DEF Times, Factor
  <2> QED
    BY <1>1, <1>2, <1>4, <1>7, <2>1 DEF w
<1>8. CASE a # 0 /\ b = 0
  <2>1. Times(a, b) = a /\ Factor(a) * Factor(b) = a
    BY <1>1, <1>8 DEF Times, Factor
  <2> QED
    BY <1>1, <1>2, <1>4, <1>8, <2>1 DEF w
<1>9. CASE a # 0 /\ b # 0
  <2>1. Factor(a) * Factor(b) = a * b
    BY <1>9 DEF Factor
  <2>2. a * b \in Nat
    BY <1>1
  <2>3. \A n \in Nat : n % w \in 0..(w - 1)
    BY <1>1
  <2>4. (a * b) % w \in 0..(w - 1)
    BY <2>2, <2>3
  <2> QED
    BY <1>2, <1>3, <1>9, <2>1, <2>4 DEF w
<1> QED
  BY <1>6, <1>7, <1>8, <1>9

LEMMA VCPUsAreProduct ==
    ASSUME NEW cpu, cpu # {}, \A c \in cpu : {c.cores, c.sockets, c.threads} \subseteq 0..(2^Width - 1)
    PROVE  GetNumberOfVCPUs(cpu)
             = Wrapped(Wrapped(Factor(Value(cpu).cores) * Factor(Value(cpu).sockets)) * Factor(Value(cpu).threads))
<1> DEFINE c == Value(cpu)
           x == c.cores
           y == c.sockets
           z == c.threads
           n == Times(x, y)
<1>1. x \in 0..(2^Width - 1) /\ y \in 0..(2^Width - 1) /\ z \in 0..(2^Width - 1)
  BY ValueFacts
<1>2. GetNumberOfVCPUs(cpu) = Factor(Times(n, z))
  BY DEF GetNumberOfVCPUs, Factor
<1> HIDE DEF x, y, z
<1>3. n \in 0..(2^Width - 1) /\ Factor(n) = Wrapped(Factor(x) * Factor(y))
  BY <1>1, TimesFacts
<1>4. Factor(Times(n, z)) = Wrapped(Factor(n) * Factor(z))
  <2> HIDE DEF n
  <2> QED
    BY <1>1, <1>3, TimesFacts
<1>5. GetNumberOfVCPUs(cpu) = Wrapped(Wrapped(Factor(x) * Factor(y)) * Factor(z))
  BY <1>2, <1>3, <1>4
<1> QED
  BY <1>5 DEF x, y, z

LEMMA LargestFactor ==
    ASSUME NEW n \in Nat, NEW S, S = (IF n # 0 THEN {n} ELSE {}) \cup {1}
    PROVE  Max(S) = Factor(n)
<1>1. Factor(n) \in S /\ \A y \in S : Factor(n) >= y
  BY DEF Factor
<1>2. \A x \in S : (\A y \in S : x >= y) => x = Factor(n)
  BY DEF Factor
<1> QED
  BY <1>1, <1>2 DEF Max

LEMMA SizesFollow ==
    ASSUME NEW k, NEW o, o.template # {}, Sizes(samples, k, Value(o.template)),
           \A c \in Value(o.template).cpu : {c.cores, c.sockets, c.threads} \subseteq 0..(2^Width - 1)
    PROVE  SizesAgree(k, o)
<1> DEFINE t == Value(o.template)
           S == samples
           memory(source) == Values(S, k, "memory", "bytes", source)
           V(u) == Values(S, k, "cpu", u, "domain") \cup {1}
<1>1. Sizes(S, k, t) /\ \A c \in t.cpu : {c.cores, c.sockets, c.threads} \subseteq 0..(2^Width - 1)
  OBVIOUS
<1>2. \A r, u, src : Requested(k, r, u, src) = Values(S, k, r, u, src)
  BY DEF Requested, Values
<1>3. SizesAgree(k, o) <=>
         /\ memory("guest_effective") = IF t.guest # {} THEN memory("guest")
                                        ELSE IF t.memoryRequest # {} THEN memory("domain")
                                        ELSE LimitValues(S, k)
         /\ Values(S, k, "cpu", "cores", "guest_effective")
               = {Wrapped(Wrapped(Max(V("cores")) * Max(V("sockets"))) * Max(V("threads")))}
  BY <1>2 DEF SizesAgree, LimitValues, Wrapped
<1> HIDE DEF t, S
<1>4. memory("guest_effective") = IF t.guest # {} THEN memory("guest")
                                  ELSE IF t.memoryRequest # {} THEN memory("domain")
                                  ELSE LimitValues(S, k)
  <2>1. /\ memory("guest") = Reported(t.guest) /\ memory("domain") = Reported(t.memoryRequest)
        /\ memory("guest_effective") = Reported(GetVirtualMemory(t))
        /\ LimitValues(S, k) = Reported(t.memoryLimit)
    BY <1>1, MemoryValues
  <2>2. Reported({}) = {}
    BY DEF Reported, IsZero
  <2> QED
    BY <2>1, <2>2 DEF GetVirtualMemory
<1>5. Values(S, k, "cpu", "cores", "guest_effective")
         = {Wrapped(Wrapped(Max(V("cores")) * Max(V("sockets"))) * Max(V("threads")))}
  <2> DEFINE n(u) == IF t.cpu = {} THEN 0 ELSE Value(t.cpu)[u]
  <2>1. {"cores", "sockets", "threads"} \subseteq Units
    BY DEF Units
  <2>2. \A u \in {"cores", "sockets", "threads"} : n(u) \in Nat
    BY <1>1, ValueFacts, ScrapeAssumption
  <2>3. \A u \in {"cores", "sockets", "threads"} : V(u) = (IF n(u) # 0 THEN {n(u)} ELSE {}) \cup {1}
    BY <1>1, <2>1, CPUValues
  <2>7. CASE t.cpu = {}
    <3>1. n("cores") = 0 /\ n("sockets") = 0 /\ n("threads") = 0
      BY <2>7
    <3>2. 1 % 2^Width = 1 \/ 1 % 2^Width = 0
      BY ScrapeAssumption
    <3>3. Wrapped(1) = 1
      BY <3>2 DEF Wrapped
    <3> HIDE DEF n, V
    <3>4. Max(V("cores")) = 1 /\ Max(V("sockets")) = 1 /\ Max(V("threads")) = 1
      BY <2>2, <2>3, <3>1, LargestFactor DEF Factor
    <3>5. Wrapped(Wrapped(Max(V("cores")) * Max(V("sockets"))) * Max(V("threads"))) = 1
      BY <3>3, <3>4
    <3> QED
      BY <1>1, <2>7, <3>5, CPUValues
  <2>8. CASE t.cpu # {}
    <3>1. n("cores") = Value(t.cpu).cores /\ n("sockets") = Value(t.cpu).sockets /\ n("threads") = Value(t.cpu).threads
      BY <2>8
    <3> HIDE DEF n, V
    <3>2. /\ Max(V("cores")) = Factor(n("cores"))
          /\ Max(V("sockets")) = Factor(n("sockets"))
          /\ Max(V("threads")) = Factor(n("threads"))
      BY <2>2, <2>3, LargestFactor
    <3>3. GetNumberOfVCPUs(t.cpu)
            = Wrapped(Wrapped(Max(V("cores")) * Max(V("sockets"))) * Max(V("threads")))
      BY <1>1, <2>8, <3>1, <3>2, VCPUsAreProduct
    <3> QED
      BY <1>1, <2>8, <3>3, CPUValues
  <2> QED
    BY <2>7, <2>8
<1> QED
  BY <1>3, <1>4, <1>5

LEMMA SizesAtEnd ==
    ASSUME IInv, VMsTold, End, NEW k \in Existing(vm.listed) PROVE SizesAgree(k, Value(vm.listed[k]))
<1> DEFINE o == ListedVM(k)
           t == Value(o.template)
<1>1. VMOK(o) /\ {r \in samples : r.metric \in FactMetrics /\ r.labels.key = k} = Facts(k, o)
  BY AllTold
<1>2. o = Value(vm.listed[k])
  BY DEF ListedVM
<1> HIDE DEF o
<1>3. CASE o.template = {}
  BY <1>2, <1>3 DEF SizesAgree
<1>4. CASE o.template # {}
  <2>1. \A x \in ToSet(reportVMTimestamps(k, o)) : x.metric \in TimestampMetrics
    BY TimestampsReported DEF From
  <2>2. TimestampMetrics \cap ResourceMetrics = {} /\ ResourceMetrics \subseteq FactMetrics
    BY TimestampMetricNames DEF ResourceMetrics, FactMetrics
  <2>3. \A x \in ToSet(CollectResourceRequestsAndLimits(k, o)) : x.metric \in ResourceMetrics
    BY ResourcesReported DEF From
  <2>4. \A x : x \in samples /\ x.metric \in ResourceMetrics /\ x.labels.key = k
                 <=> x \in ToSet(CollectResourceRequestsAndLimits(k, o))
    BY <1>1, <2>1, <2>2, <2>3 DEF Facts
  <2>5. ToSet(CollectResourceRequestsAndLimits(k, o)) = MemorySamples(k, t) \cup CPUSamples(k, t)
    BY <1>4, ResourcesReported
  <2>6. Sizes(samples, k, t)
    BY <2>4, <2>5 DEF Sizes
  <2>7. \A c \in t.cpu : {c.cores, c.sockets, c.threads} \subseteq 0..(2^Width - 1)
    BY <1>1, <1>4, ValueFacts DEF VMOK
  <2> QED
    BY <1>2, <1>4, <2>6, <2>7, SizesFollow
<1> QED
  BY <1>3, <1>4

-----------------------------------------------------------------------------
(* The invariant of what a scrape tells of VMs, and of what it is answered. *)
ToldInv == VMsTold /\ OneStatusTimestamp

LEMMA NothingAnswered ==
    ASSUME Answer = {} PROVE OneStatusTimestamp
BY DEF OneStatusTimestamp

LEMMA NothingAnsweredNext ==
    ASSUME running' PROVE OneStatusTimestamp'
<1>1. Answer' = {}
  BY DEF Answer
<1> QED
  BY <1>1 DEF OneStatusTimestamp

LEMMA AnswerKept ==
    ASSUME UNCHANGED <<running, samples>>, OneStatusTimestamp
    PROVE  OneStatusTimestamp'
<1>1. Answer' = Answer
  BY DEF Answer
<1> QED
  BY <1>1 DEF OneStatusTimestamp

LEMMA ToldNext ==
    ASSUME IInv, ToldInv, [Next]_vars PROVE ToldInv'
<1>0. VMsTold /\ OneStatusTimestamp
  BY DEF ToldInv
<1>1. CASE Update \/ UNCHANGED vars
  <2>1. UNCHANGED <<running, samples, vm>>
    BY <1>1 DEF Update, Change, vars
  <2>2. VMsTold'
    BY <1>0, <2>1 DEF VMsTold, ListedVM
  <2> QED
    BY <1>0, <2>1, <2>2, AnswerKept DEF ToldInv
<1>2. CASE Begin
  <2>1. running' /\ ~Listed(vm')
    BY <1>2, IdleAndStarted DEF Begin
  <2>2. VMsTold'
    BY <2>1 DEF VMsTold
  <2> QED
    BY <2>1, <2>2, NothingAnsweredNext DEF ToldInv
<1>3. CASE End
  <2>1. VMsTold'
    BY <1>3 DEF End, VMsTold
  <2> QED
    BY <1>0, <1>3, <2>1, TimestampsAtEnd DEF ToldInv
<1>4. CASE ListVMs
  <2>1. /\ samples' = samples /\ running' = running /\ vm'.listed = stores.vms
        /\ \A k \in Existing(stores.vms) : Call("reports", k) \in ToSet(vm'.calls)
        /\ \A s \in samples : s.metric # "kubevirt_vm_info"
    BY <1>4, ListVMsStep, VMOrigin
  <2>2. VMsTold'
    BY <2>1 DEF VMsTold
  <2> QED
    BY <1>0, <2>1, <2>2, AnswerKept DEF ToldInv
<1>5. CASE VMDisks
  <2>1. running' /\ VMsTold'
    BY <1>0, <1>5, VMDisksStep, ToldDisks
  <2> QED
    BY <2>1, NothingAnsweredNext DEF ToldInv
<1>6. CASE VMInfo
  <2>1. running' /\ VMsTold'
    BY <1>0, <1>6, VMInfoStep, ToldInfo
  <2> QED
    BY <2>1, NothingAnsweredNext DEF ToldInv
<1>7. CASE VMReports
  <2>1. running' /\ VMsTold'
    BY <1>0, <1>7, VMReportsStep, ToldReports
  <2> QED
    BY <2>1, NothingAnsweredNext DEF ToldInv
<1>8. CASE ListVMIs
  <2>1. UNCHANGED <<running, samples, vm>>
    BY <1>8 DEF ListVMIs
  <2>2. VMsTold'
    BY <1>0, <2>1 DEF VMsTold, ListedVM
  <2> QED
    BY <1>0, <2>1, <2>2, AnswerKept DEF ToldInv
<1>9. CASE VMIInfo \/ VMIReports \/ MigrationReports \/ StatisticsReports
  <2>1. PICK new : /\ running /\ UNCHANGED <<running, vm>> /\ samples' = samples \cup ToSet(new)
                   /\ \A s \in ToSet(new) : s.metric \notin VMReportMetrics /\ s.metric # "kubevirt_vm_info"
    <3>1. CASE VMIInfo
      BY <3>1, VMIInfoStep, FamiliesDisjoint
    <3>2. CASE VMIReports
      BY <3>2, VMIReportsStep DEF Elsewhere
    <3>3. CASE MigrationReports
      BY <3>3, MigrationReportsStep DEF Elsewhere
    <3>4. CASE StatisticsReports
      BY <3>4, StatisticsReportsStep DEF Elsewhere
    <3> QED
      BY <1>9, <3>1, <3>2, <3>3, <3>4
  <2>2. running' /\ VMsTold'
    BY <1>0, <2>1, ToldElsewhere
  <2> QED
    BY <2>2, NothingAnsweredNext DEF ToldInv
<1> QED
  BY <1>1, <1>2, <1>3, <1>4, <1>5, <1>6, <1>7, <1>8, <1>9 DEF Next

LEMMA Told == Spec => []ToldInv
<1>1. Init => ToldInv
  <2> SUFFICES ASSUME Init PROVE ToldInv
    OBVIOUS
  <2>1. Answer = {} /\ VMsTold
    BY DEF Init, Answer, VMsTold
  <2> QED
    BY <2>1, NothingAnswered DEF ToldInv
<1> QED
  BY <1>1, ToldNext, Invariance, PTL DEF Spec

(* Of the five status timestamps of a VM exactly one is set, that of the   *)
(* group that kubevirt_vm_info shows in the same scrape                    *)
(* (reportVMTimestamps, getTimestampMetric), although the two are reported *)
(* by different passes and the VM may change in between: both use the VM   *)
(* that was listed.                                                        *)
THEOREM TimestampMatchesInfo == Spec => []OneStatusTimestamp
BY Told, PTL DEF ToldInv

(* When a scrape ends, the effective memory and number of CPUs of every VM *)
(* it listed agree with the requests and limits it reports                 *)
(* (GetVirtualMemory, GetNumberOfVCPUs), for every template of a VM and    *)
(* every topology, those whose product wraps around included.              *)
THEOREM EffectiveSizesMatch == Spec => EffectiveSizesAgree
<1> DEFINE A == running /\ ~running' =>
                   \A k \in Existing(vm.listed) : SizesAgree(k, Value(vm.listed[k]))
<1>1. ASSUME IInv, ToldInv, [Next]_vars PROVE [A]_vars
  <2>1. CASE End
    BY <1>1, <2>1, SizesAtEnd DEF ToldInv
  <2>2. CASE ~End
    <3>1. running' = running \/ running'
      BY <1>1, <2>2 DEF Next, Update, Change, Begin, ListVMs, VMDisks, VMInfo, VMReports, ListVMIs, VMIInfo,
                        VMIReports, MigrationReports, StatisticsReports, Reports, vars
    <3> QED
      BY <3>1
  <2> QED
    BY <2>1, <2>2
<1>2. Spec => [][A]_vars
  BY <1>1, Invariance, Told, PTL DEF Spec
<1> QED
  BY <1>2 DEF EffectiveSizesAgree

-----------------------------------------------------------------------------
(* What is told of the VMIs follows from those that were listed. *)
ListedVMI(k) == Value(vmi.listed[k])
TellMetrics == {"kubevirt_vmi_info"} \cup SeriesMetrics
CreatedFor(p, uid) == p \in DOMAIN Pods /\ \E pod \in Pods[p] : pod.createdBy = uid
InfoFits(s, o) == /\ s.labels.node = o.node
                  /\ s.labels.evictable = IsVMIEvictable(o)
                  /\ s.labels.pod # None => CreatedFor(<<s.labels.key[1], s.labels.pod>>, o.uid)
VMIsTold ==
    running =>
        /\ \A s \in samples : s.metric \in SeriesMetrics => Fits(s, ListedVMI(s.labels.key))
        /\ \A s \in samples : s.metric = "kubevirt_vmi_info" => InfoFits(s, ListedVMI(s.labels.key))
        /\ \A s, r \in samples : /\ s.metric = "kubevirt_vmi_info" /\ r.metric = "kubevirt_vmi_info"
                                /\ s.labels.key = r.labels.key => s = r

LEMMA VMIOrigin ==
    ASSUME IInv, NEW s \in samples, s.metric \in TellMetrics
    PROVE  /\ Of(s, vmi, VMIMetrics)
           /\ s.metric = "kubevirt_vmi_info" => Made(vmi, "info", s.labels.key)
<1>1. Origin(s)
  BY DEF IInv, Origins
<1>2. TellMetrics \subseteq {"kubevirt_vmi_info"} \cup VMIReportMetrics
  BY DEF TellMetrics, SeriesMetrics, VMIReportMetrics
<1>3. s.metric \in {"kubevirt_vmi_info"} \cup VMIReportMetrics
  BY <1>2
<1>4. \/ s.metric \in VMIMetrics["reports"] /\ "reports" \in DOMAIN VMIMetrics
      \/ s.metric \in VMIMetrics["info"] /\ "info" \in DOMAIN VMIMetrics
  BY <1>3 DEF VMIMetrics
<1>5. Of(s, vmi, VMIMetrics)
  BY <1>1, <1>4, MetricsDisjoint DEF Origin, Of
<1>6. ASSUME s.metric = "kubevirt_vmi_info" PROVE Made(vmi, "info", s.labels.key)
  <2>1. s.metric \in VMIMetrics["info"] /\ "info" \in DOMAIN VMIMetrics
    BY <1>6 DEF VMIMetrics
  <2> QED
    BY <1>5, <2>1, MetricsDisjoint DEF Of
<1> QED
  BY <1>5, <1>6

(* A call of the VMI collector. *)
LEMMA VMICallFacts ==
    ASSUME IInv, NEW do \in {"info", "reports"}, Calls(vmi, do), vmi' = Done(vmi)
    PROVE  LET k == Head(vmi.calls).key IN
           /\ vmi'.listed = vmi.listed /\ k \in Existing(vmi.listed)
           /\ Call(do, k) \in ToSet(vmi.calls)
<1> DEFINE V == {"info", "reports"}
<1>1. CollectorOK(vmi, "vmis", V) /\ "list" \notin V /\ do \in V
  BY DEF IInv, CollectorsOK
<1> DEFINE k == Head(vmi.calls).key
           d == Done(vmi)
<1> HIDE DEF V
<1>2. /\ d.listed = vmi.listed /\ k \in Existing(vmi.listed)
      /\ ToSet(vmi.calls) = {Call(do, k)} \cup ToSet(d.calls)
  BY <1>1, CollectorFacts
<1>3. vmi' = d
  OBVIOUS
<1> HIDE DEF k, d
<1>4. vmi'.listed = vmi.listed /\ k \in Existing(vmi.listed) /\ Call(do, k) \in ToSet(vmi.calls)
  BY <1>2, <1>3
<1> QED
  BY <1>4 DEF k

(* A step that says nothing of VMIs. *)
LEMMA VMIsElsewhere ==
    ASSUME VMIsTold, running' = running, vmi'.listed = vmi.listed,
           \A s \in samples' : s \in samples \/ s.metric \notin TellMetrics
    PROVE  VMIsTold'
<1>1. \A s \in samples' : s.metric \in TellMetrics => s \in samples
  OBVIOUS
<1>2. \A k : ListedVMI(k)' = ListedVMI(k)
  BY DEF ListedVMI
<1> QED
  BY <1>1, <1>2 DEF VMIsTold, TellMetrics

LEMMA VMIsToldInfo ==
    ASSUME IInv, VMIsTold, VMIInfo PROVE VMIsTold'
<1> DEFINE k == Head(vmi.calls).key
           o == ListedVMI(k)
<1>1. PICK new : \E pod \in getVMIPod(k, o, stores.pods) :
         /\ samples' = samples \cup ToSet(new)
         /\ \A s, r \in ToSet(new) : s = r
         /\ \A s \in ToSet(new) : /\ s.metric = "kubevirt_vmi_info" /\ s.labels.key = k
                                  /\ s.labels.pod = pod /\ s.labels.node = o.node
                                  /\ s.labels.evictable = IsVMIEvictable(o)
  BY VMIInfoStep DEF ListedVMI
<1>2. PICK pod \in getVMIPod(k, o, stores.pods) :
         /\ samples' = samples \cup ToSet(new)
         /\ \A s, r \in ToSet(new) : s = r
         /\ \A s \in ToSet(new) : /\ s.metric = "kubevirt_vmi_info" /\ s.labels.key = k
                                  /\ s.labels.pod = pod /\ s.labels.node = o.node
                                  /\ s.labels.evictable = IsVMIEvictable(o)
  BY <1>1
<1>3. running /\ running' = running
  BY VMIInfoStep
<1>4. vmi'.listed = vmi.listed /\ Call("info", k) \in ToSet(vmi.calls)
  BY VMICallFacts DEF VMIInfo
<1>5. StoreOK("pods", stores.pods)
  BY KindsListed DEF IInv, TypeOK
<1>6. ASSUME pod # None PROVE CreatedFor(<<k[1], pod>>, o.uid)
  <2> DEFINE p == <<k[1], pod>>
  <2> HIDE DEF k, o
  <2>1. PICK content \in stores.pods[p] : content.createdBy = o.uid
    BY <1>2, <1>5, <1>6, PodFound
  <2>2. p \in DOMAIN stores.pods
    <3>1. PICK q \in MatchingPods(k, o, stores.pods) : pod = q[2]
      BY <1>2, <1>6 DEF getVMIPod
    <3>2. q \in DOMAIN stores.pods /\ q[1] = k[1]
      BY DEF MatchingPods
    <3>3. DOMAIN stores.pods = DOMAIN Pods
      BY <1>5, KindsListed, StoreFacts
    <3> QED
      BY <3>1, <3>2, <3>3, ScrapeAssumption
  <2>3. DOMAIN stores.pods = DOMAIN Pods /\ stores.pods[p] \in {{}} \cup {{c} : c \in Pods[p]}
    BY <1>5, <2>2, KindsListed DEF StoreOK
  <2> QED
    BY <2>1, <2>2, <2>3 DEF CreatedFor, p
<1>7. ASSUME NEW s \in samples, s.metric = "kubevirt_vmi_info" PROVE s.labels.key # k
  <2>1. Made(vmi, "info", s.labels.key)
    BY <1>7, VMIOrigin DEF TellMetrics
  <2> QED
    BY <1>4, <2>1 DEF Made
<1>8. \A q : ListedVMI(q)' = ListedVMI(q)
  BY <1>4 DEF ListedVMI
<1> HIDE DEF k
<1>9. \A s \in ToSet(new) : InfoFits(s, ListedVMI(s.labels.key)) /\ s.metric \notin SeriesMetrics
  BY <1>2, <1>6 DEF InfoFits, SeriesMetrics, MigrationTimeMetrics
<1> QED
  BY <1>2, <1>3, <1>7, <1>8, <1>9 DEF VMIsTold

LEMMA VMIsToldReports ==
    ASSUME IInv, VMIsTold, VMIReports PROVE VMIsTold'
<1> DEFINE k == Head(vmi.calls).key
<1>1. PICK new : /\ samples' = samples \cup ToSet(new)
                 /\ \A s \in ToSet(new) :
                       /\ Elsewhere(s) /\ s.labels.key = k
                       /\ s.metric \in SeriesMetrics => Fits(s, ListedVMI(k))
  BY VMIReportsStep DEF ListedVMI
<1>2. running /\ running' = running
  BY VMIReportsStep
<1>3. vmi'.listed = vmi.listed
  BY VMICallFacts DEF VMIReports
<1>4. \A q : ListedVMI(q)' = ListedVMI(q)
  BY <1>3 DEF ListedVMI
<1> HIDE DEF k
<1> QED
  BY <1>1, <1>2, <1>4 DEF VMIsTold, Elsewhere

LEMMA VMIsToldNext ==
    ASSUME IInv, VMIsTold, [Next]_vars PROVE VMIsTold'
<1>1. CASE Update \/ ListVMs \/ UNCHANGED vars
  <2>1. UNCHANGED <<running, samples, vmi>>
    BY <1>1 DEF Update, Change, ListVMs, vars
  <2> QED
    BY <2>1, VMIsElsewhere
<1>2. CASE Begin
  BY <1>2 DEF Begin, VMIsTold
<1>3. CASE End
  BY <1>3 DEF End, VMIsTold
<1>4. CASE ListVMIs
  <2>1. samples' = samples /\ Calls(vmi, "list") /\ running' = running
    BY <1>4 DEF ListVMIs
  <2>2. ASSUME NEW s \in samples, s.metric \in TellMetrics PROVE FALSE
    <3>1. Of(s, vmi, VMIMetrics)
      BY <2>2, VMIOrigin
    <3>2. Listed(vmi)
      BY <3>1 DEF Of, Made
    <3>3. Call("list", <<>>) \in ToSet(vmi.calls)
      <4> DEFINE V == {"info", "reports"}
      <4>1. CollectorOK(vmi, "vmis", V) /\ "list" \notin V
        BY DEF IInv, CollectorsOK
      <4> HIDE DEF V
      <4>2. vmi = Started
        BY <2>1, <4>1, ListPending
      <4> QED
        BY <4>2, IdleAndStarted
    <3> QED
      BY <3>2, <3>3 DEF Listed
  <2> QED
    BY <2>1, <2>2 DEF VMIsTold, TellMetrics
<1>5. CASE VMIInfo
  BY <1>5, VMIsToldInfo
<1>6. CASE VMIReports
  BY <1>6, VMIsToldReports
<1>7. CASE VMDisks \/ VMInfo \/ VMReports \/ MigrationReports \/ StatisticsReports
  <2>1. running' = running /\ vmi' = vmi
    BY <1>7 DEF VMDisks, VMInfo, VMReports, MigrationReports, StatisticsReports, Reports
  <2>2. TellMetrics \subseteq {"kubevirt_vmi_info"} \cup VMIReportMetrics
    BY DEF TellMetrics, SeriesMetrics, VMIReportMetrics
  <2>3. PICK new : /\ samples' = samples \cup ToSet(new)
                   /\ \A s \in ToSet(new) : s.metric \notin {"kubevirt_vmi_info"} \cup VMIReportMetrics
    <3>1. CASE VMDisks
      BY <3>1, VMDisksStep DEF Elsewhere
    <3>2. CASE VMInfo
      BY <3>2, VMInfoStep, FamiliesDisjoint
    <3>3. CASE VMReports
      BY <3>3, VMReportsStep DEF Elsewhere
    <3>4. CASE MigrationReports
      BY <3>4, MigrationReportsStep DEF Elsewhere
    <3>5. CASE StatisticsReports
      BY <3>5, StatisticsReportsStep DEF Elsewhere
    <3> QED
      BY <1>7, <3>1, <3>2, <3>3, <3>4, <3>5
  <2> QED
    BY <2>1, <2>2, <2>3, VMIsElsewhere
<1> QED
  BY <1>1, <1>2, <1>3, <1>4, <1>5, <1>6, <1>7 DEF Next

LEMMA SeriesAtEnd ==
    ASSUME IInv, VMIsTold, End PROVE VMISeriesAgree'
<1>1. Answer' = samples /\ running
  BY DEF End, Answer
<1>2. ASSUME NEW s \in samples, s.metric \in TellMetrics
      PROVE  s.labels.key \in DOMAIN VMIs /\ ListedVMI(s.labels.key) \in VMIs[s.labels.key]
  <2>1. Of(s, vmi, VMIMetrics)
    BY <1>2, VMIOrigin
  <2>2. s.labels.key \in Existing(vmi.listed)
    BY <1>1, <2>1 DEF Of
  <2>3. vmi # Idle /\ vmi # Started
    <3>1. Existing(Idle.listed) = {} /\ Existing(Started.listed) = {}
      BY DEF Idle, Started, Existing
    <3> QED
      BY <2>2, <3>1
  <2>4. StoreOK("vmis", vmi.listed)
    BY <2>3 DEF IInv, CollectorsOK, CollectorOK
  <2> QED
    BY <2>2, <2>4, KindsListed, StoreFacts DEF ListedVMI
<1> DEFINE told == {s \in samples : s.metric \in {"kubevirt_vmi_info", "kubevirt_vmi_non_evictable",
                                                  "kubevirt_vmi_status_addresses",
                                                  "kubevirt_vmi_migration_start_time_seconds",
                                                  "kubevirt_vmi_migration_end_time_seconds"}}
           infos == {s \in told : s.metric = "kubevirt_vmi_info"}
<1>3. /\ \A s \in told : s \in samples /\ s.metric \in TellMetrics
      /\ \A s \in infos : s \in samples /\ s.metric = "kubevirt_vmi_info" /\ s.metric \in TellMetrics
  BY DEF TellMetrics, SeriesMetrics, MigrationTimeMetrics
<1>4. ASSUME NEW i \in infos, NEW s \in told, s.labels.key = i.labels.key
      PROVE  /\ s.labels.node = i.labels.node
             /\ s.metric = "kubevirt_vmi_non_evictable" => (i.labels.evictable <=> s.value = 0)
  <2> DEFINE o == ListedVMI(i.labels.key)
  <2>1. InfoFits(i, o)
    BY <1>1, <1>3 DEF VMIsTold
  <2>2. CASE s.metric = "kubevirt_vmi_info"
    BY <1>1, <1>3, <1>4, <2>1, <2>2 DEF VMIsTold, InfoFits
  <2>3. CASE s.metric # "kubevirt_vmi_info"
    <3>1. Fits(s, o)
      BY <1>1, <1>3, <1>4, <2>3 DEF VMIsTold, TellMetrics
    <3>2. IsVMIEvictable(o) \in BOOLEAN
      BY DEF IsVMIEvictable
    <3> HIDE DEF o
    <3> QED
      BY <2>1, <3>1, <3>2 DEF InfoFits, Fits
  <2> QED
    BY <2>2, <2>3
<1>5. ASSUME NEW i \in infos, NEW j \in infos,
             i.labels.pod = j.labels.pod, i.labels.key[1] = j.labels.key[1], i.labels.pod # None
      PROVE  i = j
  <2> DEFINE k == i.labels.key
             l == j.labels.key
             p == <<k[1], i.labels.pod>>
  <2>1. /\ k \in DOMAIN VMIs /\ ListedVMI(k) \in VMIs[k]
        /\ l \in DOMAIN VMIs /\ ListedVMI(l) \in VMIs[l]
    BY <1>2, <1>3
  <2>2. CreatedFor(p, ListedVMI(k).uid) /\ CreatedFor(p, ListedVMI(l).uid)
    <3>1. InfoFits(i, ListedVMI(k)) /\ InfoFits(j, ListedVMI(l))
      BY <1>1, <1>3 DEF VMIsTold
    <3> QED
      BY <1>5, <3>1 DEF InfoFits
  <2> HIDE DEF k, l, p
  <2>3. k = l
    BY <2>1, <2>2, ObjectsAssumption DEF CreatedFor
  <2> QED
    BY <1>1, <1>3, <2>3 DEF k, l, VMIsTold
<1> HIDE DEF told, infos
<1>6. VMISeriesAgree' <=>
         /\ \A i \in infos : \A s \in told :
               s.labels.key = i.labels.key =>
                   /\ s.labels.node = i.labels.node
                   /\ s.metric = "kubevirt_vmi_non_evictable" => (i.labels.evictable <=> s.value = 0)
         /\ \A i, j \in infos :
               i.labels.pod = j.labels.pod /\ i.labels.key[1] = j.labels.key[1]
                 => i = j \/ i.labels.pod = None
  BY <1>1 DEF VMISeriesAgree, told, infos
<1> QED
  BY <1>4, <1>5, <1>6

(* The series of a VMI in a scrape fit together (getEvictionBlocker,       *)
(* collectVMIInterfacesInfo, CollectVMIMigrationTime next to               *)
(* CollectVMIInfo), and no pod is given for two VMIs (getVMIPod), however  *)
(* VMIs, pods and migrations change while the collector goes through its   *)
(* list.                                                                   *)
THEOREM VMISeriesFit == Spec => []VMISeriesAgree
<1>1. Init => VMIsTold /\ VMISeriesAgree
  <2>1. Init => Answer = {} /\ ~running
    BY DEF Init, Answer
  <2> QED
    BY <2>1 DEF VMIsTold, VMISeriesAgree
<1>2. ASSUME IInv, VMIsTold, VMISeriesAgree, [Next]_vars PROVE VMIsTold' /\ VMISeriesAgree'
  <2>1. VMIsTold'
    BY <1>2, VMIsToldNext
  <2>2. CASE End
    BY <1>2, <2>1, <2>2, SeriesAtEnd
  <2>3. CASE running'
    <3>1. Answer' = {}
      BY <2>3 DEF Answer
    <3> QED
      BY <2>1, <3>1 DEF VMISeriesAgree
  <2>4. CASE ~running' /\ ~End
    <3>1. UNCHANGED <<running, samples>>
      <4>1. Update \/ ListVMs \/ ListVMIs \/ UNCHANGED vars
        BY <1>2, <2>4, VMDisksStep, VMInfoStep, VMReportsStep, VMIInfoStep, VMIReportsStep,
           MigrationReportsStep, StatisticsReportsStep DEF Next, Begin
      <4> QED
        BY <4>1 DEF Update, Change, ListVMs, ListVMIs, vars
    <3>2. Answer' = Answer
      BY <3>1 DEF Answer
    <3> QED
      BY <1>2, <2>1, <3>2 DEF VMISeriesAgree
  <2> QED
    BY <2>2, <2>3, <2>4
<1> QED
  BY <1>1, <1>2, Invariance, PTL DEF Spec

-----------------------------------------------------------------------------
(* Counting migrations. *)
Total(S) == MapThenSumSet(LAMBDA s : s.value, S)

LEMMA TotalFacts ==
    ASSUME NEW S, IsFiniteSet(S), \A e \in S : e.value \in Int
    PROVE  /\ Total(S) \in Int
           /\ Total({}) = 0
           /\ \A x \in S : Total(S) = x.value + Total(S \ {x})
BY ValueSumFacts DEF Total

LEMMA TotalOfFour ==
    ASSUME NEW a, NEW b, NEW c, NEW d,
           a # b, a # c, a # d, b # c, b # d, c # d,
           a.value \in Int, b.value \in Int, c.value \in Int, d.value \in Int
    PROVE  Total({a, b, c, d}) = a.value + b.value + c.value + d.value
<1> DEFINE A == {a, b, c, d}
           B == {b, c, d}
           C == {c, d}
           D == {d}
<1>1. /\ A \ {a} = B /\ B \ {b} = C /\ C \ {c} = D /\ D \ {d} = {}
      /\ a \in A /\ b \in B /\ c \in C /\ d \in D
  OBVIOUS
<1>2. A = B \cup {a} /\ B = C \cup {b} /\ C = D \cup {c}
  OBVIOUS
<1>3. IsFiniteSet(D)
  BY FS_Singleton
<1>4. \A x \in A : x.value \in Int
  OBVIOUS
<1>5. B \subseteq A /\ C \subseteq A /\ D \subseteq A
  OBVIOUS
<1> HIDE DEF A, B, C, D
<1>6. IsFiniteSet(C)
  BY <1>2, <1>3, FS_AddElement
<1>7. IsFiniteSet(B)
  BY <1>2, <1>6, FS_AddElement
<1>8. IsFiniteSet(A)
  BY <1>2, <1>7, FS_AddElement
<1>9. Total(D) = d.value + Total(D \ {d}) /\ Total({}) = 0
  BY <1>1, <1>3, <1>4, <1>5, TotalFacts
<1>10. Total(C) = c.value + Total(C \ {c})
  BY <1>1, <1>4, <1>5, <1>6, TotalFacts
<1>11. Total(B) = b.value + Total(B \ {b})
  BY <1>1, <1>4, <1>5, <1>7, TotalFacts
<1>12. Total(A) = a.value + Total(A \ {a})
  BY <1>1, <1>4, <1>8, TotalFacts
<1>13. Total(D) = d.value
  <2>1. Total(D) = d.value + Total({}) /\ Total({}) = 0
    BY <1>1, <1>9
  <2> QED
    BY <2>1
<1>14. Total(C) = c.value + d.value
  BY <1>1, <1>10, <1>13
<1>15. Total(B) = b.value + (c.value + d.value)
  BY <1>1, <1>11, <1>14
<1>16. Total(A) = a.value + (b.value + (c.value + d.value))
  BY <1>1, <1>12, <1>15
<1>17. Total(A) = a.value + b.value + c.value + d.value
  BY <1>16
<1> QED
  BY <1>17 DEF A

LEMMA DisjointCount ==
    ASSUME NEW S, NEW T, IsFiniteSet(S), IsFiniteSet(T), S \cap T = {}
    PROVE  /\ IsFiniteSet(S \cup T) /\ Cardinality(S) \in Nat /\ Cardinality(T) \in Nat
           /\ Cardinality(S \cup T) = Cardinality(S) + Cardinality(T)
BY FS_Union, FS_EmptySet, FS_CardinalityType

LEMMA ImageCount ==
    ASSUME NEW K, IsFiniteSet(K), NEW f, f = [k \in K |-> f[k]],
           \A k, q \in K : f[k] = f[q] => k = q,
           NEW T, \A x : x \in T <=> \E k \in K : x = f[k]
    PROVE  IsFiniteSet(T) /\ Cardinality(T) = Cardinality(K)
<1>1. f \in [K -> T] /\ DOMAIN f = K
  OBVIOUS
<1>2. f \in Bijection(K, T)
  BY <1>1 DEF Bijection, Injection, Surjection, IsInjective
<1>3. ExistsBijection(K, T)
  BY <1>2 DEF ExistsBijection
<1> QED
  BY <1>3, FS_Bijection

(* Every migration is in one phase. *)
LEMMA PhaseFacts ==
    ASSUME NEW store, StoreOK("migrations", store)
    PROVE  /\ \A P : InPhase(store, P) \subseteq Existing(store) /\ IsFiniteSet(InPhase(store, P))
           /\ \A P, Q : P \cap Q = {} => InPhase(store, P) \cap InPhase(store, Q) = {}
           /\ \A P, k : k \in InPhase(store, P) <=>
                           k \in Existing(store) /\ Value(store[k]).phase \in P
           /\ \A k \in Existing(store) :
                 Value(store[k]).phase \in
                    {"", "Pending", "Scheduling", "Scheduled", "PreparingTarget", "TargetReady",
                     "Running", "Succeeded", "Failed", "WaitingForSync", "Synchronizing"}
<1>1. /\ IsFiniteSet(Existing(store))
      /\ \A k \in Existing(store) : /\ k \in DOMAIN Migrations /\ Value(store[k]) \in Migrations[k]
                                    /\ store[k] = {Value(store[k])}
  BY KindsListed, StoreFacts
<1>2. \A P, k : k \in InPhase(store, P) <=> k \in Existing(store) /\ Value(store[k]).phase \in P
  BY <1>1 DEF InPhase, Existing
<1>3. \A P : InPhase(store, P) \subseteq Existing(store)
  BY <1>2
<1>4. \A P : IsFiniteSet(InPhase(store, P))
  BY <1>1, <1>3, FS_Subset
<1>5. \A k \in Existing(store) :
                 Value(store[k]).phase \in
                    {"", "Pending", "Scheduling", "Scheduled", "PreparingTarget", "TargetReady",
                     "Running", "Succeeded", "Failed", "WaitingForSync", "Synchronizing"}
  BY <1>1, ObjectsAssumption
<1>6. \A P, Q : P \cap Q = {} => InPhase(store, P) \cap InPhase(store, Q) = {}
  BY <1>2
<1> QED
  BY <1>2, <1>3, <1>4, <1>5, <1>6

LEMMA MigrationsCounted ==
    ASSUME NEW store, StoreOK("migrations", store)
    PROVE  LET n(P) == Cardinality(InPhase(store, P)) IN
           /\ \A P : n(P) \in Nat
           /\ Cardinality(Existing(store) \ InPhase(store, {"WaitingForSync", "Synchronizing"}))
                = n({"Succeeded"}) + n({"Failed"}) + n({"Pending"}) + n({"Scheduling"}) + n({""})
                    + n({"Running", "Scheduled", "PreparingTarget", "TargetReady"})
<1> DEFINE n(P) == Cardinality(InPhase(store, P))
           A == InPhase(store, {"Succeeded"})
           B == InPhase(store, {"Failed"})
           C == InPhase(store, {"Pending"})
           D == InPhase(store, {"Scheduling"})
           E == InPhase(store, {""})
           F == InPhase(store, {"Running", "Scheduled", "PreparingTarget", "TargetReady"})
           R == Existing(store) \ InPhase(store, {"WaitingForSync", "Synchronizing"})
<1>1. \A P : n(P) \in Nat
  BY PhaseFacts, FS_CardinalityType
<1>2. IsFiniteSet(A) /\ IsFiniteSet(B) /\ IsFiniteSet(C) /\ IsFiniteSet(D) /\ IsFiniteSet(E) /\ IsFiniteSet(F)
  <2>1. \A P : IsFiniteSet(InPhase(store, P))
    BY PhaseFacts
  <2> QED
    BY <2>1
<1> DEFINE X == Existing(store)
           p(k) == Value(store[k]).phase
<1>3. /\ \A k : k \in A <=> k \in X /\ p(k) = "Succeeded"
      /\ \A k : k \in B <=> k \in X /\ p(k) = "Failed"
      /\ \A k : k \in C <=> k \in X /\ p(k) = "Pending"
      /\ \A k : k \in D <=> k \in X /\ p(k) = "Scheduling"
      /\ \A k : k \in E <=> k \in X /\ p(k) = ""
      /\ \A k : k \in F <=> k \in X /\ p(k) \in {"Running", "Scheduled", "PreparingTarget", "TargetReady"}
      /\ \A k : k \in R <=> k \in X /\ p(k) \notin {"WaitingForSync", "Synchronizing"}
  <2>1. /\ \A k \in X : k \in DOMAIN store /\ store[k] = {Value(store[k])}
        /\ \A k \in DOMAIN store : store[k] # {} => k \in X
    <3>1. \A k \in X : store[k] = {Value(store[k])}
      BY KindsListed, StoreFacts
    <3>2. \A k : k \in X <=> k \in DOMAIN store /\ store[k] # {}
      BY DEF Existing
    <3> QED
      BY <3>1, <3>2
  <2> HIDE DEF X
  <2>2. \A k : k \in A <=> k \in X /\ p(k) = "Succeeded"
    BY <2>1 DEF InPhase
  <2>3. \A k : k \in B <=> k \in X /\ p(k) = "Failed"
    BY <2>1 DEF InPhase
  <2>4. \A k : k \in C <=> k \in X /\ p(k) = "Pending"
    BY <2>1 DEF InPhase
  <2>5. \A k : k \in D <=> k \in X /\ p(k) = "Scheduling"
    BY <2>1 DEF InPhase
  <2>6. \A k : k \in E <=> k \in X /\ p(k) = ""
    BY <2>1 DEF InPhase
  <2>7. \A k : k \in F <=> k \in X /\ p(k) \in {"Running", "Scheduled", "PreparingTarget", "TargetReady"}
    BY <2>1 DEF InPhase
  <2>8. R = X \ InPhase(store, {"WaitingForSync", "Synchronizing"})
    BY DEF X
  <2> HIDE DEF R
  <2>9. \A k : k \in R <=> k \in X /\ p(k) \notin {"WaitingForSync", "Synchronizing"}
    BY <2>1, <2>8 DEF InPhase
  <2> QED
    BY <2>2, <2>3, <2>4, <2>5, <2>6, <2>7, <2>9
<1>4. \A k \in X : p(k) \in {"", "Pending", "Scheduling", "Scheduled", "PreparingTarget", "TargetReady",
                            "Running", "Succeeded", "Failed", "WaitingForSync", "Synchronizing"}
  BY PhaseFacts
<1> HIDE DEF A, B, C, D, E, F, R, X, p
<1>5. R = A \cup B \cup C \cup D \cup E \cup F
  BY <1>3, <1>4
<1>6. /\ A \cap B = {} /\ (A \cup B) \cap C = {} /\ (A \cup B \cup C) \cap D = {}
       /\ (A \cup B \cup C \cup D) \cap E = {} /\ (A \cup B \cup C \cup D \cup E) \cap F = {}
  BY <1>3
<1>7. IsFiniteSet(A \cup B) /\ Cardinality(A \cup B) = Cardinality(A) + Cardinality(B)
  BY <1>2, <1>6, DisjointCount
<1>8. /\ IsFiniteSet(A \cup B \cup C)
      /\ Cardinality(A \cup B \cup C) = Cardinality(A \cup B) + Cardinality(C)
  BY <1>2, <1>6, <1>7, DisjointCount
<1>9. /\ IsFiniteSet(A \cup B \cup C \cup D)
      /\ Cardinality(A \cup B \cup C \cup D) = Cardinality(A \cup B \cup C) + Cardinality(D)
  BY <1>2, <1>6, <1>8, DisjointCount
<1>10. /\ IsFiniteSet(A \cup B \cup C \cup D \cup E)
      /\ Cardinality(A \cup B \cup C \cup D \cup E) = Cardinality(A \cup B \cup C \cup D) + Cardinality(E)
  BY <1>2, <1>6, <1>9, DisjointCount
<1>11. Cardinality(A \cup B \cup C \cup D \cup E \cup F)
        = Cardinality(A \cup B \cup C \cup D \cup E) + Cardinality(F)
  BY <1>2, <1>6, <1>10, DisjointCount
<1>12. Cardinality(R) = Cardinality(A) + Cardinality(B) + Cardinality(C) + Cardinality(D)
                          + Cardinality(E) + Cardinality(F)
  BY <1>5, <1>7, <1>8, <1>9, <1>10, <1>11
<1> QED
  BY <1>1, <1>12 DEF A, B, C, D, E, F, R

(* What a report of the migrations adds up to. *)
Finished == {"kubevirt_vmi_migration_succeeded", "kubevirt_vmi_migration_failed"}

LEMMA ReportAddsUp ==
    ASSUME NEW store, StoreOK("migrations", store), IsFiniteSet(DOMAIN store),
           NEW S, S = ToSet(ReportMigrationStats(store))
    PROVE  Cardinality({s \in S : s.metric \in Finished})
             + Total({s \in S : \E c \in DOMAIN CountName : s.metric = CountName[c]})
             = Cardinality(Existing(store) \ InPhase(store, {"WaitingForSync", "Synchronizing"}))
<1> DEFINE x(k) == FinishedSample(store, "kubevirt_vmi_migration_succeeded", k)
           y(k) == FinishedSample(store, "kubevirt_vmi_migration_failed", k)
           z(c) == CountSample(store, c)
           K == InPhase(store, {"Succeeded"})
           L == InPhase(store, {"Failed"})
           X == {x(k) : k \in K}
           Y == {y(k) : k \in L}
<1>1. \A e : e \in S <=> \/ \E k \in K : e = x(k)
                         \/ \E k \in L : e = y(k)
                         \/ \E c \in Counted : e = z(c)
  BY MigrationsReported DEF FinishedKeys
<1>2. /\ \A k : x(k).metric = "kubevirt_vmi_migration_succeeded" /\ x(k).labels.key = k
      /\ \A k : y(k).metric = "kubevirt_vmi_migration_failed" /\ y(k).labels.key = k
  BY FinishedFacts
<1>3. \A c : z(c).metric = CountName[c] /\ z(c).value = CountOf(store, c)
  BY CountFacts
<1>4. /\ DOMAIN CountName = Counted
      /\ \A c \in Counted : CountName[c] \notin Finished
      /\ \A c, d \in Counted : CountName[c] = CountName[d] => c = d
  BY CountsListed DEF Finished, CountMetrics
<1>5. IsFiniteSet(K) /\ IsFiniteSet(L)
  <2>1. \A P : IsFiniteSet(InPhase(store, P))
    BY PhaseFacts
  <2> QED
    BY <2>1
<1> HIDE DEF x, y, z, K, L
<1>6. Cardinality(X) = Cardinality(K) /\ IsFiniteSet(X)
  <2> DEFINE f == [k \in K |-> x(k)]
  <2>1. f = [k \in K |-> f[k]] /\ \A k, q \in K : f[k] = f[q] => k = q
    BY <1>2
  <2>2. \A e : e \in X <=> \E k \in K : e = f[k]
    OBVIOUS
  <2> HIDE DEF f, X
  <2> QED
    BY <1>5, <2>1, <2>2, ImageCount
<1>7. Cardinality(Y) = Cardinality(L) /\ IsFiniteSet(Y)
  <2> DEFINE f == [k \in L |-> y(k)]
  <2>1. f = [k \in L |-> f[k]] /\ \A k, q \in L : f[k] = f[q] => k = q
    BY <1>2
  <2>2. \A e : e \in Y <=> \E k \in L : e = f[k]
    OBVIOUS
  <2> HIDE DEF f, Y
  <2> QED
    BY <1>5, <2>1, <2>2, ImageCount
<1>8. \A e : e \in X <=> \E k \in K : e = x(k)
  OBVIOUS
<1>9. \A e : e \in Y <=> \E k \in L : e = y(k)
  OBVIOUS
<1> HIDE DEF X, Y
<1>10. X \cap Y = {}
  BY <1>2, <1>8, <1>9
<1>11. {s \in S : s.metric \in Finished} = X \cup Y
  BY <1>1, <1>2, <1>3, <1>4, <1>8, <1>9 DEF Finished
<1>12. {s \in S : \E c \in DOMAIN CountName : s.metric = CountName[c]}
         = {z("pending"), z("scheduling"), z("unset"), z("running")}
  <2>1. \A e : e \in S /\ (\E c \in Counted : e.metric = CountName[c]) <=> \E c \in Counted : e = z(c)
    BY <1>1, <1>2, <1>3, <1>4 DEF Finished
  <2>2. \A e : (\E c \in Counted : e = z(c)) <=> e \in {z("pending"), z("scheduling"), z("unset"), z("running")}
    BY DEF Counted
  <2> QED
    BY <1>4, <2>1, <2>2
<1>13. \A c, d \in Counted : c # d => z(c) # z(d)
  BY <1>3, <1>4
<1>14. \A P : Cardinality(InPhase(store, P)) \in Nat
  BY MigrationsCounted
<1>15. /\ z("pending").value = Cardinality(InPhase(store, {"Pending"}))
       /\ z("scheduling").value = Cardinality(InPhase(store, {"Scheduling"}))
       /\ z("unset").value = Cardinality(InPhase(store, {""}))
       /\ z("running").value
            = Cardinality(InPhase(store, {"Running", "Scheduled", "PreparingTarget", "TargetReady"}))
  BY <1>3 DEF CountOf, CountedPhases
<1> DEFINE a == Cardinality(InPhase(store, {"Pending"}))
           b == Cardinality(InPhase(store, {"Scheduling"}))
           c == Cardinality(InPhase(store, {""}))
           d == Cardinality(InPhase(store, {"Running", "Scheduled", "PreparingTarget", "TargetReady"}))
<1>16. a \in Int /\ b \in Int /\ c \in Int /\ d \in Int /\ Cardinality(K) \in Int /\ Cardinality(L) \in Int
  <2>1. \A P : Cardinality(InPhase(store, P)) \in Int
    BY <1>14
  <2> QED
    BY <2>1 DEF K, L
<1>17. Cardinality(Existing(store) \ InPhase(store, {"WaitingForSync", "Synchronizing"}))
         = Cardinality(K) + Cardinality(L) + a + b + c + d
  BY MigrationsCounted DEF K, L
<1> HIDE DEF a, b, c, d
<1>18. Total({z("pending"), z("scheduling"), z("unset"), z("running")}) = a + b + c + d
  <2>1. /\ z("pending").value = a /\ z("scheduling").value = b /\ z("unset").value = c
        /\ z("running").value = d
    BY <1>15 DEF a, b, c, d
  <2>2. /\ z("pending") # z("scheduling") /\ z("pending") # z("unset") /\ z("pending") # z("running")
        /\ z("scheduling") # z("unset") /\ z("scheduling") # z("running") /\ z("unset") # z("running")
    BY <1>13 DEF Counted
  <2> DEFINE p == z("pending")
             q == z("scheduling")
             r == z("unset")
             t == z("running")
  <2> HIDE DEF p, q, r, t
  <2>3. Total({p, q, r, t}) = p.value + q.value + r.value + t.value
    BY <1>16, <2>1, <2>2, TotalOfFour DEF p, q, r, t
  <2> QED
    BY <2>1, <2>3 DEF p, q, r, t
<1>19. Cardinality(X \cup Y) = Cardinality(K) + Cardinality(L)
  BY <1>6, <1>7, <1>10, DisjointCount
<1>20. Cardinality({s \in S : s.metric \in Finished}) = Cardinality(K) + Cardinality(L)
  BY <1>11, <1>19
<1>21. Total({s \in S : \E e \in DOMAIN CountName : s.metric = CountName[e]}) = a + b + c + d
  BY <1>12, <1>18
<1> QED
  BY <1>16, <1>17, <1>20, <1>21

(* Each migration is seen exactly once in a report of the migrations: as   *)
(* one that succeeded or failed, or in one of the counts by phase          *)
(* (ReportMigrationStats), and the report takes one look at the store.     *)
THEOREM MigrationsSeenOnce == Spec => EveryMigrationSeenOnce
<1> DEFINE A == "migrations" \in reported' \ reported =>
                  LET new      == samples' \ samples
                      finished == {s \in new : s.metric \in {"kubevirt_vmi_migration_succeeded", "kubevirt_vmi_migration_failed"}}
                      counts   == {s \in new : \E c \in DOMAIN CountName : s.metric = CountName[c]}
                  IN  Cardinality(finished) + MapThenSumSet(LAMBDA s : s.value, counts) =
                        Cardinality(Existing(stores.migrations)
                                      \ InPhase(stores.migrations, {"WaitingForSync", "Synchronizing"}))
<1>1. ASSUME IInv, [Next]_vars PROVE [A]_vars
  <2>1. CASE ~MigrationReports
    <3>1. "migrations" \notin reported' \ reported
      <4>1. CASE Update
        BY <4>1 DEF Update, Change
      <4>2. CASE Begin \/ End \/ ListVMs \/ ListVMIs
        BY <4>2 DEF Begin, End, ListVMs, ListVMIs
      <4>3. CASE VMDisks \/ VMInfo \/ VMReports \/ VMIInfo \/ VMIReports
        BY <4>3 DEF VMDisks, VMInfo, VMReports, VMIInfo, VMIReports
      <4>4. CASE StatisticsReports
        BY <1>1, <4>4, StatisticsReportsStep
      <4>5. CASE UNCHANGED vars
        BY <4>5 DEF vars
      <4> QED
        BY <1>1, <2>1, <4>1, <4>2, <4>3, <4>4, <4>5 DEF Next
    <3> QED
      BY <3>1
  <2>2. CASE MigrationReports
    <3> DEFINE store == stores.migrations
               S == ToSet(ReportMigrationStats(store))
    <3>1. samples' = samples \cup S /\ "migrations" \notin reported
      BY <2>2 DEF MigrationReports, Gather, Reports
    <3>2. StoreOK("migrations", store)
      BY <1>1, KindsListed DEF IInv, TypeOK
    <3>3. IsFiniteSet(DOMAIN store)
      <4>1. DOMAIN store = DOMAIN Contents["migrations"] /\ "migrations" \in Kinds
        BY <3>2, KindsListed, StoreFacts
      <4> QED
        BY <4>1, ScrapeAssumption
    <3>4. \A s \in samples : s.metric \notin MigrationMetrics
      BY <1>1, <3>1, MetricsDisjoint DEF IInv, Origins, Origin, Of
    <3>5. \A s \in S : s.metric \in MigrationMetrics
      BY <3>3, MigrationsReported
    <3> HIDE DEF store
    <3>6. samples' \ samples = S
      <4> HIDE DEF S
      <4> QED
        BY <3>1, <3>4, <3>5
    <3>7. Cardinality({s \in S : s.metric \in Finished})
             + Total({s \in S : \E c \in DOMAIN CountName : s.metric = CountName[c]})
             = Cardinality(Existing(store) \ InPhase(store, {"WaitingForSync", "Synchronizing"}))
      BY <3>2, <3>3, ReportAddsUp
    <3> HIDE DEF S
    <3>8. A
      BY <3>6, <3>7 DEF Total, Finished, store
    <3> QED
      BY <3>8
  <2> QED
    BY <2>1, <2>2
<1>2. Spec => [][A]_vars
  BY <1>1, Invariance, PTL DEF Spec
<1> QED
  BY <1>2, PTL DEF EveryMigrationSeenOnce

-----------------------------------------------------------------------------
(* A scrape of stores that do not change. What each call finds is read off *)
(* the stores S: where a map's order decides, whatever it decides.         *)
VMDos == {"disks", "info", "reports"}
VMIDos == {"info", "reports"}

VMSays(S, c) ==
    LET o == Value(S.vms[c.key])
    IN  CASE c.do = "disks"   -> ToSet(collectDiskMetricsFromPVC(c.key, o, S.pvcs))
          [] c.do = "info"    -> ToSet(CollectVMsInfo(c.key, o, S.types))
          [] c.do = "reports" -> UNION {ToSet(VMReport(c.key, o, labels)) : labels \in ReportVMLabels(c.key, o)}

VMISays(S, c) ==
    LET o == Value(S.vmis[c.key])
    IN  CASE c.do = "info"    -> UNION {ToSet(CollectVMIInfo(c.key, o, pod, S.types)) :
                                           pod \in getVMIPod(c.key, o, S.pods)}
          [] c.do = "reports" -> ToSet(VMIReport(c.key, o, S.migrations))

RuntimesOf(store) ==
    LET keys == Existing(store)
        labels(k) == buildRuntimeLabels(Value(store[k]).vmi)
    IN  {r \in [keys -> UNION {labels(k) : k \in keys}] : \A k \in keys : r[k] \in labels(k)}

StatisticsSay(S) == UNION {ToSet(StatisticsOf(S.statistics, runtime)) : runtime \in RuntimesOf(S.statistics)}

(* The samples of the calls x and y and of the collectors r. *)
Answered(S, x, y, r) ==
    (UNION {VMSays(S, c) : c \in x}) \cup (UNION {VMISays(S, c) : c \in y})
      \cup (IF "migrations" \in r THEN ToSet(ReportMigrationStats(S.migrations)) ELSE {})
      \cup (IF "statistics" \in r THEN StatisticsSay(S) ELSE {})

AllCalls(dos, keys) == {Call(do, k) : do \in dos, k \in keys}
MadeCalls(c, dos, keys) == {x \in AllCalls(dos, keys) : Listed(c) /\ x \notin ToSet(c.calls)}

Full(S) == Answered(S, AllCalls(VMDos, Existing(S.vms)), AllCalls(VMIDos, Existing(S.vmis)),
                    {"migrations", "statistics"})
SoFar(S, a, b, r) == Answered(S, MadeCalls(a, VMDos, Existing(S.vms)), MadeCalls(b, VMIDos, Existing(S.vmis)), r)

LabelsCollide(S) ==
    \/ \E k \in DOMAIN S.vms : \E o \in S.vms[k] : Colliding(MergedLabels(o))
    \/ \E k \in DOMAIN S.statistics : \E e \in S.statistics[k] : Colliding(e.vmi.labels)

(* As long as no label keys collide: the scrape before, if it saw the      *)
(* stores as they are, was a full one, and so is what the running scrape   *)
(* has gathered, for the calls that it has made.                           *)
Steady ==
    ~LabelsCollide(stores) =>
        /\ stale = 0 => last = Full(stores)
        /\ running /\ stale < 2 =>
              /\ Listed(vm) => vm.listed = stores.vms
              /\ Listed(vmi) => vmi.listed = stores.vmis
              /\ samples = SoFar(stores, vm, vmi, reported)

(* Without a collision of label keys nothing depends on a map's order.     *)
LEMMA OneLabelling ==
    ASSUME NEW labels, ~Colliding(labels), NEW a \in SanitizedLabels(labels), NEW b \in SanitizedLabels(labels)
    PROVE  a = b
<1> DEFINE names == {Sanitize[l] : l \in DOMAIN labels}
           winners == {w \in [names -> DOMAIN labels] : \A n \in names : Sanitize[w[n]] = n}
           exported(w) == [n \in {m \in names : labels[w[m]] # ""} |-> labels[w[n]]]
<1>1. PICK v \in winners : a = exported(v)
  BY DEF SanitizedLabels
<1>2. PICK w \in winners : b = exported(w)
  BY DEF SanitizedLabels
<1>3. ASSUME NEW n \in names PROVE v[n] = w[n]
  <2>1. v[n] \in DOMAIN labels /\ w[n] \in DOMAIN labels /\ Sanitize[v[n]] = n /\ Sanitize[w[n]] = n
    BY <1>1, <1>2
  <2> QED
    BY <2>1 DEF Colliding
<1>4. v \in [names -> DOMAIN labels] /\ w \in [names -> DOMAIN labels]
  BY <1>1, <1>2
<1> HIDE DEF names
<1>5. v = w
  BY <1>3, <1>4
<1> QED
  BY <1>1, <1>2, <1>5

LEMMA OneLabelReport ==
    ASSUME NEW k, NEW o, ~Colliding(MergedLabels(o)), NEW a \in ReportVMLabels(k, o), NEW b \in ReportVMLabels(k, o)
    PROVE  a = b
<1> DEFINE labels == MergedLabels(o)
           report(e) == <<Sample("kubevirt_vm_labels", [key |-> k, labels |-> e], 1)>>
<1>1. CASE DOMAIN labels = {}
  BY <1>1 DEF ReportVMLabels
<1>2. CASE DOMAIN labels # {}
  <2>1. PICK c \in SanitizedLabels(labels) : a = report(c)
    BY <1>2 DEF ReportVMLabels
  <2>2. PICK d \in SanitizedLabels(labels) : b = report(d)
    BY <1>2 DEF ReportVMLabels
  <2> HIDE DEF labels
  <2>3. c = d
    BY OneLabelling DEF labels
  <2> QED
    BY <2>1, <2>2, <2>3
<1> QED
  BY <1>1, <1>2

LEMMA OnePod ==
    ASSUME NEW pods, OnePodPerNode(pods), NEW k, NEW o, NEW a \in getVMIPod(k, o, pods), NEW b \in getVMIPod(k, o, pods)
    PROVE  a = b
<1>1. CASE MatchingPods(k, o, pods) = {}
  BY <1>1 DEF getVMIPod
<1>2. CASE MatchingPods(k, o, pods) # {}
  <2>1. PICK p \in MatchingPods(k, o, pods), q \in MatchingPods(k, o, pods) : a = p[2] /\ b = q[2]
    BY <1>2 DEF getVMIPod
  <2>2. p = q
    BY DEF MatchingPods, OnePodPerNode
  <2> QED
    BY <2>1, <2>2
<1> QED
  BY <1>1, <1>2

LEMMA OneRuntime ==
    ASSUME NEW store, \A k \in Existing(store) : ~Colliding(Value(store[k]).vmi.labels),
           NEW a \in RuntimesOf(store), NEW b \in RuntimesOf(store)
    PROVE  a = b
<1> DEFINE keys == Existing(store)
           labels(k) == buildRuntimeLabels(Value(store[k]).vmi)
           R == UNION {labels(k) : k \in keys}
<1>1. /\ a \in [keys -> R] /\ b \in [keys -> R]
      /\ \A k \in keys : a[k] \in labels(k) /\ b[k] \in labels(k)
  BY DEF RuntimesOf
<1>2. ASSUME NEW k \in keys PROVE a[k] = b[k]
  BY <1>1, <1>2, OneLabelling DEF buildRuntimeLabels
<1> HIDE DEF keys, R
<1> QED
  BY <1>1, <1>2

(* What is stored does not collide. *)
LEMMA NoneCollides ==
    ASSUME NEW S, ~LabelsCollide(S), StoreOK("vms", S.vms), StoreOK("statistics", S.statistics)
    PROVE  /\ \A k \in Existing(S.vms) : ~Colliding(MergedLabels(Value(S.vms[k])))
           /\ \A k \in Existing(S.statistics) : ~Colliding(Value(S.statistics[k]).vmi.labels)
<1>1. /\ \A k \in Existing(S.vms) : k \in DOMAIN S.vms /\ Value(S.vms[k]) \in S.vms[k]
      /\ \A k \in Existing(S.statistics) : k \in DOMAIN S.statistics /\ Value(S.statistics[k]) \in S.statistics[k]
  BY ValueFacts DEF Existing
<1> QED
  BY <1>1 DEF LabelsCollide

(* What a call finds, in a store without collisions. *)
LEMMA VMFinds ==
    ASSUME NEW S, ~LabelsCollide(S), StoreOK("vms", S.vms), StoreOK("statistics", S.statistics),
           NEW k \in Existing(S.vms)
    PROVE  LET o == Value(S.vms[k]) IN
           /\ VMSays(S, Call("disks", k)) = ToSet(collectDiskMetricsFromPVC(k, o, S.pvcs))
           /\ VMSays(S, Call("info", k)) = ToSet(CollectVMsInfo(k, o, S.types))
           /\ \A labels \in ReportVMLabels(k, o) :
                 VMSays(S, Call("reports", k)) = ToSet(VMReport(k, o, labels))
<1> DEFINE o == Value(S.vms[k])
           f(l) == ToSet(VMReport(k, o, l))
<1>1. /\ Call("disks", k).do = "disks" /\ Call("disks", k).key = k
      /\ Call("info", k).do = "info" /\ Call("info", k).key = k
      /\ Call("reports", k).do = "reports" /\ Call("reports", k).key = k
  BY CallFacts
<1>2. /\ VMSays(S, Call("disks", k)) = ToSet(collectDiskMetricsFromPVC(k, o, S.pvcs))
      /\ VMSays(S, Call("info", k)) = ToSet(CollectVMsInfo(k, o, S.types))
  BY <1>1 DEF VMSays
<1>3. VMSays(S, Call("reports", k)) = UNION {f(l) : l \in ReportVMLabels(k, o)}
  BY <1>1 DEF VMSays
<1>4. ~Colliding(MergedLabels(o))
  BY NoneCollides
<1> HIDE DEF o, f
<1>5. ASSUME NEW labels \in ReportVMLabels(k, o)
      PROVE  UNION {f(l) : l \in ReportVMLabels(k, o)} = f(labels)
  <2>1. \A l \in ReportVMLabels(k, o) : l = labels
    BY <1>4, OneLabelReport
  <2> QED
    BY <2>1
<1> QED
  BY <1>2, <1>3, <1>5 DEF o, f

LEMMA VMIFinds ==
    ASSUME NEW S, OnePodPerNode(S.pods), NEW k
    PROVE  LET o == Value(S.vmis[k]) IN
           /\ \A pod \in getVMIPod(k, o, S.pods) :
                 VMISays(S, Call("info", k)) = ToSet(CollectVMIInfo(k, o, pod, S.types))
           /\ VMISays(S, Call("reports", k)) = ToSet(VMIReport(k, o, S.migrations))
<1> DEFINE o == Value(S.vmis[k])
           f(p) == ToSet(CollectVMIInfo(k, o, p, S.types))
<1>1. /\ Call("info", k).do = "info" /\ Call("info", k).key = k
      /\ Call("reports", k).do = "reports" /\ Call("reports", k).key = k
  BY CallFacts
<1>2. VMISays(S, Call("reports", k)) = ToSet(VMIReport(k, o, S.migrations))
  BY <1>1 DEF VMISays
<1>3. VMISays(S, Call("info", k)) = UNION {f(p) : p \in getVMIPod(k, o, S.pods)}
  BY <1>1 DEF VMISays
<1> HIDE DEF o, f
<1>4. ASSUME NEW pod \in getVMIPod(k, o, S.pods)
      PROVE  UNION {f(p) : p \in getVMIPod(k, o, S.pods)} = f(pod)
  <2>1. \A p \in getVMIPod(k, o, S.pods) : p = pod
    BY OnePod
  <2> QED
    BY <2>1
<1> QED
  BY <1>2, <1>3, <1>4 DEF o, f

LEMMA StatisticsFind ==
    ASSUME NEW S, ~LabelsCollide(S), StoreOK("vms", S.vms), StoreOK("statistics", S.statistics),
           NEW runtime \in RuntimesOf(S.statistics)
    PROVE  StatisticsSay(S) = ToSet(StatisticsOf(S.statistics, runtime))
<1> DEFINE f(r) == ToSet(StatisticsOf(S.statistics, r))
<1>1. StatisticsSay(S) = UNION {f(r) : r \in RuntimesOf(S.statistics)}
  BY DEF StatisticsSay
<1>2. \A r \in RuntimesOf(S.statistics) : r = runtime
  BY NoneCollides, OneRuntime
<1> HIDE DEF f
<1>3. UNION {f(r) : r \in RuntimesOf(S.statistics)} = f(runtime)
  BY <1>2
<1> QED
  BY <1>1, <1>3 DEF f

(* Calls that are made one by one, and what was answered then. *)
LEMMA NoneMade ==
    ASSUME NEW c, ~Listed(c), NEW dos, NEW keys
    PROVE  MadeCalls(c, dos, keys) = {}
BY DEF MadeCalls

LEMMA AllMade ==
    ASSUME NEW c, ToSet(c.calls) = {}, NEW dos, NEW keys
    PROVE  Listed(c) /\ MadeCalls(c, dos, keys) = AllCalls(dos, keys)
BY DEF MadeCalls, Listed

LEMMA AllLeft ==
    ASSUME NEW c, NEW dos, NEW keys,
           \A do \in dos : \A k \in keys : Call(do, k) \in ToSet(c.calls)
    PROVE  MadeCalls(c, dos, keys) = {}
BY DEF MadeCalls, AllCalls

LEMMA OneMade ==
    ASSUME NEW c, NEW kind, NEW dos, CollectorOK(c, kind, dos), "list" \notin dos,
           NEW do \in dos, Calls(c, do)
    PROVE  MadeCalls(Done(c), dos, Existing(c.listed))
             = MadeCalls(c, dos, Existing(c.listed)) \cup {Call(do, Head(c.calls).key)}
<1> DEFINE d == Done(c)
           x == Call(do, Head(c.calls).key)
           keys == Existing(c.listed)
<1>1. /\ Listed(c) /\ Listed(d) /\ Head(c.calls).key \in keys
      /\ ToSet(c.calls) = {x} \cup ToSet(d.calls) /\ x \notin ToSet(d.calls)
  BY CollectorFacts
<1>2. x \in AllCalls(dos, keys)
  BY <1>1 DEF AllCalls
<1> HIDE DEF d, x, keys
<1>3. MadeCalls(d, dos, keys) = MadeCalls(c, dos, keys) \cup {x}
  BY <1>1, <1>2 DEF MadeCalls
<1> QED
  BY <1>3 DEF d, x, keys

LEMMA AnsweredIs ==
    ASSUME NEW S, NEW x, NEW y, NEW r
    PROVE  Answered(S, x, y, r)
             = (UNION {VMSays(S, e) : e \in x}) \cup (UNION {VMISays(S, e) : e \in y})
                 \cup (IF "migrations" \in r THEN ToSet(ReportMigrationStats(S.migrations)) ELSE {})
                 \cup (IF "statistics" \in r THEN StatisticsSay(S) ELSE {})
BY DEF Answered

LEMMA OneVMAnswered ==
    ASSUME NEW S, NEW x, NEW y, NEW r, NEW c
    PROVE  Answered(S, x \cup {c}, y, r) = Answered(S, x, y, r) \cup VMSays(S, c)
<1> DEFINE f(e) == VMSays(S, e)
<1> HIDE DEF f
<1>1. (UNION {f(e) : e \in x \cup {c}}) = (UNION {f(e) : e \in x}) \cup f(c)
  OBVIOUS
<1> QED
  BY <1>1, AnsweredIs DEF f

LEMMA MigrationsAnswered ==
    ASSUME NEW S, NEW x, NEW y, NEW r
    PROVE  Answered(S, x, y, r \cup {"migrations"})
             = Answered(S, x, y, r) \cup ToSet(ReportMigrationStats(S.migrations))
BY AnsweredIs

LEMMA StatisticsAnswered ==
    ASSUME NEW S, NEW x, NEW y, NEW r
    PROVE  Answered(S, x, y, r \cup {"statistics"}) = Answered(S, x, y, r) \cup StatisticsSay(S)
BY AnsweredIs

LEMMA NoneAnswered == \A S : Answered(S, {}, {}, {}) = {}
BY DEF Answered

(* A step of the running scrape that leaves the stores alone. *)
During == UNCHANGED <<stores, running, last, stale>>

LEMMA SteadyWhile ==
    ASSUME Steady, During,
           ~LabelsCollide(stores) /\ running /\ stale < 2
             /\ (Listed(vm) => vm.listed = stores.vms) /\ (Listed(vmi) => vmi.listed = stores.vmis)
             /\ samples = SoFar(stores, vm, vmi, reported)
           => /\ Listed(vm') => vm'.listed = stores.vms
              /\ Listed(vmi') => vmi'.listed = stores.vmis
              /\ samples' = SoFar(stores, vm', vmi', reported')
    PROVE  Steady'
<1>1. UNCHANGED <<stores, running, last, stale>>
  BY DEF During
<1>2. SoFar(stores, vm, vmi, reported)' = SoFar(stores, vm', vmi', reported')
  BY <1>1
<1>3. Full(stores)' = Full(stores) /\ (LabelsCollide(stores)' <=> LabelsCollide(stores))
  BY <1>1
<1>4. Listed(vm)' = Listed(vm') /\ Listed(vmi)' = Listed(vmi')
  OBVIOUS
<1>5. ASSUME ~LabelsCollide(stores), stale = 0 PROVE last = Full(stores)
  BY <1>5 DEF Steady
<1>6. ASSUME ~LabelsCollide(stores), running, stale < 2
      PROVE  /\ Listed(vm) => vm.listed = stores.vms
             /\ Listed(vmi) => vmi.listed = stores.vmis
             /\ samples = SoFar(stores, vm, vmi, reported)
  BY <1>6 DEF Steady
<1> QED
  BY <1>1, <1>2, <1>3, <1>4, <1>5, <1>6 DEF Steady

(* A call about a VM or a VMI that finds what the stores say. *)
LEMMA SteadyVMCall ==
    ASSUME IInv, Steady, NEW do \in VMDos, Calls(vm, do), vm' = Done(vm),
           UNCHANGED <<stores, vmi, reported, running, last, stale>>,
           ~LabelsCollide(stores) /\ vm.listed = stores.vms
             => samples' = samples \cup VMSays(stores, Call(do, Head(vm.calls).key))
    PROVE  Steady'
<1> DEFINE x == Call(do, Head(vm.calls).key)
           keys == Existing(stores.vms)
<1>1. CollectorOK(vm, "vms", VMDos) /\ "list" \notin VMDos
  BY DEF IInv, CollectorsOK, VMDos
<1>2. Listed(vm) /\ vm'.listed = vm.listed
  BY <1>1, CollectorFacts
<1>3. vm.listed = stores.vms => MadeCalls(vm', VMDos, keys) = MadeCalls(vm, VMDos, keys) \cup {x}
  BY <1>1, OneMade
<1> HIDE DEF x, keys
<1>4. ASSUME vm.listed = stores.vms
      PROVE  SoFar(stores, vm', vmi, reported) = SoFar(stores, vm, vmi, reported) \cup VMSays(stores, x)
  <2> DEFINE p == MadeCalls(vm, VMDos, keys)
             q == MadeCalls(vmi, VMIDos, Existing(stores.vmis))
  <2>1. /\ SoFar(stores, vm, vmi, reported) = Answered(stores, p, q, reported)
        /\ SoFar(stores, vm', vmi, reported) = Answered(stores, MadeCalls(vm', VMDos, keys), q, reported)
    BY DEF SoFar, keys
  <2> HIDE DEF p, q
  <2>2. Answered(stores, p \cup {x}, q, reported) = Answered(stores, p, q, reported) \cup VMSays(stores, x)
    BY OneVMAnswered
  <2> QED
    BY <1>3, <1>4, <2>1, <2>2 DEF p
<1> QED
  BY <1>2, <1>4, SteadyWhile DEF During, x

LEMMA SteadyVMICall ==
    ASSUME IInv, Steady, NEW do \in VMIDos, Calls(vmi, do), vmi' = Done(vmi),
           UNCHANGED <<stores, vm, reported, running, last, stale>>,
           vmi.listed = stores.vmis
             => samples' = samples \cup VMISays(stores, Call(do, Head(vmi.calls).key))
    PROVE  Steady'
<1> DEFINE call == Call(do, Head(vmi.calls).key)
           keys == Existing(stores.vmis)
<1>1. CollectorOK(vmi, "vmis", VMIDos) /\ "list" \notin VMIDos
  BY DEF IInv, CollectorsOK, VMIDos
<1>2. Listed(vmi) /\ vmi'.listed = vmi.listed
  BY <1>1, CollectorFacts
<1>3. vmi.listed = stores.vmis => MadeCalls(vmi', VMIDos, keys) = MadeCalls(vmi, VMIDos, keys) \cup {call}
  BY <1>1, OneMade
<1> HIDE DEF call, keys
<1>4. ASSUME vmi.listed = stores.vmis
      PROVE  SoFar(stores, vm, vmi', reported) = SoFar(stores, vm, vmi, reported) \cup VMISays(stores, call)
  <2> DEFINE made == MadeCalls(vm, VMDos, Existing(stores.vms))
             q == MadeCalls(vmi, VMIDos, keys)
  <2>1. /\ SoFar(stores, vm, vmi, reported) = Answered(stores, made, q, reported)
        /\ SoFar(stores, vm, vmi', reported) = Answered(stores, made, MadeCalls(vmi', VMIDos, keys), reported)
    BY DEF SoFar, keys
  <2> HIDE DEF made, q
  <2>2. Answered(stores, made, q \cup {call}, reported)
          = Answered(stores, made, q, reported) \cup VMISays(stores, call)
    <3> DEFINE f(e) == VMISays(stores, e)
    <3> HIDE DEF f
    <3>1. (UNION {f(e) : e \in q \cup {call}}) = (UNION {f(e) : e \in q}) \cup f(call)
      OBVIOUS
    <3> QED
      BY <3>1, AnsweredIs DEF f
  <2>3. MadeCalls(vmi', VMIDos, keys) = q \cup {call}
    BY <1>3, <1>4 DEF q
  <2> QED
    BY <2>1, <2>2, <2>3
<1> QED
  BY <1>2, <1>4, SteadyWhile DEF During, call

LEMMA SteadyVMs ==
    ASSUME IInv, Steady, VMDisks \/ VMInfo \/ VMReports PROVE Steady'
<1> DEFINE k == Head(vm.calls).key
           o == Value(vm.listed[k])
<1>1. /\ vm' = Done(vm)
      /\ UNCHANGED <<stores, vmi, reported, running, last, stale>>
  BY DEF VMDisks, VMInfo, VMReports
<1>2. /\ CollectorOK(vm, "vms", VMDos) /\ "list" \notin VMDos
      /\ "disks" \in VMDos /\ "info" \in VMDos /\ "reports" \in VMDos
  BY DEF IInv, CollectorsOK, VMDos
<1>3. StoreOK("vms", stores.vms) /\ StoreOK("statistics", stores.statistics)
  BY KindsListed DEF IInv, TypeOK
<1>4. CASE VMDisks
  <2>1. Calls(vm, "disks") /\ samples' = samples \cup ToSet(collectDiskMetricsFromPVC(k, o, stores.pvcs))
    BY <1>4 DEF VMDisks, Gather
  <2>2. k \in Existing(vm.listed)
    BY <1>2, <2>1, CollectorFacts
  <2>3. ~LabelsCollide(stores) /\ vm.listed = stores.vms
          => samples' = samples \cup VMSays(stores, Call("disks", k))
    BY <1>3, <2>1, <2>2, VMFinds
  <2> QED
    BY <1>1, <1>2, <2>1, <2>3, SteadyVMCall
<1>5. CASE VMInfo
  <2>1. Calls(vm, "info") /\ samples' = samples \cup ToSet(CollectVMsInfo(k, o, stores.types))
    BY <1>5 DEF VMInfo, Gather
  <2>2. k \in Existing(vm.listed)
    BY <1>2, <2>1, CollectorFacts
  <2>3. ~LabelsCollide(stores) /\ vm.listed = stores.vms
          => samples' = samples \cup VMSays(stores, Call("info", k))
    BY <1>3, <2>1, <2>2, VMFinds
  <2> QED
    BY <1>1, <1>2, <2>1, <2>3, SteadyVMCall
<1>6. CASE VMReports
  <2>1. PICK labels \in ReportVMLabels(k, o) : Gather(VMReport(k, o, labels))
    BY <1>6 DEF VMReports, VMReport
  <2>2. Calls(vm, "reports") /\ samples' = samples \cup ToSet(VMReport(k, o, labels))
    BY <1>6, <2>1 DEF VMReports, Gather
  <2>3. k \in Existing(vm.listed)
    BY <1>2, <2>2, CollectorFacts
  <2>4. ~LabelsCollide(stores) /\ vm.listed = stores.vms
          => samples' = samples \cup VMSays(stores, Call("reports", k))
    BY <1>3, <2>1, <2>2, <2>3, VMFinds
  <2> QED
    BY <1>1, <1>2, <2>2, <2>4, SteadyVMCall
<1> QED
  BY <1>4, <1>5, <1>6

LEMMA SteadyVMIs ==
    ASSUME IInv, Steady, VMIInfo \/ VMIReports PROVE Steady'
<1> DEFINE k == Head(vmi.calls).key
           o == Value(vmi.listed[k])
<1>1. /\ vmi' = Done(vmi)
      /\ UNCHANGED <<stores, vm, reported, running, last, stale>>
  BY DEF VMIInfo, VMIReports
<1>2. /\ "info" \in VMIDos /\ "reports" \in VMIDos
      /\ OnePodPerNode(stores.pods)
  BY DEF IInv, CollectorsOK, VMIDos
<1>4. CASE VMIInfo
  <2>1. PICK pod \in getVMIPod(k, o, stores.pods) : Gather(CollectVMIInfo(k, o, pod, stores.types))
    BY <1>4 DEF VMIInfo
  <2>2. Calls(vmi, "info") /\ samples' = samples \cup ToSet(CollectVMIInfo(k, o, pod, stores.types))
    BY <1>4, <2>1 DEF VMIInfo, Gather
  <2>3. vmi.listed = stores.vmis => samples' = samples \cup VMISays(stores, Call("info", k))
    BY <1>2, <2>1, <2>2, VMIFinds
  <2> QED
    BY <1>1, <1>2, <2>2, <2>3, SteadyVMICall
<1>5. CASE VMIReports
  <2>1. Calls(vmi, "reports") /\ samples' = samples \cup ToSet(VMIReport(k, o, stores.migrations))
    BY <1>5 DEF VMIReports, VMIReport, Gather
  <2>2. vmi.listed = stores.vmis => samples' = samples \cup VMISays(stores, Call("reports", k))
    BY <1>2, <2>1, VMIFinds
  <2> QED
    BY <1>1, <1>2, <2>1, <2>2, SteadyVMICall
<1> QED
  BY <1>4, <1>5

LEMMA SteadyReports ==
    ASSUME IInv, Steady, MigrationReports \/ StatisticsReports PROVE Steady'
<1>1. UNCHANGED <<stores, vm, vmi, running, last, stale>>
  BY DEF MigrationReports, StatisticsReports, Reports
<1>2. StoreOK("vms", stores.vms) /\ StoreOK("statistics", stores.statistics)
  BY KindsListed DEF IInv, TypeOK
<1>3. CASE MigrationReports
  <2>1. /\ reported' = reported \cup {"migrations"}
        /\ samples' = samples \cup ToSet(ReportMigrationStats(stores.migrations))
    BY <1>3 DEF MigrationReports, Reports, Gather
  <2>2. SoFar(stores, vm, vmi, reported')
          = SoFar(stores, vm, vmi, reported) \cup ToSet(ReportMigrationStats(stores.migrations))
    <3> DEFINE p == MadeCalls(vm, VMDos, Existing(stores.vms))
               q == MadeCalls(vmi, VMIDos, Existing(stores.vmis))
    <3>1. \A r : SoFar(stores, vm, vmi, r) = Answered(stores, p, q, r)
      BY DEF SoFar
    <3> HIDE DEF p, q
    <3>2. Answered(stores, p, q, reported \cup {"migrations"})
            = Answered(stores, p, q, reported) \cup ToSet(ReportMigrationStats(stores.migrations))
      BY MigrationsAnswered
    <3> QED
      BY <2>1, <3>1, <3>2
  <2> QED
    BY <1>1, <2>1, <2>2, SteadyWhile DEF During
<1>4. CASE StatisticsReports
  <2>1. PICK runtime \in RuntimeLabels : Gather(StatisticsOf(stores.statistics, runtime))
    BY <1>4 DEF StatisticsReports, StatisticsOf, ReportOf
  <2>2. /\ reported' = reported \cup {"statistics"}
        /\ samples' = samples \cup ToSet(StatisticsOf(stores.statistics, runtime))
    BY <1>4, <2>1 DEF StatisticsReports, Reports, Gather
  <2>3. runtime \in RuntimesOf(stores.statistics)
    BY <2>1 DEF RuntimeLabels, RuntimesOf
  <2>4. ~LabelsCollide(stores) => samples' = samples \cup StatisticsSay(stores)
    BY <1>2, <2>2, <2>3, StatisticsFind
  <2>5. SoFar(stores, vm, vmi, reported') = SoFar(stores, vm, vmi, reported) \cup StatisticsSay(stores)
    <3> DEFINE p == MadeCalls(vm, VMDos, Existing(stores.vms))
               q == MadeCalls(vmi, VMIDos, Existing(stores.vmis))
    <3>1. \A r : SoFar(stores, vm, vmi, r) = Answered(stores, p, q, r)
      BY DEF SoFar
    <3> HIDE DEF p, q
    <3>2. Answered(stores, p, q, reported \cup {"statistics"})
            = Answered(stores, p, q, reported) \cup StatisticsSay(stores)
      BY StatisticsAnswered
    <3> QED
      BY <2>2, <3>1, <3>2
  <2> QED
    BY <1>1, <2>4, <2>5, SteadyWhile DEF During
<1> QED
  BY <1>3, <1>4

LEMMA SteadyListVMs ==
    ASSUME IInv, Steady, ListVMs PROVE Steady'
<1> DEFINE keys == SetToSeq(Existing(stores.vms))
<1>1. /\ vm' = [listed |-> stores.vms, calls |-> VMCalls(keys)]
      /\ UNCHANGED <<stores, vmi, reported, running, samples, last, stale>> /\ Calls(vm, "list")
  BY DEF ListVMs, VMCalls, Pass
<1>2. IsFiniteSet(Existing(stores.vms))
  BY KindsListed, StoreFacts DEF IInv, TypeOK
<1>3. IsSeq(keys) /\ ToSet(keys) = Existing(stores.vms) /\ IsInjective(keys)
  BY <1>2, SetToSeqFacts
<1> HIDE DEF keys
<1>4. \A do \in VMDos : \A k \in Existing(stores.vms) : Call(do, k) \in ToSet(vm'.calls)
  BY <1>1, <1>3, VMCallsFacts DEF VMDos
<1>5. MadeCalls(vm', VMDos, Existing(stores.vms)) = {}
  BY <1>4, AllLeft
<1>6. CollectorOK(vm, "vms", VMDos) /\ "list" \notin VMDos
  BY DEF IInv, CollectorsOK, VMDos
<1>7. ~Listed(vm)
  BY <1>1, <1>6, ListPending, IdleAndStarted
<1>8. MadeCalls(vm, VMDos, Existing(stores.vms)) = {}
  BY <1>7, NoneMade
<1>9. vm'.listed = stores.vms /\ SoFar(stores, vm', vmi, reported) = SoFar(stores, vm, vmi, reported)
  BY <1>1, <1>5, <1>8 DEF SoFar
<1> QED
  BY <1>1, <1>9, SteadyWhile DEF During

LEMMA SteadyListVMIs ==
    ASSUME IInv, Steady, ListVMIs PROVE Steady'
<1> DEFINE keys == SetToSeq(Existing(stores.vmis))
<1>1. /\ vmi' = [listed |-> stores.vmis, calls |-> VMICalls(keys)]
      /\ UNCHANGED <<stores, vm, reported, running, samples, last, stale>> /\ Calls(vmi, "list")
  BY DEF ListVMIs, VMICalls
<1>2. IsFiniteSet(Existing(stores.vmis))
  BY KindsListed, StoreFacts DEF IInv, TypeOK
<1>3. IsSeq(keys) /\ ToSet(keys) = Existing(stores.vmis) /\ IsInjective(keys)
  BY <1>2, SetToSeqFacts
<1> HIDE DEF keys
<1>4. \A do \in VMIDos : \A k \in Existing(stores.vmis) : Call(do, k) \in ToSet(vmi'.calls)
  BY <1>1, <1>3, VMICallsFacts DEF VMIDos
<1>5. MadeCalls(vmi', VMIDos, Existing(stores.vmis)) = {}
  BY <1>4, AllLeft
<1>6. CollectorOK(vmi, "vmis", VMIDos) /\ "list" \notin VMIDos
  BY DEF IInv, CollectorsOK, VMIDos
<1>7. ~Listed(vmi)
  BY <1>1, <1>6, ListPending, IdleAndStarted
<1>8. MadeCalls(vmi, VMIDos, Existing(stores.vmis)) = {}
  BY <1>7, NoneMade
<1>9. vmi'.listed = stores.vmis /\ SoFar(stores, vm, vmi', reported) = SoFar(stores, vm, vmi, reported)
  BY <1>1, <1>5, <1>8 DEF SoFar
<1> QED
  BY <1>1, <1>9, SteadyWhile DEF During

(* A scrape that has ended saw everything the stores hold. *)
LEMMA SteadyAtEnd ==
    ASSUME IInv, Steady, End, ~LabelsCollide(stores), stale < 2
    PROVE  samples = Full(stores)
<1>1. /\ running /\ reported = {"migrations", "statistics"}
      /\ vm.calls = <<>> /\ vmi.calls = <<>>
  BY DEF End
<1>2. ToSet(vm.calls) = {} /\ ToSet(vmi.calls) = {}
  BY <1>1, EmptyIsSeq
<1>3. samples = SoFar(stores, vm, vmi, reported)
  BY <1>1 DEF Steady
<1>4. /\ MadeCalls(vm, VMDos, Existing(stores.vms)) = AllCalls(VMDos, Existing(stores.vms))
      /\ MadeCalls(vmi, VMIDos, Existing(stores.vmis)) = AllCalls(VMIDos, Existing(stores.vmis))
  BY <1>2, AllMade
<1> QED
  BY <1>1, <1>3, <1>4 DEF SoFar, Full

LEMMA SteadyBegin ==
    ASSUME IInv, Steady, Begin PROVE Steady'
<1>1. /\ vm' = Started /\ vmi' = Started /\ reported' = {} /\ samples' = {}
      /\ UNCHANGED <<stores, last, stale>>
  BY DEF Begin
<1>2. ~Listed(vm') /\ ~Listed(vmi')
  BY <1>1, IdleAndStarted
<1>3. /\ MadeCalls(vm', VMDos, Existing(stores.vms)) = {}
      /\ MadeCalls(vmi', VMIDos, Existing(stores.vmis)) = {}
  BY <1>2, NoneMade
<1>4. samples' = SoFar(stores, vm', vmi', reported')
  BY <1>1, <1>3, NoneAnswered DEF SoFar
<1>5. SoFar(stores, vm, vmi, reported)' = SoFar(stores, vm', vmi', reported')
  BY <1>1
<1>6. /\ Full(stores)' = Full(stores) /\ (LabelsCollide(stores)' <=> LabelsCollide(stores))
      /\ Listed(vm)' = Listed(vm') /\ Listed(vmi)' = Listed(vmi')
  BY <1>1
<1> QED
  BY <1>1, <1>2, <1>4, <1>5, <1>6 DEF Steady

LEMMA SteadyEnd ==
    ASSUME IInv, Steady, End PROVE Steady'
<1>1. /\ ~running' /\ last' = (IF stale = 2 THEN {} ELSE samples)
      /\ stale' = (IF stale = 0 THEN 0 ELSE stale - 1) /\ stores' = stores
  BY DEF End
<1>2. stale \in 0..2
  BY DEF IInv, TypeOK
<1>3. Full(stores)' = Full(stores) /\ (LabelsCollide(stores)' <=> LabelsCollide(stores))
  BY <1>1
<1>4. ASSUME ~LabelsCollide(stores), stale' = 0 PROVE last' = Full(stores)
  <2>1. stale < 2 /\ last' = samples
    BY <1>1, <1>2, <1>4
  <2> QED
    BY <1>4, <2>1, SteadyAtEnd
<1> QED
  BY <1>1, <1>3, <1>4 DEF Steady

LEMMA SteadyUpdate ==
    ASSUME IInv, Steady, Update PROVE Steady'
<1>1. stale' = (IF running THEN 2 ELSE 1) /\ running' = running
  BY DEF Update, Change
<1> QED
  BY <1>1 DEF Steady

LEMMA SteadyNext ==
    ASSUME IInv, Steady, [Next]_vars PROVE Steady'
<1>1. CASE UNCHANGED vars
  BY <1>1, SteadyWhile DEF vars, During
<1> QED
  BY <1>1, SteadyVMs, SteadyVMIs, SteadyReports, SteadyListVMs, SteadyListVMIs,
     SteadyBegin, SteadyEnd, SteadyUpdate DEF Next

LEMMA SteadyInit == Init => Steady
BY DEF Init, Steady

(* A scrape is a function of the stores. Two scrapes with no change of the *)
(* stores between or during them have the same samples, whatever the order *)
(* of the calls of the collectors and of the maps they read, unless label  *)
(* keys of a VM, or of a VMI with statistics, collide once their invalid   *)
(* characters are replaced (reportVMLabels, buildRuntimeLabels).           *)
THEOREM SameScrape == Spec => ScrapesRepeatable
<1> DEFINE A == running /\ ~running' /\ stale = 0 =>
                  \/ last' = last
                  \/ \E k \in DOMAIN stores.vms : \E o \in stores.vms[k] : Colliding(MergedLabels(o))
                  \/ \E k \in DOMAIN stores.statistics :
                        \E e \in stores.statistics[k] : Colliding(e.vmi.labels)
<1>1. ASSUME IInv, Steady, [Next]_vars PROVE [A]_vars
  <2> SUFFICES ASSUME running, ~running', stale = 0, ~LabelsCollide(stores) PROVE last' = last
    BY DEF LabelsCollide
  <2>1. End
    <3>1. CASE Update
      BY <3>1 DEF Update, Change
    <3>2. CASE Begin \/ ListVMs \/ ListVMIs
      BY <3>2 DEF Begin, ListVMs, ListVMIs
    <3>3. CASE VMDisks \/ VMInfo \/ VMReports \/ VMIInfo \/ VMIReports
      BY <3>3 DEF VMDisks, VMInfo, VMReports, VMIInfo, VMIReports
    <3>4. CASE MigrationReports \/ StatisticsReports
      BY <3>4 DEF MigrationReports, StatisticsReports, Reports
    <3>5. CASE UNCHANGED vars
      BY <3>5 DEF vars
    <3> QED
      BY <1>1, <3>1, <3>2, <3>3, <3>4, <3>5 DEF Next
  <2>2. last' = samples
    BY <2>1 DEF End
  <2>3. samples = Full(stores)
    BY <1>1, <2>1, SteadyAtEnd
  <2>4. last = Full(stores)
    BY <1>1 DEF Steady
  <2> QED
    BY <2>2, <2>3, <2>4
<1>2. Spec => []Steady
  BY SteadyInit, SteadyNext, Invariance, PTL DEF Spec
<1>3. Spec => [][A]_vars
  BY <1>1, <1>2, Invariance, PTL DEF Spec
<1> QED
  BY <1>3, PTL DEF ScrapesRepeatable
=============================================================================
