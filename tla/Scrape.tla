------------------------------- MODULE Scrape -------------------------------
(***************************************************************************)
(* Scrapes of the metrics endpoint while the cluster changes. A scrape     *)
(* runs the collectors side by side. Each one lists its objects once and   *)
(* then looks other objects up, one object after the other, in stores that *)
(* informers go on updating.                                               *)
(***************************************************************************)
EXTENDS VMICollector, VMStatsReports

CONSTANTS
    VMs, VMIs, Pods, Migrations, PVCs, Types, Statistics,  \* what may be stored under each key
    Starts,        \* stores a run begins with
    MaxChanges     \* bound on the changes of a run

VARIABLES
    stores,     \* the informers' stores and the statistics cache
    changes,    \* changes so far
    vm, vmi,    \* the VM and the VMI collector
    reported,   \* which of the collectors that read one store only have reported
    running,    \* a scrape is running
    samples,    \* samples the running scrape has gathered
    failed,     \* a sample came twice
    last,       \* samples of the scrape before, {} when it saw other stores
    stale       \* scrapes that must end before two have seen the same stores

vars == <<stores, changes, vm, vmi, reported, running, samples, failed, last, stale>>

Contents == [vms |-> VMs, vmis |-> VMIs, pods |-> Pods, migrations |-> Migrations,
             pvcs |-> PVCs, types |-> Types, statistics |-> Statistics]
Kinds == DOMAIN Contents

(* A store holds at most one object under each of finitely many keys.     *)
StoreOK(kind, store) ==
    /\ store = [k \in DOMAIN Contents[kind] |-> store[k]]
    /\ \A k \in DOMAIN store : store[k] \in {{}} \cup {{c} : c \in Contents[kind][k]}

(* KubeVirt never runs two pods of a VMI on one node: a migration goes to  *)
(* another node, and a pod that ends is no longer running.                 *)
OnePodPerNode(pods) ==
    \A p, q \in DOMAIN pods : p # q =>
        \A a \in pods[p], b \in pods[q] :
            ~(a.running /\ b.running /\ a.createdBy = b.createdBy /\ a.node = b.node)

ASSUME ScrapeAssumption ==
    /\ Width \in Nat \ {0}
    /\ 2^Width \in Nat \ {0}
    /\ MaxChanges \in Nat
    /\ \A kind \in Kinds : IsFiniteSet(DOMAIN Contents[kind])
    /\ \A key \in DOMAIN Pods : key = <<key[1], key[2]>>
    /\ \A s \in Starts : /\ s = [kind \in Kinds |-> s[kind]]
                         /\ \A kind \in Kinds : StoreOK(kind, s[kind])
                         /\ OnePodPerNode(s.pods)

(* What KubeVirt's API admits: lists without two elements of one name,     *)
(* unsigned numbers of CPUs, conditions that have a time, and the phases   *)
(* of migrations. VMIs have UIDs of their own, and a pod keeps the VMI it  *)
(* was created for, or is created again for one of the same name.          *)
ASSUME ObjectsAssumption ==
    /\ \A k \in DOMAIN VMs : \A o \in VMs[k] :
          /\ \A t \in o.template : /\ Unique(t.volumes, LAMBDA v : v.name)
                                   /\ Unique(t.interfaces, LAMBDA i : i.name)
                                   /\ \A c \in t.cpu : {c.cores, c.sockets, c.threads} \subseteq 0..(2^Width - 1)
          /\ \A c \in DOMAIN o.conditions : o.conditions[c] \in Nat \ {0}
    /\ \A k \in DOMAIN VMIs : \A o \in VMIs[k] :
          /\ Unique(o.addresses, LAMBDA a : <<a.name, a.interface, a.ip>>)
          /\ Unique(o.interfaces, LAMBDA i : i.name)
    /\ \A k, l \in DOMAIN VMIs : \A o \in VMIs[k], n \in VMIs[l] :
          \A p \in DOMAIN Pods : \A a, b \in Pods[p] :
              a.createdBy = o.uid /\ b.createdBy = n.uid => k = l
    /\ \A k \in DOMAIN Migrations : \A o \in Migrations[k] :
          o.phase \in {"", "Pending", "Scheduling", "Scheduled", "PreparingTarget", "TargetReady",
                      "Running", "Succeeded", "Failed", "WaitingForSync", "Synchronizing"}

ASSUME StatisticsAssumption ==
    \A k \in DOMAIN Statistics : \A e \in Statistics[k] : StatsOK(e.stats)

(* A collector: the store it listed and the calls it has yet to make. *)
Call(do, k) == [do |-> do, key |-> k]
Idle == [listed |-> <<>>, calls |-> <<>>]
Started == [listed |-> <<>>, calls |-> <<Call("list", <<>>)>>]

Init ==
    /\ stores \in Starts
    /\ changes = 0
    /\ vm = Idle
    /\ vmi = Idle
    /\ reported = {}
    /\ running = FALSE
    /\ samples = {}
    /\ failed = FALSE
    /\ last = {}
    /\ stale = 1

-----------------------------------------------------------------------------
(* An object is created, updated or deleted. *)
Change(kind, k) ==
    /\ changes < MaxChanges
    /\ changes' = changes + 1
    /\ \E o \in {{}} \cup {{c} : c \in Contents[kind][k]} :
          /\ o # stores[kind][k]
          /\ stores' = [stores EXCEPT ![kind][k] = o]
    /\ OnePodPerNode(stores'.pods)
    /\ stale' = IF running THEN 2 ELSE 1
    /\ last' = {}
    /\ UNCHANGED <<vm, vmi, reported, running, samples, failed>>

Update == \E kind \in Kinds : \E k \in DOMAIN Contents[kind] : Change(kind, k)

-----------------------------------------------------------------------------
(* The registry refuses a scrape in which a metric and its labels occur    *)
(* twice.                                                                  *)
Gather(new) ==
    LET ids == {Id(s) : s \in ToSet(new)}
    IN  /\ samples' = samples \cup ToSet(new)
        /\ failed' = \/ failed
                     \/ Cardinality(ids) < Len(new)
                     \/ ids \cap {Id(s) : s \in samples} # {}

Existing(store) == {k \in DOMAIN store : store[k] # {}}

Begin ==
    /\ ~running
    /\ running' = TRUE
    /\ vm' = Started
    /\ vmi' = Started
    /\ reported' = {}
    /\ samples' = {}
    /\ failed' = FALSE
    /\ UNCHANGED <<stores, changes, last, stale>>

Calls(c, do) == c.calls # <<>> /\ Head(c.calls).do = do
Done(c) == [c EXCEPT !.calls = Tail(@)]

(* vmStatsCollectorCallback: a pass that looks claims up, a pass that      *)
(* looks instance types and preferences up, and passes that only use the   *)
(* listed VMs.                                                             *)
ListVMs ==
    /\ Calls(vm, "list")
    /\ LET keys == SetToSeq(Existing(stores.vms))
           pass(do) == [i \in DOMAIN keys |-> Call(do, keys[i])]
       IN  vm' = [listed |-> stores.vms, calls |-> pass("disks") \o pass("info") \o pass("reports")]
    /\ UNCHANGED <<stores, changes, vmi, reported, running, samples, failed, last, stale>>

VMDisks ==
    /\ Calls(vm, "disks")
    /\ LET k == Head(vm.calls).key
       IN  Gather(collectDiskMetricsFromPVC(k, Value(vm.listed[k]), stores.pvcs))
    /\ vm' = Done(vm)
    /\ UNCHANGED <<stores, changes, vmi, reported, running, last, stale>>

VMInfo ==
    /\ Calls(vm, "info")
    /\ LET k == Head(vm.calls).key
       IN  Gather(CollectVMsInfo(k, Value(vm.listed[k]), stores.types))
    /\ vm' = Done(vm)
    /\ UNCHANGED <<stores, changes, vmi, reported, running, last, stale>>

VMReports ==
    /\ Calls(vm, "reports")
    /\ LET k == Head(vm.calls).key
           o == Value(vm.listed[k])
       IN  \E labels \in ReportVMLabels(k, o) :
              Gather(CollectResourceRequestsAndLimits(k, o) \o labels \o reportVMTimestamps(k, o)
                     \o collectVMCreationTimestamp(k, o) \o CollectVmsVnicInfo(k, o))
    /\ vm' = Done(vm)
    /\ UNCHANGED <<stores, changes, vmi, reported, running, last, stale>>

(* Fault: objects that are gone are listed as well. *)
ListGoneVMIs ==
    /\ Calls(vmi, "list")
    /\ vmi' = [listed |-> stores.vmis,
               calls |-> ForAll(SetToSeq(DOMAIN stores.vmis),
                                LAMBDA k : <<Call("info", k), Call("reports", k)>>)]
    /\ UNCHANGED <<stores, changes, vm, reported, running, samples, failed, last, stale>>

(* vmiStatsCollectorCallback: for each VMI, its instance type and its pod  *)
(* are looked up, and then the migration it refers to.                     *)
ListVMIs ==
    /\ Calls(vmi, "list")
    /\ vmi' = [listed |-> stores.vmis,
               calls |-> ForAll(SetToSeq(Existing(stores.vmis)),
                                LAMBDA k : <<Call("info", k), Call("reports", k)>>)]
    /\ UNCHANGED <<stores, changes, vm, reported, running, samples, failed, last, stale>>

VMIInfo ==
    /\ Calls(vmi, "info")
    /\ LET k == Head(vmi.calls).key
           o == Value(vmi.listed[k])
       IN  \E pod \in getVMIPod(k, o, stores.pods) :
              Gather(CollectVMIInfo(k, o, pod, stores.types))
    /\ vmi' = Done(vmi)
    /\ UNCHANGED <<stores, changes, vm, reported, running, last, stale>>

(* Fault: the VMI is read anew. *)
VMIReportsAfresh ==
    /\ Calls(vmi, "reports")
    /\ LET k == Head(vmi.calls).key
           reports(o) == getEvictionBlocker(k, o) \o collectVMIInterfacesInfo(k, o)
                         \o CollectVMIMigrationTime(k, o, stores.migrations) \o CollectVMIsVnicInfo(k, o)
                         \o collectVMILauncherMemoryOverhead(k, o)
       IN  Gather(Maybe(stores.vmis[k], reports))
    /\ vmi' = Done(vmi)
    /\ UNCHANGED <<stores, changes, vm, reported, running, last, stale>>

VMIReports ==
    /\ Calls(vmi, "reports")
    /\ LET k == Head(vmi.calls).key
           o == Value(vmi.listed[k])
       IN  Gather(getEvictionBlocker(k, o) \o collectVMIInterfacesInfo(k, o)
                  \o CollectVMIMigrationTime(k, o, stores.migrations) \o CollectVMIsVnicInfo(k, o)
                  \o collectVMILauncherMemoryOverhead(k, o))
    /\ vmi' = Done(vmi)
    /\ UNCHANGED <<stores, changes, vm, reported, running, last, stale>>

Reports(collector) ==
    /\ running
    /\ collector \notin reported
    /\ reported' = reported \cup {collector}
    /\ UNCHANGED <<stores, changes, vm, vmi, running, last, stale>>

(* migrationStatsCollectorCallback: lists and reports. *)
MigrationReports ==
    /\ Reports("migrations")
    /\ Gather(ReportMigrationStats(stores.migrations))

(* The labels of the VMIs with statistics, whichever keys win. *)
RuntimeLabels ==
    LET keys == Existing(stores.statistics)
        labels(k) == buildRuntimeLabels(Value(stores.statistics[k]).vmi)
    IN  {r \in [keys -> UNION {labels(k) : k \in keys}] : \A k \in keys : r[k] \in labels(k)}

ReportOf(k, runtime) == Report(k, Value(stores.statistics[k]), runtime[k])

(* Fault: the labels are built again for the metrics of the guest. *)
StatisticsRelabelled ==
    /\ Reports("statistics")
    /\ \E runtime, again \in RuntimeLabels :
          Gather(ForAll(SetToSeq(Existing(stores.statistics)),
                        LAMBDA k : collectMemoryMetrics(ReportOf(k, runtime))
                                   \o collectGuestMetrics(ReportOf(k, again))))

(* vmStatsCollector: lists the cache, and makes one report of each entry.  *)
StatisticsReports ==
    /\ Reports("statistics")
    /\ \E runtime \in RuntimeLabels :
          Gather(ForAll(SetToSeq(Existing(stores.statistics)),
                        LAMBDA k : VMStatsSamples(ReportOf(k, runtime))))

(* Every collector has returned. *)
End ==
    /\ running /\ reported = {"migrations", "statistics"}
    /\ vm.calls = <<>> /\ vmi.calls = <<>>
    /\ running' = FALSE
    /\ vm' = Idle
    /\ vmi' = Idle
    /\ last' = IF stale = 2 THEN {} ELSE samples
    /\ stale' = IF stale = 0 THEN 0 ELSE stale - 1
    /\ UNCHANGED <<stores, changes, reported, samples, failed>>

Next == \/ Update
        \/ Begin \/ End
        \/ ListVMs \/ VMDisks \/ VMInfo \/ VMReports
        \/ ListVMIs \/ VMIInfo \/ VMIReports
        \/ MigrationReports \/ StatisticsReports

Spec == Init /\ [][Next]_vars

-----------------------------------------------------------------------------
(* Type invariant of the scrape. *)
TypeOK ==
    /\ \A kind \in Kinds : StoreOK(kind, stores[kind])
    /\ changes \in 0..MaxChanges
    /\ \A c \in {vm, vmi} : ToSet(c.calls) \subseteq
          {Call("list", <<>>)} \cup {Call(do, k) : do \in {"disks", "info", "reports"},
                                                  k \in Existing(c.listed)}
    /\ reported \subseteq {"migrations", "statistics"}
    /\ {running, failed} \subseteq BOOLEAN
    /\ \A s \in samples \cup last : DOMAIN s = {"metric", "labels", "value"}
    /\ stale \in 0..2

(* No scrape has a metric twice with the same labels: the registry would   *)
(* answer an error, and no metric at all would be served, because of one   *)
(* object in the cluster.                                                  *)
NoDuplicateSamples == ~failed

(* What the last scrape was answered. *)
Answer == IF running THEN {} ELSE samples

(* Of the five status timestamps of a VM exactly one is set, also when     *)
(* the VM has no condition yet, and it is the one of the status group that *)
(* kubevirt_vm_info shows in the same scrape; a status without a group     *)
(* counts as an error.                                                     *)
OneStatusTimestamp ==
    \A i \in {s \in Answer : s.metric = "kubevirt_vm_info"} :
        LET set == {g \in Groups : \E s \in Answer : /\ s.metric = TimestampName[g]
                                                  /\ s.labels.key = i.labels.key
                                                  /\ s.value # 0}
        IN  set = {IF i.labels.group \in Groups THEN i.labels.group ELSE "error"}

(* Values a scrape gives for a request. *)
Requested(key, resource, unit, source) ==
    {s.value : s \in {r \in samples : /\ r.metric = "kubevirt_vm_resource_requests"
                                     /\ r.labels.key = key /\ r.labels.resource = resource
                                     /\ r.labels.unit = unit /\ r.labels.source = source}}

(* The effective size of a VM agrees with what the scrape gives of the     *)
(* parts. Memory is the guest's, else the request's, else the limit's, and *)
(* is missing with the one it is taken from: one that is zero is not       *)
(* reported, and hides those after it. CPUs are the product of the         *)
(* topology, which is never zero: it wraps around, and what becomes zero   *)
(* on the way counts as one, as what is not set does.                      *)
SizesAgree(key, object) ==
    LET memory(source) == Requested(key, "memory", "bytes", source)
        limit == {s.value : s \in {r \in samples : /\ r.metric = "kubevirt_vm_resource_limits"
                                                  /\ r.labels.key = key
                                                  /\ r.labels.resource = "memory"}}
        factor(unit) == Max(Requested(key, "cpu", unit, "domain") \cup {1})
        wrapped(n) == IF n % 2^Width = 0 THEN 1 ELSE n % 2^Width
        t == Value(object.template)
    IN  object.template # {} =>
            /\ memory("guest_effective") =
                   IF t.guest # {} THEN memory("guest")
                   ELSE IF t.memoryRequest # {} THEN memory("domain") ELSE limit
            /\ Requested(key, "cpu", "cores", "guest_effective") =
                   {wrapped(wrapped(factor("cores") * factor("sockets")) * factor("threads"))}

(* When a scrape ends, this holds of all VMs it listed. *)
EffectiveSizesAgree ==
    [][running /\ ~running' =>
          \A k \in Existing(vm.listed) : SizesAgree(k, Value(vm.listed[k]))]_vars

(* The series of a VMI fit together, although the pod and the migration    *)
(* are looked up later and the VMI may be gone, moved or replaced by then: *)
(* all carry one node, what blocks the eviction is the label evictable of  *)
(* kubevirt_vmi_info, and no pod is given for two VMIs. Rules join them by *)
(* name.                                                                   *)
VMISeriesAgree ==
    LET told == {s \in Answer : s.metric \in {"kubevirt_vmi_info", "kubevirt_vmi_non_evictable",
                                             "kubevirt_vmi_status_addresses",
                                             "kubevirt_vmi_migration_start_time_seconds",
                                             "kubevirt_vmi_migration_end_time_seconds"}}
        infos == {s \in told : s.metric = "kubevirt_vmi_info"}
    IN  /\ \A i \in infos : \A s \in told :
              s.labels.key = i.labels.key =>
                  /\ s.labels.node = i.labels.node
                  /\ s.metric = "kubevirt_vmi_non_evictable" => (i.labels.evictable <=> s.value = 0)
        /\ \A i, j \in infos :
              i.labels.pod = j.labels.pod /\ i.labels.key[1] = j.labels.key[1] => i = j \/ i.labels.pod = None

(* Every migration of the store is seen once: as succeeded, as failed, or  *)
(* in one of the counts; only the phases of migrations between clusters    *)
(* are not counted.                                                        *)
EveryMigrationSeenOnce ==
    []["migrations" \in reported' \ reported =>
          LET new      == samples' \ samples
              finished == {s \in new : s.metric \in {"kubevirt_vmi_migration_succeeded",
                                                    "kubevirt_vmi_migration_failed"}}
              counts   == {s \in new : \E c \in DOMAIN CountName : s.metric = CountName[c]}
          IN  Cardinality(finished) + MapThenSumSet(LAMBDA s : s.value, counts) =
                Cardinality(Existing(stores.migrations)
                              \ InPhase(stores.migrations, {"WaitingForSync", "Synchronizing"}))]_vars

(* All statistics of a VMI in a scrape carry the same node and the same    *)
(* labels, also when its label keys collide and a map's order decides      *)
(* which one wins, so that expressions over two of its metrics find both.  *)
StatisticsShareLabels ==
    LET bases == {s.labels.base : s \in {r \in Answer : "base" \in DOMAIN r.labels}}
    IN  \A b, c \in bases : b.key = c.key => b = c

(* A scrape is a function of the stores: while they do not change two      *)
(* scrapes are the same, whatever the order maps are read in, except for   *)
(* VMs and VMIs with label keys that only differ in invalid characters. A  *)
(* series that comes and goes would break rates and alerts over it.        *)
ScrapesRepeatable ==
    [][running /\ ~running' /\ stale = 0 =>
          \/ last' = last
          \/ \E k \in DOMAIN stores.vms : \E o \in stores.vms[k] : Colliding(MergedLabels(o))
          \/ \E k \in DOMAIN stores.statistics :
                \E e \in stores.statistics[k] : Colliding(e.vmi.labels)]_vars
=============================================================================
