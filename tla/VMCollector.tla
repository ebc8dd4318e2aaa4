----------------------------- MODULE VMCollector -----------------------------
(***************************************************************************)
(* What the VM collector reports of a VM (vmstats_collector.go,            *)
(* helpers.go). A sample is a metric, the values of its labels and a       *)
(* value. Pointers and map entries that may be missing are sets with at    *)
(* most one element. Namespaced objects are known by <<namespace, name>>.  *)
(***************************************************************************)
EXTENDS Integers, Sequences, SequencesExt

CONSTANTS
    Width,      \* bits of the integers of a CPU topology
    Sanitize,   \* Sanitize[l]: label key l with invalid characters replaced
    Lower       \* Lower[s]: status or phase s in lower case

Sample(metric, labels, value) == [metric |-> metric, labels |-> labels, value |-> value]
Id(s) == [metric |-> s.metric, labels |-> s.labels]

When(cond, samples) == IF cond THEN samples ELSE <<>>
ForAll(s, Op(_)) == FlattenSeq([i \in DOMAIN s |-> Op(s[i])])

Value(opt) == CHOOSE v \in opt : TRUE
Maybe(opt, Op(_)) == IF opt = {} THEN <<>> ELSE Op(Value(opt))
IsZero(quantity) == quantity \subseteq {0}
Found(key, store) == key \in DOMAIN store /\ store[key] # {}

(* The elements of a list that count have different names. *)
Named(s, Counts(_), Name(_)) ==
    /\ s \in Seq(ToSet(s))
    /\ \A i, j \in DOMAIN s : Counts(s[i]) /\ Counts(s[j]) /\ Name(s[i]) = Name(s[j]) => i = j
Unique(s, Name(_)) == Named(s, LAMBDA e : TRUE, Name)

-----------------------------------------------------------------------------
(* Names of instance types and preferences: a store tells for each one it  *)
(* holds whether its vendor is whitelisted. Cluster-wide ones are in the   *)
(* namespace "".                                                           *)
None  == ""
Other == "<other>"

FetchResourceName(key, store) ==
    IF Found(key, store) /\ Value(store[key]) THEN key[2] ELSE Other

ResourceName(namespace, ref, store) ==
    IF ref = {} THEN None
    ELSE LET r == Value(ref) IN
         CASE r.kind = "namespaced" -> FetchResourceName(<<namespace, r.name>>, store)
           [] r.kind = "cluster"    -> FetchResourceName(<<"", r.name>>, store)
           [] OTHER                 -> None

(* Printable statuses, by group. *)
StatusGroups ==
    [starting    |-> {"Provisioning", "Starting", "WaitingForVolumeBinding"},
     running     |-> {"Running"},
     migrating   |-> {"Migrating"},
     non_running |-> {"Stopped", "Paused", "Stopping", "Terminating"},
     error       |-> {"CrashLoopBackOff", "Unknown", "ErrorUnschedulable", "ErrImagePull",
                      "ImagePullBackOff", "ErrorPvcNotFound", "DataVolumeError"}]

Groups == DOMAIN StatusGroups

GetVMStatusGroup(status) ==
    IF \E g \in Groups : status \in StatusGroups[g]
      THEN CHOOSE g \in Groups : status \in StatusGroups[g]
      ELSE "<unknown>"

CollectVMsInfo(key, vm, types) ==
    <<Sample("kubevirt_vm_info",
             [key    |-> key,
              type   |-> ResourceName(key[1], vm.instancetype, types),
              pref   |-> ResourceName(key[1], vm.preference, types),
              status |-> Lower[vm.status],
              group  |-> GetVMStatusGroup(vm.status)], 1)>>

-----------------------------------------------------------------------------
(* Status timestamps. *)
TransitionTimes(vm) ==
    {vm.conditions[c] : c \in DOMAIN vm.conditions \cap {"Ready", "Failure", "Paused"}}

(* Fault: starts from the zero time, which marks the metrics not in use. *)
TransitionFromZero(vm) ==
    CHOOSE t \in TransitionTimes(vm) \cup {0} : \A u \in TransitionTimes(vm) : u <= t

(* The latest transition; -1 when the VM has no such condition yet. *)
GetLastConditionTransitionTime(vm) ==
    CHOOSE t \in TransitionTimes(vm) \cup {-1} : \A u \in TransitionTimes(vm) : u <= t

getTimestampMetric(status) ==
    IF GetVMStatusGroup(status) \in Groups THEN GetVMStatusGroup(status) ELSE "error"

timestampMetrics == <<"starting", "running", "migrating", "non_running", "error">>
TimestampName == [starting    |-> "kubevirt_vm_starting_status_last_transition_timestamp_seconds",
                  running     |-> "kubevirt_vm_running_status_last_transition_timestamp_seconds",
                  migrating   |-> "kubevirt_vm_migrating_status_last_transition_timestamp_seconds",
                  non_running |-> "kubevirt_vm_non_running_status_last_transition_timestamp_seconds",
                  error       |-> "kubevirt_vm_error_status_last_transition_timestamp_seconds"]

reportVMTimestamps(key, vm) ==
    ForAll(timestampMetrics,
           LAMBDA m : <<Sample(TimestampName[m], [key |-> key],
                               IF m = getTimestampMetric(vm.status)
                                 THEN GetLastConditionTransitionTime(vm) ELSE 0)>>)

-----------------------------------------------------------------------------
(* Labels: those of the template win over those of the VM. Keys that       *)
(* become the same label name overwrite one another in the order of a      *)
(* map's iteration, so that a set of outcomes is possible; empty values    *)
(* are dropped when the sample is exported.                                *)
MergedLabels(vm) ==
    LET template == IF vm.template = {} THEN <<>> ELSE Value(vm.template).labels
    IN  [l \in DOMAIN template \cup DOMAIN vm.labels |->
            IF l \in DOMAIN template THEN template[l] ELSE vm.labels[l]]

Colliding(labels) == \E l, m \in DOMAIN labels : l # m /\ Sanitize[l] = Sanitize[m]

SanitizedLabels(labels) ==
    LET names   == {Sanitize[l] : l \in DOMAIN labels}
        winners == {w \in [names -> DOMAIN labels] : \A n \in names : Sanitize[w[n]] = n}
    IN  {[n \in {m \in names : labels[w[m]] # ""} |-> labels[w[n]]] : w \in winners}

ReportVMLabels(key, vm) ==
    IF DOMAIN MergedLabels(vm) = {} THEN {<<>>}
    ELSE {<<Sample("kubevirt_vm_labels", [key |-> key, labels |-> exported], 1)>> :
             exported \in SanitizedLabels(MergedLabels(vm))}

-----------------------------------------------------------------------------
(* Resource requests and limits. *)
Request(key, resource, unit, source, v) ==
    Sample("kubevirt_vm_resource_requests",
           [key |-> key, resource |-> resource, unit |-> unit, source |-> source], v)
Limit(key, resource, unit, v) ==
    Sample("kubevirt_vm_resource_limits", [key |-> key, resource |-> resource, unit |-> unit], v)

(* Fault: the request is not looked at. *)
WithoutRequest(t) == IF t.guest # {} THEN t.guest ELSE t.memoryLimit

GetVirtualMemory(t) ==
    IF t.guest # {} THEN t.guest
    ELSE IF t.memoryLimit # {} /\ t.memoryRequest = {} THEN t.memoryLimit ELSE t.memoryRequest

(* Fault: a factor that is zero is not skipped. *)
Multiply(a, b) == (a * b) % 2^Width

(* A multiplication that skips unset factors; it wraps around. *)
Times(a, b) == CASE b = 0 -> a
                 [] a = 0 -> b
                 [] OTHER -> (a * b) % 2^Width

GetNumberOfVCPUs(cpu) ==
    LET c == Value(cpu)
        n == Times(Times(c.cores, c.sockets), c.threads)
    IN  IF n = 0 THEN 1 ELSE n

collectMemory(key, t) ==
    LET request(source, q) ==
            When(~IsZero(q), <<Request(key, "memory", "bytes", source, Value(q))>>)
    IN  request("domain", t.memoryRequest)
        \o request("guest", t.guest)
        \o Maybe(t.hugepages, LAMBDA q : <<Request(key, "memory", "bytes", "hugepages", q)>>)
        \o When(~IsZero(t.memoryLimit), <<Limit(key, "memory", "bytes", Value(t.memoryLimit))>>)
        \o request("guest_effective", GetVirtualMemory(t))

collectCPU(key, t) ==
    LET units == <<"cores", "threads", "sockets">>
        domain(u) == When(t.cpu # {} /\ Value(t.cpu)[u] # 0,
                          <<Request(key, "cpu", u, "domain", Value(t.cpu)[u])>>)
        default(u) == <<Request(key, "cpu", u, "default", 1)>>
    IN  ForAll(units, domain)
        \o When(~IsZero(t.cpuRequest), <<Request(key, "cpu", "cores", "requests", Value(t.cpuRequest))>>)
        \o When(IsZero(t.cpuRequest) /\ t.cpu = {}, ForAll(units, default))
        \o When(~IsZero(t.cpuLimit), <<Limit(key, "cpu", "cores", Value(t.cpuLimit))>>)
        \o <<Request(key, "cpu", "cores", "guest_effective",
                     IF t.cpu = {} THEN 1 ELSE GetNumberOfVCPUs(t.cpu))>>

CollectResourceRequestsAndLimits(key, vm) ==
    Maybe(vm.template, LAMBDA t : collectMemory(key, t) \o collectCPU(key, t))

-----------------------------------------------------------------------------
(* Disks. The size of a data volume made from a template of the VM is the  *)
(* template's, any other size the claim's.                                 *)
DiskSize(vm, volume, pvc) ==
    IF volume.dataVolume /\ Found(volume.claim, vm.dvTemplates)
      THEN Value(vm.dvTemplates[volume.claim]) ELSE pvc.size

(* Fault: the disk's name is not a label. *)
WithoutDevice(key, vm, volume, pvc) ==
    Sample("kubevirt_vm_disk_allocated_size_bytes", [key |-> key, claim |-> volume.claim, mode |-> pvc.mode],
           DiskSize(vm, volume, pvc))

getDiskSizeResult(key, vm, volume, pvc) ==
    Sample("kubevirt_vm_disk_allocated_size_bytes",
           [key |-> key, claim |-> volume.claim, mode |-> pvc.mode, device |-> volume.name],
           DiskSize(vm, volume, pvc))

collectDiskMetricsFromPVC(key, vm, pvcs) ==
    LET disk(v) == When(v.claim # "" /\ Found(<<key[1], v.claim>>, pvcs),
                        <<getDiskSizeResult(key, vm, v, Value(pvcs[<<key[1], v.claim>>]))>>)
    IN  Maybe(vm.template, LAMBDA t : ForAll(t.volumes, disk))

collectVMCreationTimestamp(key, vm) ==
    Maybe(vm.created, LAMBDA t : <<Sample("kubevirt_vm_create_date_timestamp_seconds", [key |-> key], t)>>)

(* Interfaces without a pod or Multus network of their name are left out.  *)
GetBinding(binding) ==
    CASE binding \in {"masquerade", "bridge", "sriov"} -> <<"core", binding>>
      [] binding = ""                                  -> <<"", "">>
      [] OTHER                                         -> <<"plugin", binding>>

VnicInfo(metric, key, interfaces, networks) ==
    LET vnic(i) ==
        When(Found(i.name, networks),
             <<Sample(metric, [key |-> key, vnic |-> i.name, binding |-> GetBinding(i.binding),
                               network |-> Value(networks[i.name])], 1)>>)
    IN  ForAll(interfaces, vnic)

CollectVmsVnicInfo(key, vm) ==
    Maybe(vm.template,
          LAMBDA t : VnicInfo("kubevirt_vm_vnic_info", key, t.interfaces, t.networks))
=============================================================================
