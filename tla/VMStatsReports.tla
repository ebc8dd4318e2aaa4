--------------------------- MODULE VMStatsReports ---------------------------
(***************************************************************************)
(* What the VMStats collector reports of an entry of the statistics cache  *)
(* (vmstats/report.go, convert.go, metrics_*.go), in the terms of          *)
(* VMCollector. Of a structure with fields X and XSet only the fields that *)
(* are set are there: it is a function on their names. What the guest      *)
(* agent answered in JSON is the decoded value, {} when it is empty or     *)
(* cannot be decoded.                                                      *)
(***************************************************************************)
EXTENDS VMCollector

(* The labels every sample of a report carries. labelFormatter replaces    *)
(* the three characters of a label key that SanitizeLabelName would, and   *)
(* its prefix keeps the names apart from those of a metric's own labels.   *)
buildRuntimeLabels(vmi) == SanitizedLabels(vmi.labels)

Report(key, entry, runtime) ==
    [base  |-> [key |-> key, node |-> entry.vmi.node, runtime |-> runtime],
     stats |-> entry.stats]

newCollectorResultWithLabels(report, metric, value, additional) ==
    Sample(metric, [base |-> report.base,
                    own  |-> [l \in {m \in DOMAIN additional : additional[m] # ""} |-> additional[l]]],
           value)
newCollectorResult(report, metric, value) ==
    newCollectorResultWithLabels(report, metric, value, <<>>)

(* Numbers are fractions. *)
Plain(n) == <<n, 1>>
nanosecondsToSeconds(ns) == <<ns, 1000000000>>
kibibytesToBytes(kibibytes) == <<kibibytes * 1024, 1>>
Convert(unit, n) == CASE unit = "ns"  -> nanosecondsToSeconds(n)
                      [] unit = "KiB" -> kibibytesToBytes(n)
                      [] OTHER        -> Plain(n)

humanReadableVCPUState(state) ==
    CASE state = 0 -> "offline"
      [] state = 1 -> "running"
      [] state = 2 -> "blocked"
      [] OTHER     -> "unknown"

-----------------------------------------------------------------------------
(* The fields in the order they are reported, the metric of each and the  *)
(* unit of its value.                                                      *)
cpuMetrics == <<<<"time", "kubevirt_vmi_cpu_usage_seconds_total", "ns">>,
                <<"user", "kubevirt_vmi_cpu_user_usage_seconds_total", "ns">>,
                <<"system", "kubevirt_vmi_cpu_system_usage_seconds_total", "ns">>>>
loadMetrics == <<<<"load1m", "kubevirt_vmi_guest_load_1m", "">>,
                 <<"load5m", "kubevirt_vmi_guest_load_5m", "">>,
                 <<"load15m", "kubevirt_vmi_guest_load_15m", "">>>>
memoryMetrics == <<<<"rss", "kubevirt_vmi_memory_resident_bytes", "KiB">>,
                   <<"available", "kubevirt_vmi_memory_available_bytes", "KiB">>,
                   <<"unused", "kubevirt_vmi_memory_unused_bytes", "KiB">>,
                   <<"cached", "kubevirt_vmi_memory_cached_bytes", "KiB">>,
                   <<"swapIn", "kubevirt_vmi_memory_swap_in_traffic_bytes", "KiB">>,
                   <<"swapOut", "kubevirt_vmi_memory_swap_out_traffic_bytes", "KiB">>,
                   <<"majorFault", "kubevirt_vmi_memory_pgmajfault_total", "">>,
                   <<"minorFault", "kubevirt_vmi_memory_pgminfault_total", "">>,
                   <<"actualBalloon", "kubevirt_vmi_memory_actual_balloon_bytes", "KiB">>,
                   <<"usable", "kubevirt_vmi_memory_usable_bytes", "KiB">>,
                   <<"total", "kubevirt_vmi_memory_domain_bytes", "KiB">>>>
networkMetrics == <<<<"rxBytes", "kubevirt_vmi_network_receive_bytes_total", "">>,
                    <<"txBytes", "kubevirt_vmi_network_transmit_bytes_total", "">>,
                    <<"rxPkts", "kubevirt_vmi_network_receive_packets_total", "">>,
                    <<"txPkts", "kubevirt_vmi_network_transmit_packets_total", "">>,
                    <<"rxErrs", "kubevirt_vmi_network_receive_errors_total", "">>,
                    <<"txErrs", "kubevirt_vmi_network_transmit_errors_total", "">>,
                    <<"rxDrop", "kubevirt_vmi_network_receive_packets_dropped_total", "">>,
                    <<"txDrop", "kubevirt_vmi_network_transmit_packets_dropped_total", "">>>>
blockMetrics == <<<<"rdReqs", "kubevirt_vmi_storage_iops_read_total", "">>,
                  <<"wrReqs", "kubevirt_vmi_storage_iops_write_total", "">>,
                  <<"rdBytes", "kubevirt_vmi_storage_read_traffic_bytes_total", "">>,
                  <<"wrBytes", "kubevirt_vmi_storage_write_traffic_bytes_total", "">>,
                  <<"rdTimes", "kubevirt_vmi_storage_read_times_seconds_total", "ns">>,
                  <<"wrTimes", "kubevirt_vmi_storage_write_times_seconds_total", "ns">>,
                  <<"flReqs", "kubevirt_vmi_storage_flush_requests_total", "">>,
                  <<"flTimes", "kubevirt_vmi_storage_flush_times_seconds_total", "ns">>>>

(* One sample for each field that is set. *)
Fields(report, metrics, values, additional) ==
    LET field(m) == When(m[1] \in DOMAIN values,
                         <<newCollectorResultWithLabels(report, m[2], Convert(m[3], values[m[1]]),
                                                        additional)>>)
    IN  ForAll(metrics, field)

collectCPUMetrics(report) ==
    Maybe(report.stats.cpu, LAMBDA v : Fields(report, cpuMetrics, v, <<>>))
    \o Maybe(report.stats.load, LAMBDA v : Fields(report, loadMetrics, v, <<>>))

collectMemoryMetrics(report) ==
    Maybe(report.stats.memory, LAMBDA v : Fields(report, memoryMetrics, v, <<>>))

(* vCPUs are known by their position. *)
collectVCPUMetrics(report) ==
    LET vcpus == report.stats.vcpu
        vcpu(i) ==
            Fields(report, <<<<"time", "kubevirt_vmi_vcpu_seconds_total", "ns">>>>, vcpus[i],
                   [id |-> ToString(i - 1), state |-> humanReadableVCPUState(vcpus[i].state)])
            \o Fields(report, <<<<"wait", "kubevirt_vmi_vcpu_wait_seconds_total", "ns">>,
                                <<"delay", "kubevirt_vmi_vcpu_delay_seconds_total", "ns">>>>, vcpus[i],
                      [id |-> ToString(i - 1)])
    IN  ForAll([i \in DOMAIN vcpus |-> i], vcpu)

(* Interfaces and drives without a name are left out; an alias replaces    *)
(* the name, of an interface when it is set and of a drive when it is not  *)
(* empty.                                                                  *)
InterfaceOf(n) == IF "alias" \in DOMAIN n THEN n.alias ELSE n.name
DriveOf(b) == IF b.alias # "" THEN b.alias ELSE b.name

collectNetworkMetrics(report) ==
    LET net(n) == When("name" \in DOMAIN n,
                       Fields(report, networkMetrics, n, [interface |-> InterfaceOf(n)]))
    IN  ForAll(report.stats.net, net)

collectBlockMetrics(report) ==
    LET block(b) == When("name" \in DOMAIN b,
                         Fields(report, blockMetrics, b, [drive |-> DriveOf(b)]))
    IN  ForAll(report.stats.block, block)

collectDirtyRateMetrics(report) ==
    Maybe(report.stats.dirtyRate,
          LAMBDA mbps : <<newCollectorResult(report, "kubevirt_vmi_dirty_rate_bytes_per_second",
                                             Plain(mbps * 1024 * 1024))>>)

-----------------------------------------------------------------------------
(* What the guest agent said. *)
collectGuestInfo(report, metric, answer) ==
    Maybe(answer, LAMBDA info : <<newCollectorResultWithLabels(report, metric, Plain(1), info)>>)

collectGuestUsers(report) ==
    Maybe(report.stats.users,
          LAMBDA users : <<newCollectorResult(report, "kubevirt_vmi_guest_user_count", Plain(Len(users)))>>)

collectGuestDiskStats(report) ==
    LET disk(d) ==
        LET labels == [disk_name |-> d.name, mountpoint |-> d.mountpoint]
        IN  <<newCollectorResultWithLabels(report, "kubevirt_vmi_guest_disk_total_bytes", Plain(d.total), labels),
              newCollectorResultWithLabels(report, "kubevirt_vmi_guest_disk_used_bytes", Plain(d.used), labels)>>
    IN  Maybe(report.stats.disks, LAMBDA disks : ForAll(disks, disk))

(* Of the addresses of an interface only the first. *)
collectGuestInterfaces(report) ==
    LET interface(i) ==
        <<newCollectorResultWithLabels(report, "kubevirt_vmi_guest_interface_info", Plain(1),
              [interface_name |-> i.name, mac |-> i.mac,
               ip_address |-> IF i.addresses = <<>> THEN "" ELSE Head(i.addresses)])>>
    IN  Maybe(report.stats.interfaces, LAMBDA s : ForAll(s, interface))

collectGuestMetrics(report) ==
    collectGuestInfo(report, "kubevirt_vmi_guest_os_info", report.stats.osInfo)
    \o collectGuestInfo(report, "kubevirt_vmi_guest_hostname", report.stats.hostName)
    \o collectGuestInfo(report, "kubevirt_vmi_guest_timezone", report.stats.timezone)
    \o collectGuestUsers(report)
    \o collectGuestDiskStats(report)
    \o collectGuestInterfaces(report)

VMStatsSamples(report) ==
    collectCPUMetrics(report) \o collectMemoryMetrics(report) \o collectVCPUMetrics(report)
    \o collectNetworkMetrics(report) \o collectBlockMetrics(report)
    \o collectDirtyRateMetrics(report) \o collectGuestMetrics(report)

-----------------------------------------------------------------------------
(* Statistics as libvirt and the guest agent give them: numbers without a  *)
(* sign, and vCPUs, interfaces, drives and disks that can be told apart.   *)
Unsigned(metrics, values) ==
    \A i \in DOMAIN metrics : metrics[i][1] \in DOMAIN values => values[metrics[i][1]] \in Nat

StatsOK(stats) ==
    /\ \A v \in stats.cpu : Unsigned(cpuMetrics, v)
    /\ \A v \in stats.load : Unsigned(loadMetrics, v)
    /\ \A v \in stats.memory : Unsigned(memoryMetrics, v)
    /\ \A i \in DOMAIN stats.vcpu :
          \A f \in DOMAIN stats.vcpu[i] \cap {"time", "wait", "delay"} : stats.vcpu[i][f] \in Nat
    /\ Unique([i \in DOMAIN stats.vcpu |-> i - 1], ToString)
    /\ \A i \in DOMAIN stats.net : Unsigned(networkMetrics, stats.net[i])
    /\ Named(stats.net, LAMBDA n : "name" \in DOMAIN n, InterfaceOf)
    /\ \A i \in DOMAIN stats.block : Unsigned(blockMetrics, stats.block[i])
    /\ Named(stats.block, LAMBDA b : "name" \in DOMAIN b, DriveOf)
    /\ stats.dirtyRate \subseteq Nat
    /\ \A s \in stats.users : Len(s) \in Nat
    /\ \A s \in stats.disks : /\ Unique(s, LAMBDA d : <<d.name, d.mountpoint>>)
                               /\ \A i \in DOMAIN s : {s[i].total, s[i].used} \subseteq Nat
    /\ \A s \in stats.interfaces : Unique(s, LAMBDA i : i.name)
=============================================================================
