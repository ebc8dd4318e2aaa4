---------------------------- MODULE VMICollector ----------------------------
(***************************************************************************)
(* What the VMI and the migration collector report                         *)
(* (vmistats_collector.go, migrationstats_collector.go, helpers.go), in    *)
(* the terms of VMCollector.                                               *)
(***************************************************************************)
EXTENDS VMCollector, FiniteSets

(* With a live-migration strategy a VMI is evictable if its IsMigratable   *)
(* condition is true; a missing condition counts as false.                 *)
IsVMIEvictable(vmi) ==
    vmi.strategy \in {"LiveMigrate", "LiveMigrateIfPossible"} => vmi.migratable = {TRUE}

(* Fault: the pods of both ends of a migration match. *)
PodsAnywhere(key, vmi, pods) ==
    {p \in DOMAIN pods : p[1] = key[1] /\ \E pod \in pods[p] : pod.createdBy = vmi.uid /\ pod.running}

(* Fault: pods are matched by the node only. *)
PodsOnNode(key, vmi, pods) ==
    {p \in DOMAIN pods : p[1] = key[1] /\ \E pod \in pods[p] : pod.running /\ pod.node = vmi.node}

MatchingPods(key, vmi, pods) ==
    {p \in DOMAIN pods :
        /\ p[1] = key[1]
        /\ \E pod \in pods[p] : /\ pod.createdBy = vmi.uid
                                /\ pod.running
                                /\ pod.node = vmi.node}

(* The first match in the order of the index, which is a map's. *)
getVMIPod(key, vmi, pods) ==
    IF MatchingPods(key, vmi, pods) = {} THEN {None}
    ELSE {p[2] : p \in MatchingPods(key, vmi, pods)}

CollectVMIInfo(key, vmi, pod, types) ==
    <<Sample("kubevirt_vmi_info",
             [key       |-> key,
              node      |-> vmi.node,
              phase     |-> Lower[vmi.phase],
              type      |-> ResourceName(key[1], vmi.instancetype, types),
              evictable |-> IsVMIEvictable(vmi),
              pod       |-> pod], 1)>>

getEvictionBlocker(key, vmi) ==
    <<Sample("kubevirt_vmi_non_evictable", [key |-> key, node |-> vmi.node],
             IF IsVMIEvictable(vmi) THEN 0 ELSE 1)>>

(* Addresses: an interface without address and without names is left out.  *)
collectVMIInterfacesInfo(key, vmi) ==
    LET address(i) ==
        When(i.ip # "" \/ i.name # "" \/ i.interface # "",
             <<Sample("kubevirt_vmi_status_addresses",
                      [key |-> key, node |-> vmi.node, vnic |-> i.name, interface |-> i.interface,
                       address |-> i.ip,
                       kind |-> IF i.ip = "" THEN "SystemInterface" ELSE "ExternalInterface"], 1)>>)
    IN  ForAll(vmi.addresses, address)

(* Migrations are indexed by UID: the name of the one the VMI refers to,   *)
(* if it still exists.                                                     *)
getMigrationNameFromUID(uid, migrations) ==
    LET found == {k \in DOMAIN migrations : \E m \in migrations[k] : m.uid = uid}
    IN  IF found = {} THEN None ELSE Value(found)[2]

CalculateMigrationStatus(m) ==
    IF ~m.completed THEN "" ELSE IF m.failed THEN "failed" ELSE "succeeded"

CollectVMIMigrationTime(key, vmi, migrations) ==
    LET times(m) ==
        LET labels == [key |-> key, node |-> vmi.node,
                       migration |-> getMigrationNameFromUID(m.uid, migrations)]
        IN  Maybe(m.start, LAMBDA t : <<Sample("kubevirt_vmi_migration_start_time_seconds", labels, t)>>)
            \o Maybe(m.end, LAMBDA t :
                   <<Sample("kubevirt_vmi_migration_end_time_seconds",
                            [key |-> key, node |-> vmi.node, migration |-> labels.migration,
                             status |-> CalculateMigrationStatus(m)], t)>>)
    IN  Maybe(vmi.migration, times)

CollectVMIsVnicInfo(key, vmi) == VnicInfo("kubevirt_vmi_vnic_info", key, vmi.interfaces, vmi.networks)

collectVMILauncherMemoryOverhead(key, vmi) ==
    <<Sample("kubevirt_vmi_launcher_memory_overhead_bytes", [key |-> key],
             IF vmi.overhead = {} THEN 0 ELSE Value(vmi.overhead))>>

-----------------------------------------------------------------------------
(* Migrations: finished ones are reported one by one, the others counted   *)
(* by phase.                                                               *)
CountedPhases ==
    [pending    |-> {"Pending"},
     scheduling |-> {"Scheduling"},
     unset      |-> {""},
     running    |-> {"Running", "Scheduled", "PreparingTarget", "TargetReady"}]
CountName == [pending    |-> "kubevirt_vmi_migrations_in_pending_phase",
              scheduling |-> "kubevirt_vmi_migrations_in_scheduling_phase",
              unset      |-> "kubevirt_vmi_migrations_in_unset_phase",
              running    |-> "kubevirt_vmi_migrations_in_running_phase"]

InPhase(migrations, phases) ==
    {k \in DOMAIN migrations : \E m \in migrations[k] : m.phase \in phases}

(* Fault: a migration is running until it has succeeded or failed. *)
CountUnfinished(migrations, c) ==
    Cardinality(IF c = "running"
                  THEN {k \in DOMAIN migrations : migrations[k] # {}}
                          \ InPhase(migrations, {"Succeeded", "Failed"})
                  ELSE InPhase(migrations, CountedPhases[c]))

CountOf(migrations, c) == Cardinality(InPhase(migrations, CountedPhases[c]))

ReportMigrationStats(migrations) ==
    LET report(metric, phase) ==
            ForAll(SetToSeq(InPhase(migrations, {phase})),
                   LAMBDA k : <<Sample(metric, [key |-> k, vmi |-> Value(migrations[k]).vmi], 1)>>)
        count(c) == <<Sample(CountName[c], [key |-> <<"", "">>], CountOf(migrations, c))>>
    IN  report("kubevirt_vmi_migration_succeeded", "Succeeded")
        \o report("kubevirt_vmi_migration_failed", "Failed")
        \o ForAll(<<"pending", "scheduling", "unset", "running">>, count)
=============================================================================
