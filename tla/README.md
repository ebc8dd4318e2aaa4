# TLA+ models of the KubeVirt observability controller

The controller runs beside KubeVirt and does three things: it keeps the objects
Prometheus needs to scrape it (a Service, a token Secret, a ServiceMonitor), it
publishes one PrometheusRule with KubeVirt's alerts and recording rules, and it
exports metrics about VMs, VMIs and migrations, part of which it polls from the
virt-handler of every node. This directory holds TLA+ models of these parts and
of what a Prometheus makes of their output, TLC configurations that check them
on small instances, and TLAPS proofs of the main properties for every value of
the constants.

Run a check with `tlc -config VMStatsPoller.cfg MCVMStatsPoller`, a proof with
`tlapm VMStatsPollerProofs.tla`. PROJECT.json lists the runs, the mutants that
show each property can fail, the source lines behind every definition, the
hazards, the findings and the theorems.

## Inventory

| Component | Source | State | Operations | Talks to |
|---|---|---|---|---|
| VMStats poller | `vmstats/poller.go`, `client.go` | ticker, semaphore, wait group, set of active keys | `Start`, `pollOnce`, `FetchNodeVMStats` | VMI and Pod stores (reads), StatsCache (writes), virt-handlers over HTTPS |
| Statistics cache | `vmstats/cache.go` | map from namespace/name to VMI object and statistics | `Store`, `List`, `Prune`, `Remove` (tests only) | poller, VMStats collector |
| Metrics resources reconciler | `controller/metricsresources_controller.go` | none of its own; the three objects in the API server | `Reconcile` | informer cache (reads), API server (writes), watches |
| PrometheusRule reconciler | `controller/prometheusrule_controller.go` | the process-wide rules registry | `Reconcile` | rules registry, informer cache, API server, watches |
| Rules registry | `rules/rules.go`, `rules/alerts/alerts.go`, `rules/recordingrules/recordingrules.go` | registered alerts and recording rules | `SetupRules`, `HasRegisteredRules`, `BuildPrometheusRule` | PrometheusRule reconciler |
| Metrics stores | `metrics/metrics.go`, `informers.go`, `stores.go` | two atomic pointers, `storesRef` and `indexersRef` | `SetupMetrics`, `SetupInformers`, `SetStores` | collectors, poller start-up |
| Collectors | `metrics/*_collector.go`, `vmstats/collector.go`, `vmstats/metrics_*.go` | none; pure functions of the stores | collect callbacks | metrics endpoint |
| Alerts and recording rules | `rules/alerts/*.go`, `rules/recordingrules/*.go` | none of their own; Prometheus keeps what they record and which alerts fire | evaluation of the two groups | samples of the collectors, of KubeVirt and of kube-state-metrics |
| Process start-up | `cmd/main.go` | flags, the manager's runnables | `main`, `setupVMStats` | everything above |
| TLS profiles | `tlsutil/tlsutil.go` | none; pure | `TLSSecurityProfileToTLSConfig` | metrics endpoint |

What is hard here: goroutines per node that share a cache while informers change
the objects underneath; a semaphore and a wait group that must balance on every
path; reconcilers that read a cache which lags behind the API server they write
to, with other writers, lost answers, restarts and changing flags; reconcilers
that run on events only; a global registry that is filled in steps and never
emptied; pointers published while scrapes already read them; a leader that has
lost its lease and whose last write still arrives; and queries that read series
which vanish, are renamed by the scrape, or are recorded later in the same
evaluation. The list
"hazards" in PROJECT.json gives each of these with its line and the properties
aimed at it.

What makes each component correct:

- *Poller and cache.* Statistics carry the label of the node that produced them;
  an answer never lands in a later poll; requests in flight stay within the
  bound; polls end, whatever virt-handlers do; only VMIs without a node lose
  their entry, and they do lose it; a VMI created again under its name never
  gets back the statistics of the one before.
- *Reconcilers.* No drift is forgotten, no write destroys what another writer
  did to fields the controller does not manage, and the objects converge.
- *PrometheusRule and registry.* What is published is what the flags of the
  running process ask for, never half of it.
- *Start-up and stores.* A scrape never reports from an informer that has not
  listed its kind; a missing kind ends the process; exactly the allowed metrics
  are registered; a TLS profile is never silently replaced by defaults.
- *Collectors.* One scrape holds no sample twice (the registry would refuse all
  of it), its samples agree with one another, all statistics of a VMI carry the
  same labels, and scrapes of the same stores are the same.
- *Alerts and recording rules.* An alert fires exactly when the cluster is in the
  state its expression is about, also when all series of a component are gone.

## Modules

| Module | Models | Composition |
|---|---|---|
| `StatsCache` | what the statistics cache promises its reader: an abstract specification | implemented by `VMStatsPoller` (`CacheAsListed`) |
| `VMStatsPoller` | poller, client, cache | `MCVMStatsPoller`, `VMStatsPollerProofs` |
| `ControllerRuntime` | API server, informer cache, watches, queue, restarts: external, from how the reconcilers use them | extended by both reconcilers; lemmas in `ControllerRuntimeProofs` |
| `DesiredState` | what a reconciler promises the users of the API server: an abstract specification | implemented by both reconcilers (`OnlyRepairs`) |
| `MetricsResources` | the Service, Secret and ServiceMonitor reconciler | `MCMetricsResources`, `MetricsResourcesProofs` |
| `PrometheusRule` | rules registry and its reconciler | `MCPrometheusRule`, `PrometheusRuleProofs` |
| `Startup` | `main`, the manager's runnables, stores and scrapes during start-up, TLS flags | `MCStartup`, `StartupProofs` |
| `VMCollector`, `VMICollector`, `VMStatsReports` | what the collectors report of an object or of a cached entry: pure operators | used by `Scrape` and `Alerting`; lemmas in `CollectorProofs` |
| `Scrape` | scrapes while informers update the stores | `MCScrape`, `ScrapeProofs` |
| `PromQL` | the operators of the query language the rules use: external | extended by `RecordingRules` |
| `RecordingRules`, `Alerts` | each rule as a query over the series there are | extended by `Alerting` |
| `Alerting` | a Prometheus that scrapes the cluster and the collectors and evaluates the rules | `MCAlerting`, `AlertingProofs` |

**VMStatsPoller.** `pc` is the goroutine of `Poller.Start`; `PollStart`,
`SkipNode`, `PrepareNode`, `LaunchNode` and `WaitAndPrune` are the statements of
`pollOnce` between which other goroutines can run; `LaunchNode` is the send on
the semaphore channel, so a goroutine exists only from there on. `FetchReturns`
and `FetchFails` are one HTTP exchange with any outcome: an error, or an answer
with any subset of VMIs, also VMIs of other nodes, each with statistics, an
error or neither. `Store` writes one entry, so that entries of several
goroutines interleave. `VMIEvent` and `PodEvent` change the stores at any time.
A VMI is reduced to the node of its `Status.NodeName` and a number for its UID,
which grows (up to `MaxUID`) when it is deleted and created again; statistics
are reduced to the node that produced them. An answer whose JSON holds `null`
for a VMI is assumed not to occur.

`StatsCache` has none of this: the VMIs are listed, statistics of a listed VMI
arrive from its node, and those listed without a node are dropped. With the
poll's listing (`snap`) and the cache as they are, every step of the poller is
one of these or changes neither.

**ControllerRuntime.** `seen` is the informer cache that `r.Get` reads,
`backlog` the revisions it has not received, `notify` and `queued` the events on
their way to the one request of the controller. Content is the set of ways in
which an object differs from the desired one (`MetricsResources`), or the rules
and fields it has (`PrometheusRule`). A write is accepted only when what it was
based on is the latest revision (`holding`); it may be applied although the
caller gets an error. Other writers, outages and restarts happen until `calm`.
`late` is a call that was under way when its process lost its lease or died: it
may still arrive after the next process has read and written (`Land`), an Update
only while its object has no newer revision.

`DesiredState` knows only contents and goals: somebody else writes an object, a
reconciler turns an object that is not what its goal asks for into one that is
and keeps what is not its own, or another process with another goal takes over;
the goal before may be acted upon once more (`former`).

**MetricsResources.** `Reconcile` walks through the three objects; each `Get`,
`Create` and `Update` is a step. `Compared` and `Written` are the fields the
code compares and the fields it assigns. An error returns at once.

**PrometheusRule.** `SetupRules` fills the process-wide registry: recording
rules, then alerts, which panic on a bad runbook template (controller-runtime
recovers the panic and retries). The registry survives a failed reconcile and is
emptied by a restart only. Without a registered rule the object is deleted,
without a precondition on its revision.

**Startup.** `main` is how far `main()` has come; `mgr` how far the manager has;
`SetupInformers`, the runnable of `setupVMStats` and scrapes are goroutines. A
configuration is the flags the process was started with; list flags are the set
of known and unknown names in them. `denied` holds the kinds the service account
may not list; an informer of such a kind does not sync until `Grant`.

**VMCollector, VMICollector, VMStatsReports, Scrape.** Every collect function is an operator
from an object and the stores it reads to a sequence of samples. `Scrape` runs
the collectors side by side; each lists once and then makes its calls object by
object, so that any store may change between two lookups. Choices that depend
on the iteration order of a Go map (which pod of several, which of two label
keys that become equal) are nondeterministic. The four stores of instance types
and preferences are one (`types`), keyed by namespace and name with the empty
namespace for cluster-wide ones. Labels that are copied from annotations are
left out, except that `Sanitize` stands for the renaming of label keys. The
VMStats collector is one step, since it copies the cache under its lock; a
structure of statistics is a function on the fields that are set. A pod keeps the
UID it was created for, and VMIs of different names never share one
(`ObjectsAssumption`).

**PromQL, RecordingRules, Alerts, Alerting.** A vector is a set of elements with
labels and a value. Counters appear with their growth, ratios as whole percents;
growth is steady, so that the rates over 5 and 30 minutes are one.

There are two namespaces. `Namespace` is the controller's own (`POD_NAMESPACE`,
`main.go:307`), which its rules select (`prometheusrule_controller.go:55`);
`KubeVirtNamespace` is the one KubeVirt's components run in, with the deployments
kube-state-metrics tells of and the endpoints Prometheus scrapes. `docs/deployment.md`
installs the two apart (line 34 against line 80). `Beside` says that they are one,
as the rules expect. `Scraped` gives the controller's samples the labels of the scrape target, as the
ServiceMonitor without `honorLabels` does; series of VMs, VMIs and statistics are
computed with the collectors' own operators. The group of recording rules is
evaluated in the order the registry gives it, each rule over what those before it
recorded this time and those after it the last time. `for` clauses are two
evaluations in a row. `calm` counts evaluations since the last change of the
cluster, twice each group; the properties are about the alerts after that.

## Runs

| Run | Question | Instance and why it is enough |
|---|---|---|
| `poller_safety` | attribution of statistics, refinement of `StatsCache`, order of incarnations, no leak | 2 VMIs, one of which may be created again, 2 nodes, 3 pods, 2 slots: two goroutines store while VMIs migrate between their nodes, and one pod is no virt-handler |
| `poller_liveness` | no deadlock; polls end, stop, prune; fairness between nodes | 2 pods, 1 slot: the loop blocks on the semaphore while a goroutine runs |
| `poller_stale` | finding 1 | as `poller_liveness`, with the pod that is no virt-handler |
| `resources` | no forgotten drift, refinement of `DesiredState`, convergence | all three objects; others write an object while it has no unseen revision (`MaxLag` 1), the controller and its predecessor also after that: a stale read, and one behind a stale read. The first object is edited and deleted, the second edited in compared and other fields |
| `resources_startup` | finding 2 | no object exists at first |
| `rules` | published rules are the configured ones, refinement of `DesiredState`, convergence | 2 alerts, 1 recording rule, 4 configurations: everything, a part, nothing, bad template; `MaxLag` 2 |
| `startup` | stores, scrapes, allowlists, TLS flags, readiness | all 10 informers, every combination of TLS flags (with each version from 1.0 to 1.3, none, and one that is no version), 72 combinations of allowlist, vmstats and environment, a kind that may not be listed |
| `scrape` | uniqueness, consistency and repeatability of samples | 5 versions of a VM (one with a guest memory of zero, one with a request only, one whose CPUs overflow), 3 of its VMI (before and after a migration, recreated), 2 pods, 2 migrations, cached statistics, at most 2 changes (`MaxChanges`) at any points of any number of scrapes; CPU topologies have 3 bits (`Width`), so that their product wraps around |
| `alerting` | alerts are exact, deprecated names agree | the controller beside KubeVirt; 2 nodes and an arbiter, 6 component pods, 2 VMs of 2 namespaces, from a cluster at rest and from one that is being drained, at most 2 changes between any evaluations: a component loses all its pods, a VM gets stuck with and without an instance |
| `alerting_namespaces`, `alerting_queue` | findings 4 and 5 | as `alerting` |
| `alerting_apart` | finding 3 | as `alerting`, with the controller in the namespace of its own that the deployment guide gives it |

`CHECK_DEADLOCK FALSE` is used where the system may stop: a controller with
nothing to do after the world has become calm, and a process that has exited.

**Fairness.** Goroutines that can run do run, a ready channel operation is
eventually chosen, an HTTP request ends (the client has a timeout of 30 s), API
calls end, watches deliver and informers resync. `Stop` of the poller is
strongly fair: `select` picks at random among ready cases, so a cancelled
context cannot lose against the ticker for ever. Nothing is assumed of other
writers, of pods and VMIs, or of leadership. Liveness of the reconcilers is
claimed only after `calm`. Readiness after start-up is claimed only once every
kind may be listed: the code has no timeout of its own there. `Alerting` states
no fairness: its properties are about what the last evaluations gave.

## Findings

1. `poller_stale`: when no VMI is scheduled `pollOnce` returns before its prune
   (`poller.go:82`), so the statistics of the last VMIs stay exported until some
   VMI is scheduled again.
2. `resources_startup`: `docs/deployment.md` says the resources are created on
   startup; without a KubeVirt CR and without any of the resources no event calls
   `Reconcile`. The PrometheusRule reconciler has the same trigger.
3. `alerting_apart`: installed as `docs/deployment.md:34` says, in a namespace of
   its own, the controller publishes rules that select this namespace and not
   KubeVirt's (`docs/deployment.md:80`). They find no pod of a component:
   `VirtAPIDown` ("All virt-api servers are down.", `virt-api.go:36`) fires while
   all of them answer. The theorem `ApartFromKubeVirt` says what becomes of the
   others: those for components that are missing or not ready fire, those for low
   counts, REST errors, a missing leader and the rollout of virt-handlers never do.
4. `alerting_namespaces`: `docs/metrics.md` says `namespace:kubevirt_vm:sum` is
   the number of VMs by namespace. The ServiceMonitor does not set `honorLabels`,
   so that the label `namespace` of every scraped sample is the controller's, and
   all VMs are counted there.
5. `alerting_queue`: `vmi:kubevirt_vmi_guest_queue_length:sum` subtracts vectors
   with different labels and no `on()` (`vmi.go:65`). It never has a value, and
   the two alerts on it never fire.

Seen while modelling, without a run:

- `docs/deployment.md:94` says modified resources are restored; fields that are
  not compared (the type of the Service, the annotations of the Service and the
  ServiceMonitor) stay as they are. Of the Secret's
  annotations one is compared (`metricsresources_controller.go:115`), but a repair
  replaces them all, those of others included (line 118). `OnlyRepairs` takes what
  the code writes as what it manages and does not judge this.
- The two alerts on guest memory join the name of a VMI with the name of its
  pod (`vms.go:186-188`, `263-265`): names and pods differ, nothing matches.
- `NoLeadingVirtOperator` reads a sum without `or vector(0)` (`virt.go:116`):
  without any virt-operator pod it is silent, and `VirtOperatorDown` is the one
  that fires. `ComponentAlertsExact` states this.
- The two alerts on stuck VMs and `VMCannotBeEvicted` join series of VMs and VMIs
  `on(name, namespace)` (`vms.go:70`, `146`, `165-166`), where `namespace` is the
  controller's (finding 4). With VMs or VMIs of one name in two namespaces such a
  join is ambiguous, or takes one for the other. `OrphanedVirtualMachineInstances`
  joins pods by their name alone (`vms.go:53`), and a join that fails there is
  followed by an `or`, where an evaluation would fail as a whole and the model goes
  on. The properties about these alerts ask for `UniqueNames`, under which no such
  join is ambiguous.
- Some summaries say something else than their expressions, which are what the
  properties follow. "more than 12 times" (`vms.go:90-94`) and "More than 80%"
  (`alerts.go:116`) are `>=`. `LowVirtControllersCount` speaks of ready pods
  (`virt-controller.go:79`), `LowVirtAPICount` and `LowVirtOperatorCount` of running
  ones (`virt-api.go:52`, `virt-operator.go:54`): all three count the pods that
  answer a scrape.
- `--tls-groups` without a profile is accepted and ignored: the check at
  `main.go:164` leaves the groups out, although the help text (`main.go:118-120`)
  says they are only valid with `Custom`.
- A running VMI that has not yet said whether it can migrate counts as not
  evictable: `VMCannotBeEvicted` fires for it.
- The allowlists of alerts and of recording rules are independent: an alert may
  be published without the rule it reads, and then never fires.
- `kubevirt_vmi_contains_ephemeral_hotplug_volume` is registered and documented
  but no collector emits it (`vmistats_collector.go:42,119` against `148-162`).
- Migrations in the phases `WaitingForSync` and `Synchronizing` appear in no
  migration metric, and `EveryMigrationSeenOnce` leaves them out.

## Proofs

All theorems hold for every value of the constants that satisfies the named
`ASSUME`s, which TLC evaluates in the runs.

*VMStatsPollerProofs.* `IInv` is `TypeOK` with: `Counted` (slots taken = running
goroutines, wait group = running and waiting ones), `JobsOK` (a goroutine's job
is what the poll listed for its node, and the pod it asks is bound to that node),
`PendingOK` (what it will store was listed on its node), `QuietWhenIdle`,
`Progress` (what the loop has marked active is what it has visited), `CacheOK`
(the invariants about the cache) and `Ordered` (the UID of a cached entry is at
most the listed one, and that at most the informer's). `SourceMatchesLabel` is not inductive by itself: it
needs `JobsOK` and `PendingOK` for the entries still to be stored, and these need
`QuietWhenIdle` to hold across the start of a poll. The step from counts to
"nobody waits for good" uses cardinality facts from FiniteSetTheorems.
`ImplementsStatsCache` maps each action to `List`, `Refresh`, `Expire` or a
stutter: `Store` is `Refresh` by `JobsOK` and `PendingOK`, and `WaitAndPrune` is
`Expire` only because `Progress` says exactly what has been marked.
`IncarnationsInOrder` follows from `Ordered` and `JobsOK`.

*ControllerRuntimeProofs, MetricsResourcesProofs, PrometheusRuleProofs.* The
central invariant is `Vigilant`: whenever an object that has been looked at, or
will not be looked at again by the running `Reconcile`, is not as it should be,
some alarm is still on (an unseen revision, an event not dispatched, a queued
request). With `Drained` no alarm is left, which gives `SettledMeansInSync` and
`SettledMeansConfigured`. `CopyOK` ties the copy about to be written to the
latest revision as long as the API server would accept it; for the rules
`RegistryOK` says what a failed registration may have left behind, and `LateSound`
says of the call of the process before what `CopyOK` says of the next one. These
give `ImplementsDesiredState`: an accepted write is a `Repair`, edits by others
are `Disturb`, a restart is `TakeOver`, all else is a stutter.
`ControllerRuntimeProofs` proves once what every step of the world guarantees to
either reconciler, also that a late call stays sound (`LateKept`).

*StartupProofs.* `IInv` is `TypeOK` with `QuietBoot` (nothing the manager starts
runs before it), `WaitedFor` (every informer `SetupInformers` has gone past has
synced), `RefsOK` (the two pointers say how far `SetStores` has come), `ListedOK`
(a collector that has listed finds the same stores afterwards), `RegisteredOK`
(what is registered after each step of `main`) and `ProfileOK` (a Custom profile
that survived `CheckFlags` is the one in use). `ScrapesReadSynced` needs the chain
pointer, progress of `SetupInformers`, synced informers: neither link is inductive
alone. `StartupAssumption` says which flags exist and that no metric of the
VMStats collector is another collector's.

*CollectorProofs, ScrapeProofs.* `CollectorProofs` says of each collect function,
for any object, which metrics it reports, with which key, and that no two of its
samples have the same metric and labels. Functions over lists are folds and
flattened sequences; inductions over their length take the least counterexample,
since the library's induction theorems cannot be instantiated here. The invariant
of a scrape is `TypeOK`, `CollectorsOK` (the calls a collector still has to make
are different ones, about objects it listed), `Origins` (each sample comes from a
call that is no longer to be made), `NoDuplicateSamples` and `BasesAgree`.
`NoDuplicateSamples` is not inductive without `Origins`: only it says that the call
made next has not reported yet. A second layer, `VMsTold`, says that what a scrape
has told of a VM is what one version of the VM, the listed one, gives; the
agreement of the samples (`OneStatusTimestamp`, `EffectiveSizesAgree`) follows for
that version by arithmetic, for the CPUs modulo `2^Width` with every product that
wraps around. `EffectiveSizesAgree` is an action property: the agreement is claimed
when a scrape ends, of each VM listed, whatever has become of the VM since.
`VMISeriesAgree` follows from what is kept of the listed VMIs (their keys, nodes
and UIDs), since a later lookup by name may give the pod of another VMI only if its
UID is the same. A third one, `Steady`, is for `ScrapesRepeatable`: while
no label keys collide, what the running scrape has gathered is what the calls made
so far find in the stores as they are (`SoFar`), and what the scrape before gathered
is what all calls find (`Full`), as long as neither has seen a change. The maps a
call reads leave one outcome only: the winning label is the only one of its name
(`OneLabelling`), and a VMI has one running pod on its node (`OnePod`).
`ScrapeAssumption` bounds nothing but asks for finitely
many keys; `ObjectsAssumption` and `StatisticsAssumption` are what KubeVirt's API
admits: names of volumes and interfaces are unique in their list, CPU counts are
unsigned numbers of `Width` bits, conditions have a time, and no pod was created
for VMIs of two names. Writing the first property down exactly took two attempts: a
guest memory of zero is set, so that it hides a request, and is yet not reported,
neither as the guest's nor as the effective one (`vmstats_collector.go:356`). The
instance has such a VM.

*AlertingProofs.* A database is what was scraped, extended by what was recorded.
The group of recording rules is a fold, which the first part takes apart into its
stages. The rules fall into three kinds: those over scraped metrics only, whose
value no earlier rule can change; deprecated names, which read their replacement;
and two that read another rule. `Final` is the value each has once it follows the
cluster. The inductive invariant has `ClusterInv` (the shape of the cluster),
`ShapeInv` (recorded are finite vectors of integers; no guest queue is ever
recorded) and `SettledInv`, which says how far the evaluations since the last
change have come: after one the rules of the first kind have their final values,
after two all rules have, after a third step the active alerts are those whose
expressions hold, after the fourth these fire. That two evaluations are enough
although `kubevirt_vmi_guest_vcpu_queue` comes two rules behind the metric it needs
is only so because its replacement never has a value (finding 5). `AliasesAgree` is
a consequence. That the alerts are exact then follows from what each expression
selects, in the controller's namespace: the theorems hold whether or not KubeVirt is
there too. `ApartFromKubeVirt` spells out the case that it is not. `Sources` lists, metric by metric, which objects of the cluster the samples
of a scrape come from (`PodSamples`, `ComponentSamples`, `NodeSamples`,
`InstanceSamples` and their like). Most vectors have one element per pod, node, VM
or VMI (`VectorOf`); a sum over one is a cardinality or a total over these objects
(`TotalOnes`), the ratio of failed requests compares with its threshold as the sums
do (`QuotientBelow`), and a join of two such vectors is the one over the objects
both have (`JoinsAre`). With the final value of each recorded rule, which
`SettledInv` gives, every alert comes down to the formula the property states, also
where a component has no pod left and its series are gone.

Assumed are `AlertingAssumption`, that objects are well formed (a pod has a
namespace and a name, and is only ready while it runs; of a hundred requests at
most a hundred fail; a VM and a VMI have a name and a status or phase; statistics
are as `StatsOK` says) and that the statuses the rules name stay apart in lower
case; and `PodsAssumption`, that no virt-handler or virt-launcher pod has an empty
name.

Where the instances are narrower than the theorems: `MaxLag` is 1 in `resources`,
which loses the event of one edit or deletion; an object created and deleted within
one gap of a watch is covered by `NoForgottenDrift` only.

Only model-checked: the liveness properties, `PollTerminates`, `CancelStops`,
`StaleEventuallyPruned`, `EveryNodeIsAsked`, `Converges` of both reconcilers,
`FailureExits` and `BecomesReady` (TLAPS reasons about neither fairness nor
ENABLED). Every other property of a passing run is the subject of a theorem.

## Not modelled

- Alerts on counts of a day or on one metric of KubeVirt itself (failed
  launchers, excessive migrations, outdated workloads, guest filesystems,
  hotplugged volumes, deprecated APIs), and recording rules over container
  memory, snapshots and deprecated APIs: thresholds on single series, with
  nothing that interacts.
- Certificate watchers, logging, health endpoints and flag parsing: plain I/O.
- The predefined TLS profiles: data of the OpenShift library.
- The decoding of what virt-handlers and guest agents answer in JSON.
- Values that the API server normalises in the objects the controller writes.
- Which incarnation of a VMI a virt-handler answered for: answers carry names, the
  poller knows the UID of the VMI it listed, and that is the one
  `NoEarlierIncarnation` compares.
- `StatsCache.Remove` and `ResetRegistry`: called by tests only.
- End-to-end test helpers, manifests, vendored code.

## Plan

Done, in this order: the poller with its proofs; the world of the reconcilers;
both reconcilers with their proofs; start-up; collectors and scrapes; the VMStats
collector; UIDs in the poller; late writes of an old leader; the abstract
specifications `StatsCache` and `DesiredState` with proofs that they are
implemented; rules and alerts; proofs about start-up and about scrapes, that they
are repeatable included; proofs about the evaluation of rules and that the alerts
are exact.

Next: the alerts and recording rules left out (see "Not modelled"), where one comes
to read what another rule records; and what the alerts on VMs give when names are
not unique, should the ServiceMonitor come to keep the labels of its samples.
