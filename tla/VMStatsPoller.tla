---------------------------- MODULE VMStatsPoller ----------------------------
(***************************************************************************)
(* The vmstats poller (pkg/monitoring/metrics/vmstats): every tick it      *)
(* lists the VMIs, asks the virt-handler of every node that runs some for  *)
(* their statistics, with at most MaxConcurrent requests in flight, stores *)
(* what comes back in the StatsCache the Prometheus collector reads, and   *)
(* prunes the entries of VMIs that are no longer scheduled.                *)
(*                                                                         *)
(* Actors: the poll loop (Poller.Start), one goroutine per polled node,    *)
(* the informers that change the VMI and Pod stores at any time, the       *)
(* ticker, and the manager that cancels the context.                       *)
(***************************************************************************)
EXTENDS Naturals, FiniteSets

CONSTANTS
    Keys,           \* namespace/name of the VMIs
    Nodes,          \* node names
    Pods,           \* pods the Pod informer may hold
    PodNode,        \* PodNode[p]: the node pod p is bound to
    PodIsHandler,   \* PodIsHandler[p]: p carries the label kubevirt.io=virt-handler
    NoNode,         \* no such VMI, or a VMI with an empty Status.NodeName
    MaxUID,         \* bound: MaxUID[k] is the last incarnation of the VMI named k
    MaxConcurrent   \* PollerConfig.MaxConcurrent

ASSUME PollerAssumption ==
    /\ IsFiniteSet(Nodes)
    /\ NoNode \notin Nodes
    /\ PodNode \in [Pods -> Nodes]
    /\ PodIsHandler \in [Pods -> BOOLEAN]
    /\ MaxConcurrent \in Nat \ {0}
    /\ MaxUID \in [Keys -> Nat]

VARIABLES
    vmiStore,   \* VMI informer store: the VMI of each name
    podReady,   \* Pod informer store: the pods that are Running and have an IP
    ticks,      \* ticks waiting in the ticker's channel (capacity 1)
    cancelled,  \* the manager has cancelled the context
    pc,         \* the poll loop: in its select, inside pollOnce, or returned
    snap,       \* the VMIs as the current or last poll listed them
    todo,       \* nodes the loop of pollOnce has not visited yet
    activeKeys, \* keys the Prune of this poll keeps
    sem,        \* slots taken in the semaphore channel
    wg,         \* the WaitGroup's counter
    worker,     \* state of the goroutine polling each node
    job,        \* what that goroutine was started with
    pending,    \* answered keys that goroutine still has to store
    cache       \* StatsCache.items

loopVars   == <<ticks, cancelled, pc, snap, todo, activeKeys>>
workerVars == <<sem, wg, worker, job, pending>>
storeVars  == <<vmiStore, podReady>>
vars       == <<storeVars, loopVars, workerVars, cache>>

(* A VMI object: its node and its incarnation. A VMI that is deleted and   *)
(* created again under its name has a new UID.                             *)
VMI   == [node : Nodes \cup {NoNode}, uid : Nat]
NoVMI == [node |-> NoNode, uid |-> 0]

(* A cached item: the VMI object it was stored with, whose node becomes    *)
(* the node label of every sample, and the node whose virt-handler         *)
(* produced the statistics.                                                *)
CachedStats == [vmi : VMI, src : Nodes]
NoEntry     == [vmi |-> NoVMI, src |-> NoNode]
CachedKeys  == {k \in Keys : cache[k] # NoEntry}

(* What a goroutine captures: the pod it asks, the keys of its vmiLookup   *)
(* map, and the VMI objects those keys map to.                             *)
Job   == [pod : Pods, keys : SUBSET Keys, vmis : [Keys -> VMI]]
NoJob == [pod |-> NoNode, keys |-> {}, vmis |-> [k \in Keys |-> NoVMI]]

(* What virt-handler says of one VMI in its bulk answer (client.go).       *)
ResultKinds == {"missing", "error", "nostats", "stats"}

-----------------------------------------------------------------------------
(* The VMIs of a listing that have a node, and the nodes that have one.    *)
ScheduledKeys(listing)   == {k \in Keys : listing[k].node \in Nodes}
groupVMIsByNode(listing) == {listing[k].node : k \in ScheduledKeys(listing)}

(* Fault: one lookup map shared by the goroutines of all nodes. *)
SharedLookup(n) == ScheduledKeys(snap)

vmiLookup(n) == {k \in Keys : snap[k].node = n}

(* Fault: any ready virt-handler, whatever its node. *)
AnyVirtHandler(n) == {p \in podReady : PodIsHandler[p]}

(* Every pod of this set is one findVirtHandlerPodIP may return: the store *)
(* is a map, so the first match of its listing is any of them.             *)
findVirtHandlerPodIP(n) ==
    {p \in podReady : PodIsHandler[p] /\ PodNode[p] = n}

(* The keys of an answer that survive the continues of the store loop.     *)
Storable(n, results) == {k \in job[n].keys : results[k] = "stats"}

(* The loop waits for a slot of the semaphore on behalf of one node.       *)
Waiting == {n \in Nodes : worker[n] = "waiting"}
Running == {n \in Nodes : worker[n] \in {"fetch", "store"}}

-----------------------------------------------------------------------------
Init ==
    /\ vmiStore \in [Keys -> [node : Nodes \cup {NoNode}, uid : {0}]]
    /\ podReady \in SUBSET Pods
    /\ ticks = 0
    /\ cancelled = FALSE
    /\ pc = "select"
    /\ snap = [k \in Keys |-> NoVMI]
    /\ todo = {}
    /\ activeKeys = {}
    /\ sem = 0
    /\ wg = 0
    /\ worker = [n \in Nodes |-> "none"]
    /\ job = [n \in Nodes |-> NoJob]
    /\ pending = [n \in Nodes |-> {}]
    /\ cache = [k \in Keys |-> NoEntry]

(* The informers: a VMI is created, scheduled, migrated or deleted, or one *)
(* that was deleted and created again replaces the one in the store; a pod *)
(* becomes ready or stops being so.                                        *)
VMIEvent(k, v) ==
    /\ vmiStore[k] # v
    /\ v.uid <= MaxUID[k]
    /\ vmiStore' = [vmiStore EXCEPT ![k] = v]
    /\ UNCHANGED <<podReady, loopVars, workerVars, cache>>

PodEvent(p) ==
    /\ podReady' = IF p \in podReady THEN podReady \ {p} ELSE podReady \cup {p}
    /\ UNCHANGED <<vmiStore, loopVars, workerVars, cache>>

(* time.Ticker: a tick is dropped while one is waiting in the channel.     *)
Tick ==
    /\ pc # "stopped"
    /\ ticks = 0
    /\ ticks' = 1
    /\ UNCHANGED <<storeVars, cancelled, pc, snap, todo, activeKeys,
                   workerVars, cache>>

Cancel ==
    /\ ~cancelled
    /\ cancelled' = TRUE
    /\ UNCHANGED <<storeVars, ticks, pc, snap, todo, activeKeys,
                   workerVars, cache>>

(* Fault: a waiting tick takes precedence over ctx.Done(). *)
StopWhenNoTick ==
    /\ pc = "select"
    /\ cancelled
    /\ ticks = 0
    /\ pc' = "stopped"
    /\ UNCHANGED <<storeVars, ticks, cancelled, snap, todo, activeKeys,
                   workerVars, cache>>

(* Start: the select takes ctx.Done() or a tick; both may be ready.        *)
Stop ==
    /\ pc = "select"
    /\ cancelled
    /\ pc' = "stopped"
    /\ UNCHANGED <<storeVars, ticks, cancelled, snap, todo, activeKeys,
                   workerVars, cache>>

(* pollOnce up to its loop. Without a scheduled VMI it returns at once.    *)
PollStart ==
    /\ pc = "select"
    /\ ticks = 1
    /\ ticks' = 0
    /\ snap' = vmiStore
    /\ todo' = groupVMIsByNode(vmiStore)
    /\ IF groupVMIsByNode(vmiStore) = {}
         THEN UNCHANGED <<pc, activeKeys>>
         ELSE pc' = "polling" /\ activeKeys' = {}
    /\ UNCHANGED <<storeVars, cancelled, workerVars, cache>>

(* Fault: VMIs are marked active only once a virt-handler was found. *)
VisitNodeMarkLate(n) ==
    /\ pc = "polling"
    /\ n \in todo
    /\ Waiting = {}
    /\ todo' = todo \ {n}
    /\ activeKeys' = activeKeys \cup
                        (IF findVirtHandlerPodIP(n) = {} THEN {} ELSE vmiLookup(n))

(* One iteration of the loop over the nodes, up to the semaphore: the VMIs *)
(* of the node are marked active first, whether or not a virt-handler is   *)
(* found.                                                                  *)
VisitNode(n) ==
    /\ pc = "polling"
    /\ n \in todo
    /\ Waiting = {}
    /\ todo' = todo \ {n}
    /\ activeKeys' = activeKeys \cup vmiLookup(n)

(* Fault: break instead of continue when a node has no virt-handler. *)
SkipNodeBreak(n) ==
    /\ pc = "polling"
    /\ n \in todo
    /\ Waiting = {}
    /\ findVirtHandlerPodIP(n) = {}
    /\ todo' = {}
    /\ activeKeys' = activeKeys \cup vmiLookup(n)
    /\ UNCHANGED <<storeVars, ticks, cancelled, pc, snap, workerVars, cache>>

SkipNode(n) ==
    /\ VisitNode(n)
    /\ findVirtHandlerPodIP(n) = {}
    /\ UNCHANGED <<storeVars, ticks, cancelled, pc, snap, workerVars, cache>>

PrepareNode(n) ==
    /\ VisitNode(n)
    /\ wg' = wg + 1
    /\ worker' = [worker EXCEPT ![n] = "waiting"]
    /\ \E p \in findVirtHandlerPodIP(n) :
          job' = [job EXCEPT ![n] = [pod |-> p, keys |-> vmiLookup(n), vmis |-> snap]]
    /\ UNCHANGED <<storeVars, ticks, cancelled, pc, snap, sem, pending, cache>>

(* Fault: a semaphore that does not block. *)
LaunchNodeUnbounded(n) ==
    /\ worker[n] = "waiting"
    /\ sem' = sem + 1
    /\ worker' = [worker EXCEPT ![n] = "fetch"]
    /\ UNCHANGED <<storeVars, loopVars, wg, job, pending, cache>>

(* The rest of the iteration: the blocking send on sem and the go. The pod *)
(* was looked up before the wait and may have changed since.               *)
LaunchNode(n) ==
    /\ worker[n] = "waiting"
    /\ sem < MaxConcurrent
    /\ sem' = sem + 1
    /\ worker' = [worker EXCEPT ![n] = "fetch"]
    /\ UNCHANGED <<storeVars, loopVars, wg, job, pending, cache>>

(* Fault: the slot of the semaphore is not given back. *)
WorkerEndKeepsSlot(n) ==
    /\ worker' = [worker EXCEPT ![n] = "none"]
    /\ job' = [job EXCEPT ![n] = NoJob]
    /\ sem' = sem
    /\ wg' = wg - 1

(* The deferred release of the slot and wg.Done() of a goroutine.          *)
WorkerEnd(n) ==
    /\ worker' = [worker EXCEPT ![n] = "none"]
    /\ job' = [job EXCEPT ![n] = NoJob]
    /\ sem' = sem - 1
    /\ wg' = wg - 1

(* FetchNodeVMStats fails: no connection, timeout, status, bad JSON.       *)
FetchFails(n) ==
    /\ worker[n] = "fetch"
    /\ WorkerEnd(n)
    /\ UNCHANGED <<storeVars, loopVars, pending, cache>>

FetchReturns(n, results) ==
    /\ worker[n] = "fetch"
    /\ worker' = [worker EXCEPT ![n] = "store"]
    /\ pending' = [pending EXCEPT ![n] = Storable(n, results)]
    /\ UNCHANGED <<storeVars, loopVars, sem, wg, job, cache>>

(* StatsCache.Store, under the write lock.                                 *)
Store(n, k) ==
    /\ worker[n] = "store"
    /\ k \in pending[n]
    /\ pending' = [pending EXCEPT ![n] = @ \ {k}]
    /\ cache' = [cache EXCEPT ![k] = [vmi |-> job[n].vmis[k],
                                      src |-> PodNode[job[n].pod]]]
    /\ UNCHANGED <<storeVars, loopVars, sem, wg, worker, job>>

WorkerReturns(n) ==
    /\ worker[n] = "store"
    /\ pending[n] = {}
    /\ WorkerEnd(n)
    /\ UNCHANGED <<storeVars, loopVars, pending, cache>>

(* Fault: nothing is ever pruned. *)
PruneNothing(active) == cache

(* The end of pollOnce: wg.Wait() and then StatsCache.Prune(activeKeys).   *)
Prune(active) == [k \in Keys |-> IF k \in active THEN cache[k] ELSE NoEntry]

(* Fault: pollOnce does not wait for its goroutines. *)
PruneWithoutWait ==
    /\ pc = "polling"
    /\ todo = {}
    /\ pc' = "select"
    /\ cache' = Prune(activeKeys)
    /\ UNCHANGED <<storeVars, ticks, cancelled, snap, todo, activeKeys,
                   workerVars>>

WaitAndPrune ==
    /\ pc = "polling"
    /\ todo = {}
    /\ wg = 0
    /\ pc' = "select"
    /\ cache' = Prune(activeKeys)
    /\ UNCHANGED <<storeVars, ticks, cancelled, snap, todo, activeKeys,
                   workerVars>>

-----------------------------------------------------------------------------
Environment ==
    \/ \E k \in Keys, n \in Nodes \cup {NoNode}, again \in 0..1 :
          VMIEvent(k, [node |-> n, uid |-> vmiStore[k].uid + again])
    \/ \E p \in Pods : PodEvent(p)
    \/ Tick
    \/ Cancel

Answer(n)    == FetchFails(n) \/ \E r \in [Keys -> ResultKinds] : FetchReturns(n, r)
StoreAny(n)  == \E k \in Keys : Store(n, k)
VisitAny     == \E n \in Nodes : SkipNode(n) \/ PrepareNode(n)

Next ==
    \/ Environment
    \/ Stop
    \/ PollStart
    \/ VisitAny
    \/ \E n \in Nodes : LaunchNode(n) \/ Answer(n) \/ StoreAny(n) \/ WorkerReturns(n)
    \/ WaitAndPrune

Spec == Init /\ [][Next]_vars

(* The Go scheduler runs every goroutine that can run; a request ends      *)
(* because of the 30 s timeout on its context; the ticker ticks; and a     *)
(* select with several ready cases picks one at random, so that a ready    *)
(* ctx.Done() is not passed over forever.                                  *)
Fairness ==
    /\ WF_vars(Tick)
    /\ WF_vars(PollStart)
    /\ WF_vars(VisitAny)
    /\ WF_vars(WaitAndPrune)
    /\ SF_vars(Stop)
    /\ \A n \in Nodes : /\ WF_vars(LaunchNode(n))
                        /\ WF_vars(Answer(n))
                        /\ WF_vars(StoreAny(n))
                        /\ WF_vars(WorkerReturns(n))

FairSpec == Spec /\ Fairness

-----------------------------------------------------------------------------
(* Type invariant: the values every variable of the poller may take. *)
TypeOK ==
    /\ vmiStore \in [Keys -> VMI]
    /\ podReady \subseteq Pods
    /\ ticks \in 0..1
    /\ cancelled \in BOOLEAN
    /\ pc \in {"select", "polling", "stopped"}
    /\ snap \in [Keys -> VMI]
    /\ todo \subseteq Nodes
    /\ activeKeys \subseteq Keys
    /\ sem \in 0..MaxConcurrent
    /\ wg \in Nat
    /\ worker \in [Nodes -> {"none", "waiting", "fetch", "store"}]
    /\ job \in [Nodes -> Job \cup {NoJob}]
    /\ pending \in [Nodes -> SUBSET Keys]
    /\ cache \in [Keys -> CachedStats \cup {NoEntry}]

(* The statistics cached for a VMI were produced by the virt-handler of    *)
(* the node its cached VMI object, hence its node label, names: goroutines *)
(* of several nodes store concurrently, virt-handlers report VMIs that     *)
(* have migrated away, and pods come and go between lookup and request.    *)
SourceMatchesLabel ==
    \A k \in CachedKeys : cache[k].vmi.node \in Nodes /\ cache[k].vmi.node = cache[k].src

(* Never more requests in flight than MaxConcurrent, over all polls.       *)
AtMostMaxConcurrent == Cardinality(Running) <= MaxConcurrent

(* No goroutine of a poll outlives it: outside pollOnce nothing is being   *)
(* fetched, waiting for a slot or about to write into the cache.           *)
QuietWhenIdle ==
    pc # "polling" => /\ Running = {} /\ Waiting = {}
                      /\ sem = 0 /\ wg = 0

(* Between polls the cache holds no VMI that the last poll which got past  *)
(* its early return did not list on a node: every key is pruned or active. *)
PrunedToActive == pc = "select" => CachedKeys \subseteq activeKeys

(* The loop and its goroutines never wait on one another for good: while a *)
(* poll runs, some step other than the environment's is possible.          *)
PollNeverStuck ==
    pc = "polling" => \/ Running # {}
                      \/ Waiting # {} /\ sem < MaxConcurrent
                      \/ Waiting = {} /\ todo # {}
                      \/ Waiting = {} /\ todo = {} /\ wg = 0

(* What the poller promises its collector: see StatsCache. *)
Collected == INSTANCE StatsCache WITH listing <- snap

(* Whatever the goroutines, the informers and the virt-handlers do, the    *)
(* cache changes only as StatsCache allows: a key gets the VMI object the  *)
(* current poll listed, with statistics from that VMI's node, and only a   *)
(* poll that listed the key without a node drops it. A missing pod, a      *)
(* failed request or an error in the answer never drops what an earlier    *)
(* poll stored, and an answer to an earlier poll never lands in a later.   *)
CacheAsListed == Collected!Spec

(* A VMI that was deleted and created again under its name never loses its *)
(* place to the one before it: no late answer brings the cached VMI object *)
(* of a dead incarnation back.                                             *)
NoEarlierIncarnation ==
    [][\A k \in CachedKeys : cache'[k] = NoEntry \/ cache'[k].vmi.uid >= cache[k].vmi.uid]_vars

(* pollOnce returns, whatever the virt-handlers do. *)
PollTerminates == (pc = "polling") ~> (pc # "polling")

(* After the context is cancelled Start returns, even with ticks waiting. *)
CancelStops == cancelled ~> (pc = "stopped")

(* A VMI that stays off every node leaves the cache, as long as some other *)
(* VMI stays scheduled (pollOnce prunes nothing when none is).             *)
StaleEventuallyPruned ==
    \A k \in Keys :
        (/\ <>[](vmiStore[k].node = NoNode)
         /\ <>[](ScheduledKeys(vmiStore) # {})
         /\ []~cancelled)  =>  <>[](cache[k] = NoEntry)

(* A node that keeps a VMI and a ready virt-handler is asked again and     *)
(* again: slow or failing virt-handlers of other nodes, which hold slots   *)
(* of the semaphore, do not starve it.                                     *)
EveryNodeIsAsked ==
    \A n \in Nodes :
        (/\ <>[](/\ \E k \in Keys : vmiStore[k].node = n
                 /\ \E p \in podReady : PodIsHandler[p] /\ PodNode[p] = n)
         /\ []~cancelled)  =>  []<>(worker[n] = "fetch")

(* poller_test.go, "should prune stale entries from cache": after a poll   *)
(* nothing is cached for a VMI the poll did not list on a node.            *)
NoStaleAfterPoll == pc = "select" => CachedKeys \subseteq ScheduledKeys(snap)
=============================================================================
