------------------------ MODULE VMStatsPollerProofs ------------------------
(***************************************************************************)
(* Proofs about the vmstats poller for any VMIs, nodes and pods, and any   *)
(* MaxConcurrent: its safety invariants follow from the inductive          *)
(* invariant IInv.                                                         *)
(***************************************************************************)
EXTENDS VMStatsPoller, FiniteSetTheorems, TLAPS

Busy == Running \cup Waiting

(* The semaphore and the WaitGroup count the goroutines: a goroutine that  *)
(* waits for its slot is in the WaitGroup already.                         *)
Counted ==
    /\ sem = Cardinality(Running)
    /\ wg = Cardinality(Running) + Cardinality(Waiting)

(* A goroutine works on the listing of the current poll, on the VMIs of    *)
(* its own node, and asks a pod of that node.                              *)
JobsOK ==
    \A n \in Busy : /\ job[n].pod \in Pods
                    /\ PodNode[job[n].pod] = n
                    /\ job[n].keys = vmiLookup(n)
                    /\ job[n].vmis = snap
                    /\ n \notin todo

PendingOK == \A n \in Nodes : /\ pending[n] \subseteq vmiLookup(n)
                              /\ worker[n] # "store" => pending[n] = {}

(* Every listed VMI with a node is marked active or its node is still to   *)
(* be visited, so that when the loop ends all of them are marked.          *)
Progress ==
    pc = "polling" => /\ \A k \in ScheduledKeys(snap) : snap[k].node \in todo \/ k \in activeKeys
                      /\ activeKeys \subseteq ScheduledKeys(snap)

(* What is cached was listed, by this poll or an earlier one, and what is  *)
(* listed was in the informer's store: incarnations only grow.             *)
Ordered == \A k \in Keys : /\ cache[k].vmi.uid <= snap[k].uid
                            /\ snap[k].uid <= vmiStore[k].uid

CacheOK == SourceMatchesLabel /\ PrunedToActive

IInv == /\ TypeOK
        /\ Counted
        /\ JobsOK
        /\ PendingOK
        /\ QuietWhenIdle
        /\ Progress
        /\ CacheOK
        /\ Ordered

-----------------------------------------------------------------------------
LEMMA RunningFinite ==
    ASSUME TypeOK
    PROVE  /\ IsFiniteSet(Running) /\ IsFiniteSet(Waiting)
           /\ Cardinality(Running) \in Nat /\ Cardinality(Waiting) \in Nat
<1>1. Running \subseteq Nodes /\ Waiting \subseteq Nodes
  BY DEF Running, Waiting
<1>2. IsFiniteSet(Running) /\ IsFiniteSet(Waiting)
  BY <1>1, PollerAssumption, FS_Subset
<1> QED
  BY <1>2, FS_CardinalityType

LEMMA UidsAreNumbers ==
    ASSUME TypeOK, NEW k \in Keys
    PROVE  cache[k].vmi.uid \in Nat /\ snap[k].uid \in Nat /\ vmiStore[k].uid \in Nat
  BY DEF TypeOK, VMI, CachedStats, NoEntry, NoVMI

LEMMA InitIInv == Init => IInv
<1> SUFFICES ASSUME Init PROVE IInv
  OBVIOUS
<1>1. TypeOK
  <2>1. snap \in [Keys -> VMI] /\ vmiStore \in [Keys -> VMI]
    BY DEF Init, VMI, NoVMI
  <2>2. job \in [Nodes -> Job \cup {NoJob}] /\ cache \in [Keys -> CachedStats \cup {NoEntry}]
    BY DEF Init
  <2>3. worker \in [Nodes -> {"none", "waiting", "fetch", "store"}]
        /\ pending \in [Nodes -> SUBSET Keys]
    BY DEF Init
  <2>4. sem \in 0..MaxConcurrent /\ wg \in Nat /\ ticks \in 0..1
    BY PollerAssumption DEF Init
  <2> QED
    BY <2>1, <2>2, <2>3, <2>4 DEF Init, TypeOK
<1>2. Running = {} /\ Waiting = {}
  BY DEF Init, Running, Waiting
<1>3. Counted
  BY <1>2, FS_EmptySet DEF Counted, Init
<1>4. JobsOK /\ PendingOK /\ QuietWhenIdle /\ Progress
  BY <1>2 DEF JobsOK, PendingOK, QuietWhenIdle, Progress, Busy, Init
<1>5. CacheOK /\ Ordered
  BY DEF CacheOK, SourceMatchesLabel, PrunedToActive, CachedKeys, Ordered, NoEntry, NoVMI, Init
<1> QED
  BY <1>1, <1>3, <1>4, <1>5 DEF IInv

(* The goroutines are as they were. *)
LEMMA SameWorkers ==
    ASSUME UNCHANGED worker
    PROVE  Running' = Running /\ Waiting' = Waiting
  BY DEF Running, Waiting

(* A goroutine leaves Running when it ends. *)
LEMMA EndCounted ==
    ASSUME IInv, NEW n \in Running, WorkerEnd(n)
    PROVE  /\ Running' = Running \ {n} /\ Waiting' = Waiting
           /\ Counted'
           /\ sem' \in 0..MaxConcurrent /\ wg' \in Nat
<1>1. Running' = Running \ {n} /\ Waiting' = Waiting
  BY DEF WorkerEnd, Running, Waiting, IInv, TypeOK
<1>2. IsFiniteSet(Running) /\ Cardinality(Running) \in Nat /\ Cardinality(Waiting) \in Nat
  BY RunningFinite DEF IInv
<1>3. Cardinality(Running \ {n}) = Cardinality(Running) - 1
  BY <1>2, FS_RemoveElement
<1>4. IsFiniteSet(Running \ {n})
  BY <1>2, FS_RemoveElement
<1>5. Cardinality(Running \ {n}) \in Nat
  BY <1>4, FS_CardinalityType
<1> QED
  BY <1>1, <1>2, <1>3, <1>5, PollerAssumption DEF WorkerEnd, Counted, IInv, TypeOK

(* An event of the VMI informer never takes a VMI back to an earlier one. *)
LEMMA VMIEventOK ==
    ASSUME TypeOK, NEW k \in Keys, NEW n \in Nodes \cup {NoNode}, NEW again \in 0..1,
           VMIEvent(k, [node |-> n, uid |-> vmiStore[k].uid + again])
    PROVE  /\ vmiStore' \in [Keys -> VMI]
           /\ \A j \in Keys : vmiStore'[j].uid >= vmiStore[j].uid
<1>1. vmiStore[k].uid \in Nat /\ vmiStore[k].uid + again \in Nat
  BY UidsAreNumbers
<1>2. [node |-> n, uid |-> vmiStore[k].uid + again] \in VMI
  BY <1>1 DEF VMI
<1>3. \A j \in Keys : vmiStore[j].uid \in Nat
  BY UidsAreNumbers
<1>4. vmiStore' = [vmiStore EXCEPT ![k] = [node |-> n, uid |-> vmiStore[k].uid + again]]
  BY DEF VMIEvent
<1>5. vmiStore' \in [Keys -> VMI]
  BY <1>2, <1>4 DEF TypeOK
<1>6. \A j \in Keys : vmiStore'[j] = IF j = k THEN [node |-> n, uid |-> vmiStore[k].uid + again]
                                               ELSE vmiStore[j]
  BY <1>4 DEF TypeOK
<1> QED
  BY <1>1, <1>3, <1>5, <1>6

(* Steps of the informers, the ticker and the manager. *)
LEMMA EnvironmentIInv ==
    ASSUME IInv, Environment
    PROVE  IInv'
<1>0. \/ UNCHANGED vmiStore
      \/ /\ vmiStore' \in [Keys -> VMI]
         /\ \A j \in Keys : vmiStore'[j].uid >= vmiStore[j].uid
  <2>1. CASE \E k \in Keys, n \in Nodes \cup {NoNode}, again \in 0..1 :
               VMIEvent(k, [node |-> n, uid |-> vmiStore[k].uid + again])
    BY <2>1, VMIEventOK DEF IInv
  <2>2. CASE Tick \/ Cancel \/ \E p \in Pods : PodEvent(p)
    BY <2>2 DEF Tick, Cancel, PodEvent, storeVars
  <2> QED
    BY <2>1, <2>2 DEF Environment
<1>1. UNCHANGED <<pc, snap, todo, activeKeys, workerVars, cache>>
  BY DEF Environment, VMIEvent, PodEvent, Tick, Cancel, loopVars
<1>2. TypeOK'
  <2>1. vmiStore' \in [Keys -> VMI]
    BY <1>0 DEF IInv, TypeOK
  <2>4. podReady' \subseteq Pods
    BY DEF IInv, TypeOK, Environment, VMIEvent, PodEvent, Tick, Cancel, storeVars
  <2>2. ticks' = ticks \/ ticks' = 1
    BY DEF Environment, VMIEvent, PodEvent, Tick, Cancel, loopVars
  <2>3. cancelled' \in BOOLEAN
    BY Zenon DEF IInv, TypeOK, Environment, VMIEvent, PodEvent, Tick, Cancel, loopVars
  <2> QED
    BY <1>1, <2>1, <2>2, <2>3, <2>4 DEF IInv, TypeOK, workerVars
<1>3. Running' = Running /\ Waiting' = Waiting
  BY <1>1, SameWorkers DEF workerVars
<1>4. Ordered'
  <2>1. \A k \in Keys : vmiStore[k].uid \in Nat /\ vmiStore'[k].uid >= vmiStore[k].uid
    BY <1>0, UidsAreNumbers DEF IInv
  <2>2. \A k \in Keys : vmiStore'[k].uid \in Nat /\ snap[k].uid \in Nat
    BY <1>2 DEF IInv, TypeOK, VMI
  <2> QED
    BY <1>1, <2>1, <2>2 DEF IInv, Ordered
<1> QED
  BY <1>1, <1>2, <1>3, <1>4
  DEF IInv, Counted, JobsOK, PendingOK, QuietWhenIdle, Progress, CacheOK, Busy,
      SourceMatchesLabel, PrunedToActive, CachedKeys, ScheduledKeys,
      vmiLookup, workerVars

LEMMA StopIInv ==
    ASSUME IInv, Stop
    PROVE  IInv'
<1>1. Running' = Running /\ Waiting' = Waiting
  BY SameWorkers DEF Stop, workerVars
<1> QED
  BY <1>1
  DEF IInv, TypeOK, Stop, Counted, JobsOK, PendingOK, QuietWhenIdle, Progress, CacheOK,
      Busy, SourceMatchesLabel, PrunedToActive, CachedKeys,
      vmiLookup, ScheduledKeys, Ordered, workerVars, storeVars

LEMMA PollStartIInv ==
    ASSUME IInv, PollStart
    PROVE  IInv'
<1>1. Running' = Running /\ Waiting' = Waiting /\ Running = {} /\ Waiting = {}
  BY SameWorkers DEF PollStart, workerVars, IInv, QuietWhenIdle
<1>2. TypeOK'
  BY DEF IInv, TypeOK, PollStart, groupVMIsByNode, ScheduledKeys, workerVars, storeVars
<1>3. \A n \in Nodes : worker[n] # "store" /\ pending[n] = {}
  BY <1>1 DEF IInv, PendingOK, Running
<1>4. Counted' /\ JobsOK' /\ QuietWhenIdle'
  BY <1>1 DEF IInv, PollStart, Counted, JobsOK, QuietWhenIdle, Busy, workerVars
<1>5. PendingOK'
  BY <1>3 DEF PollStart, PendingOK, workerVars
<1>6. Progress'
  BY DEF IInv, PollStart, Progress, groupVMIsByNode, ScheduledKeys
<1>7. CacheOK'
  BY DEF IInv, PollStart, CacheOK, SourceMatchesLabel, PrunedToActive, CachedKeys
<1>8. Ordered'
  <2>1. \A k \in Keys : cache[k].vmi.uid \in Nat /\ snap[k].uid \in Nat /\ vmiStore[k].uid \in Nat
    BY UidsAreNumbers DEF IInv
  <2> QED
    BY <2>1 DEF IInv, PollStart, Ordered, storeVars
<1> QED
  BY <1>2, <1>4, <1>5, <1>6, <1>7, <1>8 DEF IInv

LEMMA SkipNodeIInv ==
    ASSUME IInv, NEW n \in Nodes, SkipNode(n)
    PROVE  IInv'
<1>1. Running' = Running /\ Waiting' = Waiting
  BY SameWorkers DEF SkipNode, workerVars
<1>2. TypeOK'
  BY DEF IInv, TypeOK, SkipNode, VisitNode, vmiLookup, workerVars, storeVars
<1>3. Counted' /\ JobsOK' /\ PendingOK' /\ QuietWhenIdle'
  BY <1>1 DEF IInv, Counted, JobsOK, PendingOK, QuietWhenIdle, Busy, vmiLookup,
              SkipNode, VisitNode, workerVars
<1>4. Progress'
  BY DEF IInv, Progress, SkipNode, VisitNode, vmiLookup, ScheduledKeys
<1>5. CacheOK' /\ Ordered'
  BY DEF IInv, SkipNode, VisitNode, CacheOK, SourceMatchesLabel, PrunedToActive,
         CachedKeys, Ordered, storeVars
<1> QED
  BY <1>2, <1>3, <1>4, <1>5 DEF IInv

LEMMA PrepareNodeIInv ==
    ASSUME IInv, NEW n \in Nodes, PrepareNode(n)
    PROVE  IInv'
<1>1. n \notin Busy /\ pc = "polling" /\ n \in todo
  BY DEF IInv, JobsOK, PrepareNode, VisitNode
<1>2. Running' = Running /\ Waiting' = Waiting \cup {n}
  BY <1>1 DEF PrepareNode, IInv, TypeOK, Running, Waiting, Busy
<1>3. PICK p \in findVirtHandlerPodIP(n) :
         job' = [job EXCEPT ![n] = [pod |-> p, keys |-> vmiLookup(n), vmis |-> snap]]
  BY DEF PrepareNode
<1>4. p \in Pods /\ PodNode[p] = n
  BY <1>3 DEF findVirtHandlerPodIP, IInv, TypeOK
<1>5. [pod |-> p, keys |-> vmiLookup(n), vmis |-> snap] \in Job
  BY <1>4 DEF Job, vmiLookup, IInv, TypeOK
<1>6. TypeOK'
  <2>1. job' \in [Nodes -> Job \cup {NoJob}]
    BY <1>3, <1>5 DEF IInv, TypeOK
  <2>2. worker' \in [Nodes -> {"none", "waiting", "fetch", "store"}] /\ wg' \in Nat
    BY DEF IInv, TypeOK, PrepareNode
  <2>3. todo' \subseteq Nodes /\ activeKeys' \subseteq Keys
    BY DEF IInv, TypeOK, PrepareNode, VisitNode, vmiLookup
  <2> QED
    BY <2>1, <2>2, <2>3 DEF IInv, TypeOK, PrepareNode, storeVars
<1>7. Counted'
  <2>1. IsFiniteSet(Waiting) /\ Cardinality(Running) \in Nat /\ Cardinality(Waiting) \in Nat
    BY RunningFinite DEF IInv
  <2>2. Cardinality(Waiting \cup {n}) = Cardinality(Waiting) + 1
    BY <2>1, <1>1, FS_AddElement DEF Busy
  <2> QED
    BY <1>2, <2>1, <2>2 DEF IInv, Counted, PrepareNode
<1>8. JobsOK'
  <2> SUFFICES ASSUME NEW m \in Busy'
               PROVE  (/\ job[m].pod \in Pods /\ PodNode[job[m].pod] = m
                       /\ job[m].keys = vmiLookup(m) /\ job[m].vmis = snap
                       /\ m \notin todo)'
    BY DEF JobsOK
  <2>1. snap' = snap /\ todo' = todo \ {n} /\ vmiLookup(m)' = vmiLookup(m)
    BY DEF PrepareNode, VisitNode, vmiLookup
  <2>2. CASE m = n
    BY <2>1, <2>2, <1>3, <1>4, <1>5 DEF IInv, TypeOK
  <2>3. CASE m # n
    <3>1. m \in Busy /\ m \in Nodes
      BY <2>3, <1>2 DEF Busy, Running, Waiting
    <3>2. job'[m] = job[m]
      BY <2>3, <3>1, <1>3 DEF IInv, TypeOK
    <3> QED
      BY <2>1, <3>1, <3>2 DEF IInv, JobsOK
  <2> QED
    BY <2>2, <2>3
<1>9. PendingOK'
  BY <1>1 DEF IInv, TypeOK, PendingOK, PrepareNode, VisitNode, vmiLookup, Busy, Running
<1>10. QuietWhenIdle'
  BY <1>1 DEF QuietWhenIdle, PrepareNode
<1>11. Progress'
  BY DEF IInv, Progress, PrepareNode, VisitNode, vmiLookup, ScheduledKeys
<1>12. CacheOK' /\ Ordered'
  BY <1>1 DEF IInv, PrepareNode, VisitNode, CacheOK, SourceMatchesLabel, PrunedToActive,
              CachedKeys, Ordered, storeVars
<1> QED
  BY <1>6, <1>7, <1>8, <1>9, <1>10, <1>11, <1>12 DEF IInv

LEMMA LaunchNodeIInv ==
    ASSUME IInv, NEW n \in Nodes, LaunchNode(n)
    PROVE  IInv'
<1>1. n \in Waiting /\ n \notin Running
  BY DEF LaunchNode, Waiting, Running
<1>2. Running' = Running \cup {n} /\ Waiting' = Waiting \ {n}
  BY DEF LaunchNode, IInv, TypeOK, Running, Waiting
<1>3. Busy' = Busy
  BY <1>1, <1>2 DEF Busy
<1>4. TypeOK'
  BY PollerAssumption DEF IInv, TypeOK, LaunchNode, loopVars, storeVars
<1>5. Counted'
  <2>1. /\ IsFiniteSet(Running) /\ IsFiniteSet(Waiting)
        /\ Cardinality(Running) \in Nat /\ Cardinality(Waiting) \in Nat
    BY RunningFinite DEF IInv
  <2>2. Cardinality(Running \cup {n}) = Cardinality(Running) + 1
    BY <2>1, <1>1, FS_AddElement
  <2>3. Cardinality(Waiting \ {n}) = Cardinality(Waiting) - 1
    BY <2>1, <1>1, FS_RemoveElement
  <2> QED
    BY <1>2, <2>1, <2>2, <2>3 DEF IInv, Counted, LaunchNode
<1>6. QuietWhenIdle'
  BY <1>1 DEF IInv, QuietWhenIdle, LaunchNode, loopVars
<1>7. JobsOK' /\ PendingOK'
  BY <1>3 DEF IInv, TypeOK, JobsOK, PendingOK, vmiLookup, LaunchNode, loopVars
<1>8. Progress' /\ CacheOK' /\ Ordered'
  BY DEF IInv, LaunchNode, Progress, CacheOK, SourceMatchesLabel, PrunedToActive,
         CachedKeys, ScheduledKeys, Ordered, loopVars, storeVars
<1> QED
  BY <1>4, <1>5, <1>6, <1>7, <1>8 DEF IInv

(* A goroutine ends: its request failed, or it has stored its answer. *)
LEMMA WorkerEndIInv ==
    ASSUME IInv, NEW n \in Nodes, FetchFails(n) \/ WorkerReturns(n)
    PROVE  IInv'
<1>1. n \in Running /\ WorkerEnd(n) /\ UNCHANGED <<storeVars, loopVars, pending, cache>>
  BY DEF FetchFails, WorkerReturns, Running
<1>2. pending[n] = {}
  BY DEF FetchFails, WorkerReturns, IInv, PendingOK
<1>3. /\ Running' = Running \ {n} /\ Waiting' = Waiting
      /\ Counted' /\ sem' \in 0..MaxConcurrent /\ wg' \in Nat
  BY <1>1, EndCounted
<1>4. TypeOK'
  BY <1>1, <1>3 DEF IInv, TypeOK, WorkerEnd, storeVars, loopVars
<1>5. JobsOK'
  <2> SUFFICES ASSUME NEW m \in Busy'
               PROVE  (/\ job[m].pod \in Pods /\ PodNode[job[m].pod] = m
                       /\ job[m].keys = vmiLookup(m) /\ job[m].vmis = snap
                       /\ m \notin todo)'
    BY DEF JobsOK
  <2>1. m \in Busy /\ m \in Nodes /\ m # n
    BY <1>1, <1>3 DEF Busy, Running, Waiting
  <2>2. job'[m] = job[m]
    BY <1>1, <2>1 DEF WorkerEnd, IInv, TypeOK
  <2> QED
    BY <1>1, <2>1, <2>2 DEF IInv, JobsOK, vmiLookup, loopVars
<1>6. PendingOK'
  BY <1>1, <1>2 DEF IInv, TypeOK, PendingOK, vmiLookup, WorkerEnd, loopVars
<1>7. QuietWhenIdle'
  BY <1>1 DEF IInv, QuietWhenIdle, loopVars
<1>8. Progress' /\ CacheOK' /\ Ordered'
  BY <1>1 DEF IInv, Progress, CacheOK, SourceMatchesLabel, PrunedToActive,
              CachedKeys, ScheduledKeys, Ordered, loopVars, storeVars
<1> QED
  BY <1>3, <1>4, <1>5, <1>6, <1>7, <1>8 DEF IInv

LEMMA FetchReturnsIInv ==
    ASSUME IInv, NEW n \in Nodes, NEW r \in [Keys -> ResultKinds], FetchReturns(n, r)
    PROVE  IInv'
<1>1. Running' = Running /\ Waiting' = Waiting /\ n \in Running
  BY DEF FetchReturns, IInv, TypeOK, Running, Waiting
<1>2. Storable(n, r) \subseteq vmiLookup(n) /\ vmiLookup(n) \subseteq Keys
  BY <1>1 DEF Storable, IInv, JobsOK, Busy, vmiLookup
<1>3. TypeOK'
  BY <1>2 DEF IInv, TypeOK, FetchReturns, storeVars, loopVars
<1>4. PendingOK'
  BY <1>2 DEF IInv, TypeOK, PendingOK, vmiLookup, FetchReturns, loopVars
<1>5. Counted' /\ JobsOK' /\ QuietWhenIdle'
  BY <1>1 DEF IInv, Counted, JobsOK, QuietWhenIdle, Busy, vmiLookup, FetchReturns, loopVars
<1>6. Progress' /\ CacheOK' /\ Ordered'
  BY DEF IInv, FetchReturns, Progress, CacheOK, SourceMatchesLabel, PrunedToActive,
         CachedKeys, ScheduledKeys, Ordered, loopVars, storeVars
<1> QED
  BY <1>3, <1>4, <1>5, <1>6 DEF IInv

LEMMA StoreIInv ==
    ASSUME IInv, NEW n \in Nodes, NEW k \in Keys, Store(n, k)
    PROVE  IInv'
<1>1. Running' = Running /\ Waiting' = Waiting
  BY SameWorkers DEF Store
<1>2. n \in Running /\ n \in Busy /\ pc = "polling"
  BY DEF Store, Running, Busy, IInv, QuietWhenIdle
<1>3. job[n].vmis[k] = snap[k] /\ PodNode[job[n].pod] = n /\ snap[k].node = n
  BY <1>2 DEF Store, IInv, JobsOK, PendingOK, vmiLookup
<1>4. cache' = [cache EXCEPT ![k] = [vmi |-> snap[k], src |-> n]]
  BY <1>3 DEF Store
<1>5. TypeOK'
  <2>1. cache' \in [Keys -> CachedStats \cup {NoEntry}]
    BY <1>4 DEF IInv, TypeOK, CachedStats
  <2> QED
    BY <2>1 DEF IInv, TypeOK, Store, storeVars, loopVars
<1>6. Counted' /\ JobsOK' /\ QuietWhenIdle'
  BY <1>1 DEF IInv, Counted, JobsOK, QuietWhenIdle, Busy, vmiLookup, Store, loopVars
<1>7. PendingOK'
  BY DEF IInv, TypeOK, PendingOK, vmiLookup, Store, loopVars
<1>8. Progress'
  BY DEF IInv, Progress, ScheduledKeys, Store, loopVars
<1>9. CacheOK'
  <2>1. SourceMatchesLabel'
    BY <1>3, <1>4 DEF IInv, TypeOK, CacheOK, SourceMatchesLabel, CachedKeys
  <2>2. PrunedToActive'
    BY <1>2 DEF PrunedToActive, Store, loopVars
  <2> QED
    BY <2>1, <2>2 DEF CacheOK
<1>10. Ordered'
  <2>1. snap[k].uid \in Nat
    BY UidsAreNumbers DEF IInv
  <2> QED
    BY <1>4, <2>1 DEF IInv, TypeOK, Ordered, Store, loopVars, storeVars
<1> QED
  BY <1>5, <1>6, <1>7, <1>8, <1>9, <1>10 DEF IInv

LEMMA WaitAndPruneIInv ==
    ASSUME IInv, WaitAndPrune
    PROVE  IInv'
<1>1. Running' = Running /\ Waiting' = Waiting
  BY SameWorkers DEF WaitAndPrune, workerVars
<1>2. Running = {} /\ Waiting = {} /\ sem = 0 /\ wg = 0
  <2>1. /\ IsFiniteSet(Running) /\ IsFiniteSet(Waiting)
        /\ Cardinality(Running) \in Nat /\ Cardinality(Waiting) \in Nat
    BY RunningFinite DEF IInv
  <2>2. Cardinality(Running) = 0 /\ Cardinality(Waiting) = 0
    BY <2>1 DEF IInv, Counted, WaitAndPrune
  <2> QED
    BY <2>1, <2>2, FS_EmptySet DEF IInv, Counted, WaitAndPrune
<1>3. TypeOK'
  BY DEF IInv, TypeOK, WaitAndPrune, Prune, storeVars, workerVars
<1>4. Counted' /\ JobsOK' /\ PendingOK' /\ QuietWhenIdle'
  BY <1>1, <1>2 DEF IInv, Counted, JobsOK, PendingOK, QuietWhenIdle, Busy, vmiLookup,
                    WaitAndPrune, workerVars
<1>5. Progress'
  BY DEF Progress, WaitAndPrune
<1>6. CacheOK'
  <2>1. \A k \in Keys : cache'[k] = IF k \in activeKeys THEN cache[k] ELSE NoEntry
    BY DEF WaitAndPrune, Prune
  <2>2. SourceMatchesLabel' /\ PrunedToActive'
    BY <2>1 DEF IInv, CacheOK, SourceMatchesLabel, PrunedToActive, CachedKeys, WaitAndPrune
  <2> QED
    BY <2>2 DEF CacheOK
<1>7. Ordered'
  <2>1. \A k \in Keys : cache'[k].vmi.uid = cache[k].vmi.uid \/ cache'[k].vmi.uid = 0
    BY DEF WaitAndPrune, Prune, NoEntry, NoVMI
  <2>2. \A k \in Keys : snap[k].uid \in Nat
    BY UidsAreNumbers DEF IInv
  <2> QED
    BY <2>1, <2>2 DEF IInv, Ordered, WaitAndPrune, storeVars
<1> QED
  BY <1>3, <1>4, <1>5, <1>6, <1>7 DEF IInv

LEMMA NextIInv == IInv /\ [Next]_vars => IInv'
<1> SUFFICES ASSUME IInv, [Next]_vars PROVE IInv'
  OBVIOUS
<1>1. CASE Environment
  BY <1>1, EnvironmentIInv
<1>2. CASE Stop
  BY <1>2, StopIInv
<1>3. CASE PollStart
  BY <1>3, PollStartIInv
<1>4. CASE VisitAny
  BY <1>4, SkipNodeIInv, PrepareNodeIInv DEF VisitAny
<1>5. CASE \E n \in Nodes : LaunchNode(n) \/ Answer(n) \/ StoreAny(n) \/ WorkerReturns(n)
  <2> PICK n \in Nodes : LaunchNode(n) \/ Answer(n) \/ StoreAny(n) \/ WorkerReturns(n)
    BY <1>5
  <2>1. CASE LaunchNode(n)
    BY <2>1, LaunchNodeIInv
  <2>2. CASE Answer(n)
    BY <2>2, WorkerEndIInv, FetchReturnsIInv DEF Answer
  <2>3. CASE StoreAny(n)
    BY <2>3, StoreIInv DEF StoreAny
  <2>4. CASE WorkerReturns(n)
    BY <2>4, WorkerEndIInv
  <2> QED
    BY <2>1, <2>2, <2>3, <2>4
<1>6. CASE WaitAndPrune
  BY <1>6, WaitAndPruneIInv
<1>7. CASE UNCHANGED vars
  <2>1. Running' = Running /\ Waiting' = Waiting
    BY <1>7, SameWorkers DEF vars, workerVars
  <2> QED
    BY <1>7, <2>1
    DEF IInv, TypeOK, Counted, JobsOK, PendingOK, QuietWhenIdle, Progress, CacheOK, Busy,
        SourceMatchesLabel, PrunedToActive, CachedKeys, vmiLookup, ScheduledKeys, Ordered,
        vars, storeVars, loopVars, workerVars
<1> QED
  BY <1>1, <1>2, <1>3, <1>4, <1>5, <1>6, <1>7 DEF Next

LEMMA SpecIInv == Spec => []IInv
  BY InitIInv, NextIInv, PTL DEF Spec

-----------------------------------------------------------------------------
(* Every variable of the poller keeps its type. *)
THEOREM TypeCorrect == Spec => []TypeOK
<1>1. IInv => TypeOK
  BY DEF IInv
<1> QED
  BY <1>1, SpecIInv, PTL

(* Statistics are only ever cached under the node that produced them. *)
THEOREM SourceMatchesLabelHolds == Spec => []SourceMatchesLabel
<1>1. IInv => SourceMatchesLabel
  BY DEF IInv, CacheOK
<1> QED
  BY <1>1, SpecIInv, PTL

(* The semaphore of a poll bounds the requests in flight. *)
THEOREM BoundedConcurrency == Spec => []AtMostMaxConcurrent
<1>1. IInv => AtMostMaxConcurrent
  BY PollerAssumption DEF IInv, TypeOK, Counted, AtMostMaxConcurrent
<1> QED
  BY <1>1, SpecIInv, PTL

(* No goroutine outlives the poll that started it. *)
THEOREM NoGoroutineLeak == Spec => []QuietWhenIdle
<1>1. IInv => QuietWhenIdle
  BY DEF IInv
<1> QED
  BY <1>1, SpecIInv, PTL

(* Between polls every cached key was active in the last poll that pruned. *)
THEOREM PruneIsComplete == Spec => []PrunedToActive
<1>1. IInv => PrunedToActive
  BY DEF IInv, CacheOK
<1> QED
  BY <1>1, SpecIInv, PTL

(* The semaphore and the WaitGroup cannot deadlock a poll. *)
THEOREM NoDeadlock == Spec => []PollNeverStuck
<1>1. IInv => PollNeverStuck
  <2> SUFFICES ASSUME IInv, pc = "polling", Running = {}
               PROVE  \/ Waiting # {} /\ sem < MaxConcurrent
                      \/ Waiting = {} /\ todo # {}
                      \/ Waiting = {} /\ todo = {} /\ wg = 0
    BY DEF PollNeverStuck
  <2>1. Cardinality(Running) = 0 /\ (Waiting = {} => Cardinality(Waiting) = 0)
    BY FS_EmptySet
  <2> QED
    BY <2>1, PollerAssumption DEF IInv, Counted
<1> QED
  BY <1>1, SpecIInv, PTL

(* The steps that leave the listing and the cache alone. *)
LEMMA OtherSteps ==
    ASSUME Next, ~PollStart, ~WaitAndPrune, ~\E n \in Nodes, k \in Keys : Store(n, k)
    PROVE  UNCHANGED <<snap, cache>>
  BY DEF Next, Environment, VMIEvent, PodEvent, Tick, Cancel, Stop, VisitAny,
         SkipNode, PrepareNode, LaunchNode, Answer, FetchFails, FetchReturns, StoreAny,
         WorkerReturns, loopVars

(* A store puts the listed VMI object and statistics of its node there. *)
LEMMA StoreIsRefresh ==
    ASSUME IInv, NEW n \in Nodes, NEW k \in Keys, Store(n, k)
    PROVE  Collected!Refresh(k)
<1>1. n \in Busy
  BY DEF Store, Running, Busy
<1>2. job[n].vmis[k] = snap[k] /\ PodNode[job[n].pod] = n /\ snap[k].node = n
  BY <1>1 DEF Store, IInv, JobsOK, PendingOK, vmiLookup
<1> QED
  BY <1>2 DEF Store, loopVars, Collected!Refresh, Collected!Scheduled

(* The loop has marked every scheduled VMI, and no other, when it prunes. *)
LEMMA PruneIsExpire ==
    ASSUME IInv, WaitAndPrune
    PROVE  Collected!Expire
<1>1. activeKeys = ScheduledKeys(snap)
  BY DEF WaitAndPrune, IInv, Progress, ScheduledKeys
<1> QED
  BY <1>1 DEF WaitAndPrune, Prune, ScheduledKeys, NoEntry, NoVMI,
              Collected!Expire, Collected!Scheduled, Collected!NoEntry, Collected!NoVMI

LEMMA PollStartIsList ==
    ASSUME IInv, PollStart
    PROVE  Collected!List
<1>1. \A k \in Keys : snap'[k].uid >= snap[k].uid
  <2>1. \A k \in Keys : snap[k].uid \in Nat /\ vmiStore[k].uid \in Nat
    BY UidsAreNumbers DEF IInv
  <2> QED
    BY <2>1 DEF IInv, Ordered, PollStart
<1> QED
  BY <1>1 DEF IInv, TypeOK, VMI, PollStart, Collected!List

(* The poller implements StatsCache: see the property. *)
THEOREM ImplementsStatsCache == Spec => CacheAsListed
<1>1. Init => Collected!Init
  BY DEF Init, NoEntry, NoVMI, Collected!Init, Collected!NoEntry, Collected!NoVMI
<1>2. IInv /\ [Next]_vars => [Collected!Next]_<<snap, cache>>
  <2> SUFFICES ASSUME IInv, [Next]_vars
               PROVE  Collected!Next \/ UNCHANGED <<snap, cache>>
    OBVIOUS
  <2>1. CASE PollStart
    BY <2>1, PollStartIsList DEF Collected!Next
  <2>2. CASE WaitAndPrune
    BY <2>2, PruneIsExpire DEF Collected!Next
  <2>3. CASE \E n \in Nodes, k \in Keys : Store(n, k)
    BY <2>3, StoreIsRefresh DEF Collected!Next
  <2>4. CASE UNCHANGED vars
    BY <2>4 DEF vars, loopVars
  <2> QED
    BY <2>1, <2>2, <2>3, <2>4, OtherSteps
<1> QED
  BY <1>1, <1>2, SpecIInv, PTL DEF Spec, CacheAsListed, Collected!Spec

(* No step puts an earlier incarnation in the place of a later one. *)
THEOREM IncarnationsInOrder == Spec => NoEarlierIncarnation
<1> DEFINE Later == \A k \in CachedKeys : cache'[k] = NoEntry \/ cache'[k].vmi.uid >= cache[k].vmi.uid
<1>1. IInv /\ [Next]_vars => [Later]_vars
  <2> SUFFICES ASSUME IInv, Next, NEW k \in Keys
               PROVE  cache'[k] = NoEntry \/ cache'[k].vmi.uid >= cache[k].vmi.uid
    BY DEF CachedKeys
  <2>1. cache[k].vmi.uid \in Nat /\ snap[k].uid \in Nat /\ cache[k].vmi.uid <= snap[k].uid
    BY UidsAreNumbers DEF IInv, Ordered
  <2>2. CASE cache' = cache
    BY <2>1, <2>2
  <2>3. CASE \E n \in Nodes, j \in Keys : Store(n, j)
    <3> PICK n \in Nodes, j \in Keys : Store(n, j)
      BY <2>3
    <3>1. cache' = [cache EXCEPT ![j] = [vmi |-> snap[j], src |-> snap[j].node]]
      BY StoreIsRefresh DEF Collected!Refresh
    <3> QED
      BY <2>1, <3>1 DEF IInv, TypeOK
  <2>4. CASE WaitAndPrune
    BY <2>1, <2>4 DEF WaitAndPrune, Prune
  <2>5. CASE PollStart
    BY <2>2, <2>5 DEF PollStart
  <2> QED
    BY <2>2, <2>3, <2>4, <2>5, OtherSteps
<1> QED
  BY <1>1, SpecIInv, PTL DEF Spec, NoEarlierIncarnation
=============================================================================
