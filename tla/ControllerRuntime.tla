-------------------------- MODULE ControllerRuntime --------------------------
(***************************************************************************)
(* The world a reconciler of this repository runs in, modelled from how    *)
(* pkg/controller and cmd/main.go use controller-runtime: the API server,  *)
(* the manager's informer cache that r.Get reads, the event handlers of    *)
(* SetupWithManager, the workqueue that holds the controller's one         *)
(* request, other writers of the same objects, and process restarts.       *)
(***************************************************************************)
EXTENDS Naturals, Sequences

CONSTANTS
    Objects,    \* the objects the reconciler owns
    Features,   \* what a revision of an object may have: see the reconcilers
    Others,     \* Others[o]: the contents other writers may give object o
    MaxLag      \* bound: others write o only while it has fewer unseen revisions

(* A content is the set of features a revision has; Absent is the content  *)
(* of an object that does not exist.                                       *)
Absent   == {"absent"}
Contents == (SUBSET Features) \cup {Absent}
KubeVirt == "KubeVirt"

ASSUME RuntimeAssumption ==
    /\ "absent" \notin Features
    /\ KubeVirt \notin Objects
    /\ Others \in [Objects -> SUBSET Contents]
    /\ MaxLag \in Nat

VARIABLES
    seen,      \* the informer cache: the revision of each object it holds
    backlog,   \* the later revisions of each object, oldest first
    kubevirt,  \* some KubeVirt CR exists
    notify,    \* watched things with an event the handlers have not mapped yet
    queued,    \* the request is in the workqueue
    holding,   \* objects whose latest revision is the one the reconciler read
    late,      \* a call of the process before this one that is still under way
    missed,    \* history: a relist hid a change from the handlers, and no
               \* reconcile has begun since
    calm       \* history: other writers, outages and restarts have ended

cacheVars   == <<seen, backlog>>
runtimeVars == <<seen, backlog, kubevirt, notify, queued, holding, late, missed, calm>>

Watched == Objects \cup {KubeVirt}

(* The content of an object in the API server.                             *)
Current(o) == IF backlog[o] = <<>> THEN seen[o] ELSE backlog[o][Len(backlog[o])]

(* A write of o: a new revision the informer has not seen.                 *)
Revise(o, c) ==
    /\ backlog' = [backlog EXCEPT ![o] = Append(@, c)]
    /\ holding' = holding \ {o}

(* Fault: an Update is applied whatever happened to its object since. *)
StillValidAlways(calls, o) == calls

(* A call is known by its object, what it does to it and the goal of the   *)
(* process that made it. An Update is of no use once its object has        *)
(* another revision.                                                       *)
StillValid(calls, o) == {w \in calls : w.obj # o \/ w.kind # "update"}

(* What a list of the API server makes the handlers see at start: an Add   *)
(* event for everything that exists.                                       *)
InitialEvents(s, kv) == {o \in Objects : s[o] # Absent}
                        \cup (IF kv THEN {KubeVirt} ELSE {})

RuntimeInit ==
    /\ seen \in [Objects -> Contents]
    /\ \A o \in Objects : seen[o] \in Others[o]
    /\ backlog = [o \in Objects |-> <<>>]
    /\ kubevirt \in BOOLEAN
    /\ notify = InitialEvents(seen, kubevirt)
    /\ queued = FALSE
    /\ holding = {}
    /\ late = {}
    /\ missed = FALSE
    /\ calm = FALSE

-----------------------------------------------------------------------------
(* Somebody else creates, edits or deletes an owned object.                *)
Edit(o, c) ==
    /\ ~calm
    /\ Len(backlog[o]) < MaxLag
    /\ c # Current(o)
    /\ Revise(o, c)
    /\ late' = StillValid(late, o)
    /\ UNCHANGED <<seen, kubevirt, notify, queued, missed, calm>>

(* The API server gets to a call of the process before this one: a Create  *)
(* of what does not exist, a Delete of what does, or an Update that is     *)
(* still valid.                                                            *)
Land(w) ==
    /\ ~calm
    /\ Len(backlog[w.obj]) < MaxLag
    /\ (w.kind = "create") <=> (Current(w.obj) = Absent)
    /\ Revise(w.obj, w.content)
    /\ late' = StillValid(late \ {w}, w.obj)
    /\ UNCHANGED <<seen, kubevirt, notify, queued, missed, calm>>

(* A KubeVirt CR is created, edited or deleted.                            *)
EditKubeVirt ==
    /\ ~calm
    /\ kubevirt' \in BOOLEAN
    /\ notify' = notify \cup {KubeVirt}
    /\ UNCHANGED <<cacheVars, queued, holding, late, missed, calm>>

(* The informer takes the next revision from its watch.                    *)
Deliver(o) ==
    /\ backlog[o] # <<>>
    /\ seen' = [seen EXCEPT ![o] = Head(backlog[o])]
    /\ backlog' = [backlog EXCEPT ![o] = Tail(@)]
    /\ notify' = notify \cup {o}
    /\ UNCHANGED <<kubevirt, queued, holding, late, missed, calm>>

(* The watch broke and the informer lists again: it skips to the latest    *)
(* revision. An object that was created and deleted in between leaves no   *)
(* event behind.                                                           *)
Relist(o) ==
    /\ Len(backlog[o]) > 1
    /\ seen' = [seen EXCEPT ![o] = Current(o)]
    /\ backlog' = [backlog EXCEPT ![o] = <<>>]
    /\ IF seen[o] = Absent /\ Current(o) = Absent
         THEN missed' = TRUE /\ UNCHANGED notify
         ELSE notify' = notify \cup {o} /\ UNCHANGED missed
    /\ UNCHANGED <<kubevirt, queued, holding, late, calm>>

(* The periodic resync of an informer: an event for what its store holds.  *)
Resync(x) ==
    /\ x \in InitialEvents(seen, kubevirt)
    /\ notify' = notify \cup {x}
    /\ UNCHANGED <<cacheVars, kubevirt, queued, holding, late, missed, calm>>

(* An event handler of SetupWithManager maps its event to the request. The *)
(* queue holds a request once, also while that request is being handled.   *)
Dispatch(x) ==
    /\ x \in notify
    /\ notify' = notify \ {x}
    /\ queued' = TRUE
    /\ UNCHANGED <<cacheVars, kubevirt, holding, late, missed, calm>>

(* The process dies and another one becomes the leader. Its informers list *)
(* the API server, those of the objects in lagging from an old snapshot.   *)
(* A call the old process has under way may still be applied; of calls     *)
(* made even earlier none is.                                              *)
RuntimeRestart(lagging, underWay) ==
    /\ ~calm
    /\ seen' = [o \in Objects |-> IF o \in lagging THEN seen[o] ELSE Current(o)]
    /\ backlog' = [o \in Objects |-> IF o \in lagging THEN backlog[o] ELSE <<>>]
    /\ notify' = InitialEvents(seen', kubevirt)
    /\ queued' = FALSE
    /\ holding' = {}
    /\ late' = underWay
    /\ missed' = FALSE
    /\ UNCHANGED <<kubevirt, calm>>

CalmDown ==
    /\ ~calm
    /\ calm' = TRUE
    /\ late' = {}
    /\ UNCHANGED <<cacheVars, kubevirt, notify, queued, holding, missed>>

World ==
    \/ \E o \in Objects : \E c \in Others[o] : Edit(o, c)
    \/ \E w \in late : Land(w)
    \/ EditKubeVirt
    \/ \E o \in Objects : Deliver(o) \/ Relist(o)
    \/ \E x \in Watched : Resync(x) \/ Dispatch(x)
    \/ CalmDown

-----------------------------------------------------------------------------
(* What the calls of a reconciler do to the world.                         *)
Take ==
    /\ queued
    /\ queued' = FALSE
    /\ missed' = FALSE
    /\ UNCHANGED <<cacheVars, kubevirt, notify, holding, late, calm>>

(* r.Get: a read of the informer cache; the copy can be written back only  *)
(* while it is the latest revision.                                        *)
Read(o) ==
    /\ holding' = IF backlog[o] = <<>> THEN {o} ELSE {}
    /\ UNCHANGED <<cacheVars, kubevirt, notify, queued, late, missed, calm>>

(* The API server accepts a Create of what does not exist, and an Update   *)
(* of the latest revision.                                                 *)
Accepts(o, copy) == IF copy = Absent THEN Current(o) = Absent ELSE o \in holding

Write(o, c) ==
    /\ Revise(o, c)
    /\ late' = StillValid(late, o)
    /\ UNCHANGED <<seen, kubevirt, notify, queued, missed, calm>>

(* Reconcile returns an error: the request is queued again with a backoff. *)
Requeue ==
    /\ queued' = TRUE
    /\ UNCHANGED <<cacheVars, kubevirt, notify, holding, late, missed, calm>>

(* A call fails although the server applied it.                            *)
WriteAndRequeue(o, c) ==
    /\ Revise(o, c)
    /\ late' = StillValid(late, o)
    /\ queued' = TRUE
    /\ UNCHANGED <<seen, kubevirt, notify, missed, calm>>

-----------------------------------------------------------------------------
(* Nothing is under way in the informers, the handlers or the queue.       *)
Drained == /\ ~queued
           /\ notify = {}
           /\ \A o \in Objects : backlog[o] = <<>>

CallOK(w) == /\ w.obj \in Objects
             /\ w.kind \in {"create", "update", "delete"}
             /\ w.content \in Contents

RuntimeTypeOK ==
    /\ seen \in [Objects -> Contents]
    /\ backlog \in [Objects -> Seq(Contents)]
    /\ kubevirt \in BOOLEAN
    /\ notify \subseteq Watched
    /\ queued \in BOOLEAN
    /\ holding \subseteq Objects
    /\ \A w \in late : CallOK(w)
    /\ missed \in BOOLEAN
    /\ calm \in BOOLEAN
=============================================================================
