---------------------------- MODULE DesiredState ----------------------------
(***************************************************************************)
(* What a reconciler promises the users of the API server, without         *)
(* informers, queues, retries or calls: between the edits of others, the   *)
(* only changes to its objects are repairs. Both reconcilers of            *)
(* pkg/controller implement this.                                          *)
(***************************************************************************)
CONSTANTS
    Objects,        \* the objects the reconciler owns
    Absent,         \* the content of an object that does not exist
    Others,         \* Others[o]: the contents other writers may give o
    Managed,        \* Managed[o]: the features of o that belong to the reconciler
    Goals,          \* the configurations a process may have
    Fine(_, _, _)   \* Fine(g, o, c): content c of o is what goal g asks for

VARIABLES
    content,  \* the content of each object in the API server
    goal,     \* the goal of the running process
    former,   \* goals of the process before it that may still be acted upon
    calm      \* other writers, outages and restarts have ended

vars == <<content, goal, former, calm>>

Init ==
    /\ content \in [Objects -> UNION {Others[o] : o \in Objects}]
    /\ \A o \in Objects : content[o] \in Others[o]
    /\ goal \in Goals
    /\ former = {}
    /\ calm = FALSE

(* Only o changes. *)
Changes(o) == content' = [content EXCEPT ![o] = content'[o]]

(* The features of a content that do not belong to the reconciler. *)
Foreign(o, c) == IF c = Absent THEN {} ELSE c \ Managed[o]

(* Somebody else writes o. *)
Disturb(o) ==
    /\ ~calm
    /\ Changes(o)
    /\ content'[o] \in Others[o]
    /\ former' \subseteq former
    /\ UNCHANGED <<goal, calm>>

(* An object that is not what the goal of the running process, or of the   *)
(* one before it, asks for becomes so; what is not the reconciler's stays. *)
Repair(o) ==
    /\ Changes(o)
    /\ \E g \in {goal} \cup former :
          ~Fine(g, o, content[o]) /\ Fine(g, o, content'[o])
    /\ content'[o] = Absent \/ Foreign(o, content'[o]) = Foreign(o, content[o])
    /\ former' \subseteq former
    /\ UNCHANGED <<goal, calm>>

(* Another process takes over. *)
TakeOver ==
    /\ ~calm
    /\ goal' \in Goals
    /\ former' \subseteq {goal}
    /\ UNCHANGED <<content, calm>>

CalmDown ==
    /\ ~calm
    /\ calm' = TRUE
    /\ former' = {}
    /\ UNCHANGED <<content, goal>>

Next == \/ \E o \in Objects : Disturb(o) \/ Repair(o)
        \/ TakeOver
        \/ CalmDown

Spec == Init /\ [][Next]_vars
=============================================================================
