----------------------- MODULE ControllerRuntimeProofs -----------------------
(***************************************************************************)
(* Facts about the world of the reconcilers that the proofs about each of  *)
(* them cite: what its steps preserve, and that no step changes what the   *)
(* informers hold without alerting somebody.                               *)
(***************************************************************************)
EXTENDS ControllerRuntime, SequenceTheorems, TLAPS

(* Something will start a reconcile, or a relist has hidden a change. *)
Alerted == notify # {} \/ queued \/ missed

(* What the reconciler holds is the latest revision and the informer's. *)
HoldingOK == \A o \in holding : backlog[o] = <<>>

RuntimeInv == RuntimeTypeOK /\ HoldingOK

-----------------------------------------------------------------------------
LEMMA CurrentType ==
    ASSUME RuntimeTypeOK, NEW o \in Objects
    PROVE  Current(o) \in Contents
  BY DEF RuntimeTypeOK, Current

LEMMA RuntimeInitOK ==
    ASSUME RuntimeInit
    PROVE  RuntimeInv /\ (Alerted \/ (~kubevirt /\ \A o \in Objects : seen[o] = Absent))
<1>1. backlog \in [Objects -> Seq(Contents)]
  BY DEF RuntimeInit
<1>2. notify \subseteq Watched
  BY DEF RuntimeInit, InitialEvents, Watched
<1>3. RuntimeInv
  BY <1>1, <1>2 DEF RuntimeInit, RuntimeInv, RuntimeTypeOK, HoldingOK
<1>4. notify = {} => ~kubevirt /\ \A o \in Objects : seen[o] = Absent
  BY DEF RuntimeInit, InitialEvents
<1> QED
  BY <1>3, <1>4 DEF Alerted

(* A write changes the content of its object only, to what was written. *)
LEMMA ReviseOK ==
    ASSUME RuntimeInv, NEW o \in Objects, NEW c \in Contents,
           Revise(o, c), UNCHANGED seen
    PROVE  /\ backlog' \in [Objects -> Seq(Contents)]
           /\ backlog'[o] # <<>>
           /\ \A p \in Objects : backlog[p] # <<>> => backlog'[p] # <<>>
           /\ Current(o)' = c
           /\ \A p \in Objects \ {o} : Current(p)' = Current(p)
           /\ holding' \subseteq Objects \ {o} /\ holding' \subseteq holding
           /\ HoldingOK'
<1>1. backlog'[o] = Append(backlog[o], c) /\ backlog[o] \in Seq(Contents)
  BY DEF Revise, RuntimeInv, RuntimeTypeOK
<1>2. /\ Append(backlog[o], c) \in Seq(Contents)
      /\ Len(Append(backlog[o], c)) = Len(backlog[o]) + 1
      /\ Append(backlog[o], c)[Len(backlog[o]) + 1] = c
      /\ Append(backlog[o], c) # <<>>
  BY <1>1, AppendProperties
<1>3. \A p \in Objects \ {o} : backlog'[p] = backlog[p]
  BY DEF Revise, RuntimeInv, RuntimeTypeOK
<1>4. backlog' \in [Objects -> Seq(Contents)]
  BY <1>2 DEF Revise, RuntimeInv, RuntimeTypeOK
<1>5. Current(o)' = c
  BY <1>1, <1>2 DEF Current
<1>6. \A p \in Objects \ {o} : Current(p)' = Current(p)
  BY <1>3 DEF Current
<1>7. holding' = holding \ {o} /\ holding \subseteq Objects
  BY DEF Revise, RuntimeInv, RuntimeTypeOK
<1>8. HoldingOK'
  BY <1>3, <1>7 DEF HoldingOK, RuntimeInv
<1>9. \A p \in Objects : backlog[p] # <<>> => backlog'[p] # <<>>
  BY <1>1, <1>2, <1>3
<1> QED
  BY <1>1, <1>2, <1>4, <1>5, <1>6, <1>7, <1>8, <1>9

(* No call of an earlier process is added, and the object of an Update     *)
(* that is still valid is as it was.                                       *)
LateKept == \A w \in late' : /\ w \in late
                             /\ w.kind = "update" => Current(w.obj)' = Current(w.obj)

LEMMA WriteKeepsLate ==
    ASSUME RuntimeInv, NEW o \in Objects, NEW c \in Contents,
           Revise(o, c), UNCHANGED seen, late' \subseteq StillValid(late, o)
    PROVE  LateKept /\ \A w \in late' : CallOK(w)
<1>1. \A p \in Objects \ {o} : Current(p)' = Current(p)
  BY ReviseOK
<1>2. \A w \in late : CallOK(w)
  BY DEF RuntimeInv, RuntimeTypeOK
<1> QED
  BY <1>1, <1>2 DEF LateKept, StillValid, CallOK

(* What every step of the world guarantees a reconciler. *)
Guarantee ==
    /\ RuntimeInv'
    /\ LateKept
    /\ holding' \subseteq holding
    /\ \A o \in holding : seen'[o] = seen[o]
    /\ \/ Alerted'
       \/ /\ UNCHANGED <<seen, kubevirt, notify, queued, missed>>
          /\ \A o \in Objects : backlog[o] # <<>> => backlog'[o] # <<>>

LEMMA EditOK ==
    ASSUME RuntimeInv, NEW o \in Objects, NEW c \in Others[o], Edit(o, c)
    PROVE  Guarantee
<1>1. c \in Contents
  BY RuntimeAssumption
<1>2. /\ backlog' \in [Objects -> Seq(Contents)]
      /\ holding' \subseteq Objects /\ holding' \subseteq holding
      /\ \A p \in Objects : backlog[p] # <<>> => backlog'[p] # <<>>
      /\ HoldingOK'
  BY <1>1, ReviseOK DEF Edit
<1>3. LateKept /\ \A w \in late' : CallOK(w)
  BY <1>1, WriteKeepsLate DEF Edit
<1>4. UNCHANGED <<seen, kubevirt, notify, queued, missed, calm>>
  BY DEF Edit
<1> QED
  BY <1>2, <1>3, <1>4 DEF Guarantee, RuntimeInv, RuntimeTypeOK

LEMMA LandOK ==
    ASSUME RuntimeInv, NEW w \in late, Land(w)
    PROVE  Guarantee
<1>1. w.obj \in Objects /\ w.content \in Contents
  BY DEF RuntimeInv, RuntimeTypeOK, CallOK
<1>2. /\ backlog' \in [Objects -> Seq(Contents)]
      /\ holding' \subseteq Objects /\ holding' \subseteq holding
      /\ \A p \in Objects : backlog[p] # <<>> => backlog'[p] # <<>>
      /\ HoldingOK'
  BY <1>1, ReviseOK DEF Land
<1>3. StillValid(late \ {w}, w.obj) \subseteq StillValid(late, w.obj)
  BY DEF StillValid
<1>4. LateKept /\ \A v \in late' : CallOK(v)
  BY <1>1, <1>3, WriteKeepsLate DEF Land
<1>5. UNCHANGED <<seen, kubevirt, notify, queued, missed, calm>>
  BY DEF Land
<1> QED
  BY <1>2, <1>4, <1>5 DEF Guarantee, RuntimeInv, RuntimeTypeOK

LEMMA LastOfTail ==
    ASSUME NEW S, NEW s \in Seq(S), s # <<>>
    PROVE  s[Len(s)] = IF Tail(s) = <<>> THEN Head(s) ELSE Tail(s)[Len(Tail(s))]
<1>1. Len(s) \in Nat /\ Len(s) # 0
  BY EmptySeq, LenProperties
<1>2. Tail(s) \in Seq(S) /\ Len(Tail(s)) = Len(s) - 1 /\ Head(s) = s[1]
  BY HeadTailProperties
<1>3. \A i \in 1..(Len(s) - 1) : Tail(s)[i] = s[i + 1]
  BY HeadTailProperties
<1>4. CASE Len(s) = 1
  <2>1. Len(Tail(s)) = 0
    BY <1>2, <1>4
  <2>2. Tail(s) = <<>>
    BY <1>2, <2>1, EmptySeq
  <2> QED
    BY <1>2, <1>4, <2>2
<1>5. CASE Len(s) > 1
  <2>1. Tail(s) # <<>>
    <3>1. Len(Tail(s)) # 0
      BY <1>1, <1>2, <1>5
    <3> QED
      BY <3>1, EmptySeq
  <2>2. Tail(s)[Len(s) - 1] = s[Len(s)]
    BY <1>1, <1>3, <1>5
  <2> QED
    BY <1>2, <2>1, <2>2
<1> QED
  BY <1>1, <1>4, <1>5

(* The informer catching up changes nothing in the API server. *)
LEMMA InformerKeepsCurrent ==
    ASSUME RuntimeInv, NEW o \in Objects, Deliver(o) \/ Relist(o), NEW p \in Objects
    PROVE  Current(p)' = Current(p)
<1>1. CASE p # o
  BY <1>1 DEF Deliver, Relist, Current, RuntimeInv, RuntimeTypeOK
<1>2. CASE p = o /\ Relist(o)
  BY <1>2 DEF Relist, Current, RuntimeInv, RuntimeTypeOK
<1>3. CASE p = o /\ Deliver(o)
  <2>1. backlog[o] # <<>> /\ backlog[o] \in Seq(Contents)
    BY <1>3 DEF Deliver, RuntimeInv, RuntimeTypeOK
  <2>2. seen'[o] = Head(backlog[o]) /\ backlog'[o] = Tail(backlog[o])
    BY <1>3 DEF Deliver, RuntimeInv, RuntimeTypeOK
  <2>3. Current(o) = backlog[o][Len(backlog[o])]
    BY <2>1 DEF Current
  <2>4. Current(o)' = IF Tail(backlog[o]) = <<>> THEN Head(backlog[o])
                      ELSE Tail(backlog[o])[Len(Tail(backlog[o]))]
    BY <2>2 DEF Current
  <2> QED
    BY <1>3, <2>1, <2>3, <2>4, LastOfTail
<1> QED
  BY <1>1, <1>2, <1>3

LEMMA InformerOK ==
    ASSUME RuntimeInv, NEW o \in Objects, Deliver(o) \/ Relist(o)
    PROVE  Guarantee
<1>1. backlog[o] # <<>> /\ backlog[o] \in Seq(Contents)
  BY DEF RuntimeInv, RuntimeTypeOK, Deliver, Relist
<1>2. /\ Head(backlog[o]) \in Contents /\ Tail(backlog[o]) \in Seq(Contents)
      /\ Current(o) \in Contents
  BY <1>1, HeadTailProperties, CurrentType DEF RuntimeInv
<1>3. seen' \in [Objects -> Contents] /\ backlog' \in [Objects -> Seq(Contents)]
  <2>1. CASE Deliver(o)
    BY <1>2, <2>1 DEF Deliver, RuntimeInv, RuntimeTypeOK
  <2>2. CASE Relist(o)
    BY <1>2, <2>2 DEF Relist, RuntimeInv, RuntimeTypeOK
  <2> QED
    BY <2>1, <2>2
<1>4. notify' \subseteq Watched
  BY DEF Deliver, Relist, RuntimeInv, RuntimeTypeOK, Watched
<1>5. missed' \in BOOLEAN
  BY Zenon DEF Deliver, Relist, RuntimeInv, RuntimeTypeOK
<1>6. RuntimeTypeOK'
  BY <1>3, <1>4, <1>5 DEF Deliver, Relist, RuntimeInv, RuntimeTypeOK
<1>7. o \notin holding /\ holding' = holding /\ holding \subseteq Objects
  BY <1>1 DEF RuntimeInv, RuntimeTypeOK, HoldingOK, Deliver, Relist
<1>8. \A p \in Objects \ {o} : seen'[p] = seen[p] /\ backlog'[p] = backlog[p]
  BY DEF Deliver, Relist, RuntimeInv, RuntimeTypeOK
<1>9. HoldingOK' /\ \A p \in holding : seen'[p] = seen[p]
  BY <1>7, <1>8 DEF RuntimeInv, HoldingOK
<1>10. Alerted'
  BY DEF Alerted, Deliver, Relist
<1>11. late' = late /\ \A w \in late : w.obj \in Objects
  BY DEF Deliver, Relist, RuntimeInv, RuntimeTypeOK, CallOK
<1>12. LateKept
  BY <1>11, InformerKeepsCurrent DEF LateKept
<1> QED
  BY <1>6, <1>7, <1>9, <1>10, <1>12 DEF Guarantee, RuntimeInv

LEMMA EventOK ==
    ASSUME RuntimeInv,
           \/ EditKubeVirt
           \/ \E x \in Watched : Resync(x) \/ Dispatch(x)
           \/ CalmDown
    PROVE  Guarantee
<1>0. late' \subseteq late
  BY DEF EditKubeVirt, Resync, Dispatch, CalmDown
<1>1. UNCHANGED <<seen, backlog, holding, missed>>
  BY DEF EditKubeVirt, Resync, Dispatch, CalmDown, cacheVars
<1>2. notify' \subseteq Watched
  BY DEF EditKubeVirt, Resync, Dispatch, CalmDown, RuntimeInv, RuntimeTypeOK, Watched
<1>3. queued' \in BOOLEAN /\ kubevirt' \in BOOLEAN /\ calm' \in BOOLEAN
  BY Zenon DEF EditKubeVirt, Resync, Dispatch, CalmDown, RuntimeInv, RuntimeTypeOK
<1>4. RuntimeInv'
  BY <1>0, <1>1, <1>2, <1>3 DEF RuntimeInv, RuntimeTypeOK, HoldingOK
<1>5. Alerted' \/ UNCHANGED <<kubevirt, notify, queued>>
  BY DEF Alerted, EditKubeVirt, Resync, Dispatch, CalmDown
<1>6. LateKept
  BY <1>0, <1>1 DEF LateKept, Current
<1> QED
  BY <1>1, <1>4, <1>5, <1>6 DEF Guarantee

LEMMA WorldOK ==
    ASSUME RuntimeInv, World
    PROVE  Guarantee
  BY EditOK, LandOK, InformerOK, EventOK DEF World

(* A new process either hears of something or there is nothing to hear of; *)
(* the API server is as it was.                                            *)
LEMMA RuntimeRestartOK ==
    ASSUME RuntimeInv, NEW lagging \in SUBSET Objects, NEW underWay,
           \A w \in underWay : CallOK(w), RuntimeRestart(lagging, underWay)
    PROVE  /\ RuntimeInv'
           /\ Alerted' \/ (~kubevirt' /\ \A o \in Objects : seen'[o] = Absent)
           /\ \A o \in Objects : Current(o)' = Current(o)
<1>1. \A o \in Objects : Current(o) \in Contents
  BY CurrentType DEF RuntimeInv
<1>2. seen' \in [Objects -> Contents]
  BY <1>1 DEF RuntimeInv, RuntimeTypeOK, RuntimeRestart
<1>3. backlog' \in [Objects -> Seq(Contents)]
  BY DEF RuntimeInv, RuntimeTypeOK, RuntimeRestart
<1>4. notify' \subseteq Watched
  BY DEF RuntimeRestart, InitialEvents, Watched
<1>5. RuntimeInv'
  BY <1>2, <1>3, <1>4 DEF RuntimeInv, RuntimeTypeOK, HoldingOK, RuntimeRestart
<1>6. notify' = {} => ~kubevirt' /\ \A o \in Objects : seen'[o] = Absent
  BY DEF RuntimeRestart, InitialEvents
<1>7. \A o \in Objects : Current(o)' = Current(o)
  BY DEF RuntimeRestart, Current
<1> QED
  BY <1>5, <1>6, <1>7 DEF Alerted
=============================================================================
