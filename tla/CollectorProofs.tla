-------------------------- MODULE CollectorProofs --------------------------
(***************************************************************************)
(* What the collect functions report, for any object. The first part is    *)
(* about the operators on sequences and sets that they are built from:     *)
(* flattening, sequences of sets, sums; proofs by induction take the least *)
(* counterexample. The second says of each function which samples it       *)
(* gives, and that no two of them have the same metric and labels.         *)
(***************************************************************************)
EXTENDS VMICollector, VMStatsReports, FiniteSetTheorems, SequenceTheorems, TLAPS

(* A finite sequence of whatever elements. *)
IsSeq(s) == s \in Seq(ToSet(s))

-----------------------------------------------------------------------------
LEMMA LeastElement ==
    ASSUME NEW T, T \subseteq Nat, T # {}
    PROVE  \E m \in T : \A k \in T : m <= k
<1> DEFINE R == OpToRel(<, Nat)
<1>1. IsWellFoundedOn(R, Nat)
  BY NatLessThanWellFounded
<1>2. \A i, j \in Nat : i < j => <<i, j>> \in R
  BY DEF OpToRel
<1> HIDE DEF R
<1>3. PICK m \in T : \A k \in T : <<k, m>> \notin R
  BY <1>1, WFMin
<1>4. \A k \in T : k \in Nat /\ m \in Nat /\ ~(k < m)
  BY <1>2, <1>3
<1>5. \A k \in T : m <= k
  BY <1>4
<1> QED
  BY <1>5

-----------------------------------------------------------------------------
LEMMA SeqFacts ==
    ASSUME NEW s, IsSeq(s)
    PROVE  /\ Len(s) \in Nat
           /\ DOMAIN s = 1..Len(s)
           /\ s \in [1..Len(s) -> ToSet(s)]
BY LenProperties DEF IsSeq

LEMMA SeqIsSeq ==
    ASSUME NEW S, NEW s \in Seq(S)
    PROVE  IsSeq(s) /\ ToSet(s) \subseteq S
<1>1. Len(s) \in Nat /\ s \in [1..Len(s) -> S] /\ DOMAIN s = 1..Len(s)
  BY LenProperties
<1>2. s \in [1..Len(s) -> ToSet(s)]
  BY <1>1 DEF ToSet
<1>3. s \in Seq(ToSet(s))
  BY <1>1, <1>2, SeqDef
<1>4. ToSet(s) \subseteq S
  BY <1>1 DEF ToSet
<1> QED
  BY <1>3, <1>4 DEF IsSeq

LEMMA FunctionIsSeq ==
    ASSUME NEW n \in Nat, NEW s, s = [i \in 1..n |-> s[i]]
    PROVE  IsSeq(s) /\ Len(s) = n
<1>1. DOMAIN s = 1..n
  OBVIOUS
<1>2. s \in [1..n -> ToSet(s)]
  BY <1>1 DEF ToSet
<1>3. s \in Seq(ToSet(s))
  BY <1>2, SeqDef
<1>4. Len(s) \in Nat /\ DOMAIN s = 1..Len(s)
  BY <1>3, LenProperties
<1>5. Len(s) = n
  BY <1>1, <1>4
<1> QED
  BY <1>3, <1>5 DEF IsSeq

LEMMA EmptyIsSeq == IsSeq(<<>>) /\ ToSet(<<>>) = {} /\ Len(<<>>) = 0
<1>1. ToSet(<<>>) = {}
  BY DEF ToSet
<1> QED
  BY <1>1, EmptySeq DEF IsSeq

LEMMA OneIsSeq ==
    ASSUME NEW x
    PROVE  IsSeq(<<x>>) /\ ToSet(<<x>>) = {x} /\ Len(<<x>>) = 1 /\ <<x>>[1] = x
<1>1. Len(<<x>>) = 1 /\ <<x>>[1] = x /\ <<x>> \in Seq({x}) /\ DOMAIN <<x>> = 1..1
  OBVIOUS
<1>2. ToSet(<<x>>) = {x}
  BY <1>1 DEF ToSet
<1> QED
  BY <1>1, <1>2 DEF IsSeq

(* Concatenation: the elements of both, each at its own position. *)
LEMMA ConcatFacts ==
    ASSUME NEW s, NEW t, IsSeq(s), IsSeq(t)
    PROVE  /\ IsSeq(s \o t)
           /\ ToSet(s \o t) = ToSet(s) \cup ToSet(t)
           /\ Len(s \o t) = Len(s) + Len(t)
           /\ \A i \in 1..Len(s \o t) :
                 (s \o t)[i] = IF i <= Len(s) THEN s[i] ELSE t[i - Len(s)]
<1> DEFINE S == ToSet(s) \cup ToSet(t)
           u == s \o t
<1>1. s \in Seq(S) /\ t \in Seq(S)
  BY SeqMonotonic DEF IsSeq
<1>2. /\ Len(s) \in Nat /\ DOMAIN s = 1..Len(s)
      /\ Len(t) \in Nat /\ DOMAIN t = 1..Len(t)
  BY SeqFacts
<1>3. /\ u \in Seq(S)
      /\ Len(u) = Len(s) + Len(t)
      /\ \A i \in 1..Len(s) + Len(t) : u[i] = IF i <= Len(s) THEN s[i] ELSE t[i - Len(s)]
  BY <1>1, ConcatProperties
<1> HIDE DEF u
<1>4. IsSeq(u) /\ ToSet(u) \subseteq S
  BY <1>3, SeqIsSeq
<1>5. DOMAIN u = 1..Len(s) + Len(t)
  BY <1>3, <1>4, SeqFacts
<1>6. ASSUME NEW x \in ToSet(s) PROVE x \in ToSet(u)
  <2>1. PICK i \in 1..Len(s) : x = s[i]
    BY <1>2 DEF ToSet
  <2>2. i \in DOMAIN u /\ u[i] = x
    BY <1>2, <1>3, <1>5, <2>1
  <2> QED
    BY <2>2 DEF ToSet
<1>7. ASSUME NEW x \in ToSet(t) PROVE x \in ToSet(u)
  <2>1. PICK i \in 1..Len(t) : x = t[i]
    BY <1>2 DEF ToSet
  <2>2. i + Len(s) \in 1..Len(s) + Len(t) /\ ~(i + Len(s) <= Len(s)) /\ i + Len(s) - Len(s) = i
    BY <1>2
  <2>3. i + Len(s) \in DOMAIN u /\ u[i + Len(s)] = x
    BY <1>3, <1>5, <2>1, <2>2
  <2> QED
    BY <2>3 DEF ToSet
<1> QED
  BY <1>3, <1>4, <1>6, <1>7 DEF u

(* What is left of a sequence without repetitions after its head. *)
LEMMA TailFacts ==
    ASSUME NEW s, IsSeq(s), s # <<>>
    PROVE  /\ IsSeq(Tail(s))
           /\ Head(s) \in ToSet(s)
           /\ ToSet(Tail(s)) \subseteq ToSet(s)
           /\ ToSet(s) = {Head(s)} \cup ToSet(Tail(s))
           /\ IsInjective(s) => IsInjective(Tail(s)) /\ Head(s) \notin ToSet(Tail(s))
<1> DEFINE t == Tail(s)
<1>1. s \in Seq(ToSet(s))
  BY DEF IsSeq
<1>2. /\ Head(s) \in ToSet(s)
      /\ t \in Seq(ToSet(s))
      /\ Len(t) = Len(s) - 1
      /\ \A i \in 1..Len(t) : t[i] = s[i + 1]
  BY <1>1, HeadTailProperties
<1>3. Len(s) \in Nat \ {0} /\ DOMAIN s = 1..Len(s) /\ Head(s) = s[1]
  BY <1>1, EmptySeq, LenProperties
<1> HIDE DEF t
<1>4. IsSeq(t) /\ ToSet(t) \subseteq ToSet(s) /\ DOMAIN t = 1..Len(t)
  BY <1>2, SeqIsSeq, SeqFacts
<1>5. ToSet(s) \subseteq {Head(s)} \cup ToSet(t)
  <2> SUFFICES ASSUME NEW i \in 1..Len(s), i # 1
               PROVE  s[i] \in ToSet(t)
    BY <1>3 DEF ToSet
  <2>1. i - 1 \in 1..Len(t) /\ t[i - 1] = s[i]
    BY <1>2, <1>3
  <2> QED
    BY <1>4, <2>1 DEF ToSet
<1>6. ASSUME IsInjective(s) PROVE IsInjective(t)
  <2> SUFFICES ASSUME NEW i \in 1..Len(t), NEW j \in 1..Len(t), t[i] = t[j]
               PROVE  i = j
    BY <1>4 DEF IsInjective
  <2>1. i + 1 \in DOMAIN s /\ j + 1 \in DOMAIN s /\ s[i + 1] = s[j + 1]
    BY <1>2, <1>3
  <2>2. i + 1 = j + 1
    BY <1>6, <2>1 DEF IsInjective
  <2> QED
    BY <2>2
<1>7. ASSUME IsInjective(s), Head(s) \in ToSet(t) PROVE FALSE
  <2>1. PICK i \in 1..Len(t) : t[i] = s[1]
    BY <1>3, <1>4, <1>7 DEF ToSet
  <2>2. i + 1 \in DOMAIN s /\ 1 \in DOMAIN s /\ s[i + 1] = s[1] /\ i + 1 # 1
    BY <1>2, <1>3, <2>1
  <2> QED
    BY <1>7, <2>2 DEF IsInjective
<1> QED
  BY <1>2, <1>4, <1>5, <1>6, <1>7 DEF t

-----------------------------------------------------------------------------
(* FlattenSeq. *)
AllSeqs(s) == IsSeq(s) /\ \A i \in DOMAIN s : IsSeq(s[i])

(* Any two positions of f hold elements of two different places among the  *)
(* first n sequences of s.                                                 *)
Places(f, s, n) ==
    \A k, l \in DOMAIN f : k # l =>
        \E i, j \in 1..n : \E a \in DOMAIN s[i], b \in DOMAIN s[j] :
            /\ f[k] = s[i][a] /\ f[l] = s[j][b]
            /\ i # j \/ a # b

LEMMA FlattenExists ==
    ASSUME NEW s, NEW n \in Nat
    PROVE  \E g : g = [i \in 1..n |-> IF i = 1 THEN s[i] ELSE g[i - 1] \o s[i]]
<1> DEFINE P(m) == \E g : g = [i \in 1..m |-> IF i = 1 THEN s[i] ELSE g[i - 1] \o s[i]]
           T == {m \in Nat : ~P(m)}
<1>1. P(0)
  <2>1. [i \in 1..0 |-> 0] = [i \in 1..0 |-> IF i = 1 THEN s[i] ELSE [j \in 1..0 |-> 0][i - 1] \o s[i]]
    OBVIOUS
  <2> QED
    BY <2>1
<1>2. ASSUME NEW m \in Nat, P(m) PROVE P(m + 1)
  <2>1. PICK g : g = [i \in 1..m |-> IF i = 1 THEN s[i] ELSE g[i - 1] \o s[i]]
    BY <1>2
  <2> DEFINE h == [i \in 1..(m + 1) |-> IF i \in 1..m THEN g[i]
                                        ELSE IF i = 1 THEN s[i] ELSE g[i - 1] \o s[i]]
  <2>2. ASSUME NEW i \in 1..(m + 1) PROVE h[i] = IF i = 1 THEN s[i] ELSE h[i - 1] \o s[i]
    <3>1. CASE i = 1
      BY <2>1, <3>1
    <3>2. CASE i # 1
      <4>1. i - 1 \in 1..m /\ i - 1 \in 1..(m + 1)
        BY <3>2
      <4>2. h[i - 1] = g[i - 1]
        BY <4>1
      <4>3. h[i] = g[i - 1] \o s[i]
        BY <2>1, <3>2, <4>1
      <4> QED
        BY <3>2, <4>2, <4>3
    <3> QED
      BY <3>1, <3>2
  <2>3. h = [i \in 1..(m + 1) |-> h[i]]
    OBVIOUS
  <2> HIDE DEF h
  <2>4. h = [i \in 1..(m + 1) |-> IF i = 1 THEN s[i] ELSE h[i - 1] \o s[i]]
    BY <2>2, <2>3
  <2> QED
    BY <2>4
<1> HIDE DEF P
<1>3. T = {}
  <2> SUFFICES ASSUME T # {} PROVE FALSE
    OBVIOUS
  <2>1. PICK m \in T : \A k \in T : m <= k
    BY LeastElement
  <2>2. m - 1 \in Nat /\ m - 1 \notin T
    BY <1>1, <2>1
  <2>3. P(m)
    BY <1>2, <2>1, <2>2
  <2> QED
    BY <2>1, <2>3
<1>4. P(n)
  BY <1>3
<1> QED
  BY <1>4 DEF P

(* The elements of a flattened sequence are those of its parts, each place *)
(* of a part at a position of its own.                                     *)
LEMMA FlattenFacts ==
    ASSUME NEW s, AllSeqs(s)
    PROVE  /\ IsSeq(FlattenSeq(s))
           /\ ToSet(FlattenSeq(s)) = UNION {ToSet(s[i]) : i \in DOMAIN s}
           /\ Places(FlattenSeq(s), s, Len(s))
<1>1. Len(s) \in Nat /\ DOMAIN s = 1..Len(s) /\ \A i \in 1..Len(s) : IsSeq(s[i])
  BY SeqFacts DEF AllSeqs
<1>2. CASE Len(s) = 0
  <2>1. FlattenSeq(s) = s
    BY <1>2 DEF FlattenSeq
  <2>2. DOMAIN s = {}
    BY <1>1, <1>2
  <2>3. Places(s, s, Len(s)) /\ ToSet(s) = {} /\ UNION {ToSet(s[i]) : i \in DOMAIN s} = {}
    BY <2>2 DEF Places, ToSet
  <2> QED
    BY <2>1, <2>3 DEF AllSeqs
<1>3. CASE Len(s) # 0
  <2> DEFINE F == CHOOSE g : g = [i \in 1..Len(s) |-> IF i = 1 THEN s[i] ELSE g[i - 1] \o s[i]]
  <2>1. FlattenSeq(s) = F[Len(s)]
    BY <1>3 DEF FlattenSeq
  <2>2. F = [i \in 1..Len(s) |-> IF i = 1 THEN s[i] ELSE F[i - 1] \o s[i]]
    BY <1>1, FlattenExists
  <2> HIDE DEF F
  <2> DEFINE P(n) == /\ IsSeq(F[n])
                     /\ ToSet(F[n]) = UNION {ToSet(s[i]) : i \in 1..n}
                     /\ Places(F[n], s, n)
             T == {n \in 1..Len(s) : ~P(n)}
  <2>3. P(1)
    <3>1. F[1] = s[1]
      BY <1>1, <1>3, <2>2
    <3>2. IsSeq(s[1]) /\ DOMAIN s[1] = 1..Len(s[1])
      BY <1>1, <1>3, SeqFacts
    <3>3. Places(s[1], s, 1)
      <4>1. 1 \in 1..1
        OBVIOUS
      <4> QED
        BY <4>1 DEF Places
    <3>4. UNION {ToSet(s[i]) : i \in 1..1} = ToSet(s[1])
      OBVIOUS
    <3> QED
      BY <3>1, <3>2, <3>3, <3>4
  <2>4. ASSUME NEW n \in 1..Len(s), n + 1 \in 1..Len(s), P(n)
        PROVE  P(n + 1)
    <3> DEFINE l == F[n]
               r == s[n + 1]
               f == F[n + 1]
    <3>1. f = l \o r
      <4>1. n + 1 # 1 /\ (n + 1) - 1 = n
        BY <1>1
      <4> QED
        BY <2>2, <2>4, <4>1
    <3>2. IsSeq(l) /\ IsSeq(r)
      BY <1>1, <2>4
    <3> HIDE DEF l, r, f
    <3>3. /\ IsSeq(f)
          /\ ToSet(f) = ToSet(l) \cup ToSet(r)
          /\ Len(f) = Len(l) + Len(r)
          /\ \A i \in 1..Len(f) : f[i] = IF i <= Len(l) THEN l[i] ELSE r[i - Len(l)]
      BY <3>1, <3>2, ConcatFacts
    <3>4. ToSet(f) = UNION {ToSet(s[i]) : i \in 1..(n + 1)}
      <4>1. ToSet(l) = UNION {ToSet(s[i]) : i \in 1..n}
        BY <2>4 DEF l
      <4>2. ToSet(r) = ToSet(s[n + 1])
        BY DEF r
      <4>3. \A i : i \in 1..(n + 1) <=> i \in 1..n \/ i = n + 1
        OBVIOUS
      <4> QED
        BY <3>3, <4>1, <4>2, <4>3
    <3>5. /\ Len(l) \in Nat /\ DOMAIN l = 1..Len(l)
          /\ Len(r) \in Nat /\ DOMAIN r = 1..Len(r)
          /\ DOMAIN f = 1..(Len(l) + Len(r))
      BY <3>2, <3>3, SeqFacts
    <3>6. \A k \in DOMAIN l : f[k] = l[k] /\ \E i \in 1..n : \E a \in DOMAIN s[i] : f[k] = s[i][a]
      <4> SUFFICES ASSUME NEW k \in DOMAIN l
                   PROVE  f[k] = l[k] /\ \E i \in 1..n : \E a \in DOMAIN s[i] : f[k] = s[i][a]
        OBVIOUS
      <4>1. f[k] = l[k]
        BY <3>3, <3>5
      <4>2. l[k] \in UNION {ToSet(s[i]) : i \in 1..n}
        BY <2>4 DEF ToSet, l
      <4> QED
        BY <4>1, <4>2 DEF ToSet
    <3>7. \A k \in DOMAIN f \ DOMAIN l : k - Len(l) \in DOMAIN r /\ f[k] = r[k - Len(l)]
      BY <3>3, <3>5
    <3>8. Places(f, s, n + 1)
      <4> SUFFICES ASSUME NEW k \in DOMAIN f, NEW m \in DOMAIN f, k # m
                   PROVE  \E i, j \in 1..(n + 1) : \E a \in DOMAIN s[i], b \in DOMAIN s[j] :
                              /\ f[k] = s[i][a] /\ f[m] = s[j][b]
                              /\ i # j \/ a # b
        BY DEF Places
      <4>1. CASE k \in DOMAIN l /\ m \in DOMAIN l
        <5>1. PICK i, j \in 1..n : \E a \in DOMAIN s[i], b \in DOMAIN s[j] :
                  l[k] = s[i][a] /\ l[m] = s[j][b] /\ (i # j \/ a # b)
          BY <2>4, <4>1 DEF Places, l
        <5>2. i \in 1..(n + 1) /\ j \in 1..(n + 1)
          OBVIOUS
        <5>3. f[k] = l[k] /\ f[m] = l[m]
          BY <3>6, <4>1
        <5> QED
          BY <5>1, <5>2, <5>3
      <4>2. CASE k \in DOMAIN l /\ m \notin DOMAIN l
        <5>1. PICK i \in 1..n : \E a \in DOMAIN s[i] : f[k] = s[i][a]
          BY <3>6, <4>2
        <5>2. i \in 1..(n + 1) /\ n + 1 \in 1..(n + 1) /\ i # n + 1
          OBVIOUS
        <5>3. m - Len(l) \in DOMAIN s[n + 1] /\ f[m] = s[n + 1][m - Len(l)]
          BY <3>7, <4>2 DEF r
        <5> QED
          BY <5>1, <5>2, <5>3
      <4>3. CASE k \notin DOMAIN l /\ m \in DOMAIN l
        <5>1. PICK i \in 1..n : \E a \in DOMAIN s[i] : f[m] = s[i][a]
          BY <3>6, <4>3
        <5>2. i \in 1..(n + 1) /\ n + 1 \in 1..(n + 1) /\ i # n + 1
          OBVIOUS
        <5>3. k - Len(l) \in DOMAIN s[n + 1] /\ f[k] = s[n + 1][k - Len(l)]
          BY <3>7, <4>3 DEF r
        <5> QED
          BY <5>1, <5>2, <5>3
      <4>4. CASE k \notin DOMAIN l /\ m \notin DOMAIN l
        <5>1. k - Len(l) \in DOMAIN s[n + 1] /\ f[k] = s[n + 1][k - Len(l)]
          BY <3>7, <4>4 DEF r
        <5>2. m - Len(l) \in DOMAIN s[n + 1] /\ f[m] = s[n + 1][m - Len(l)]
          BY <3>7, <4>4 DEF r
        <5>3. n + 1 \in 1..(n + 1) /\ k - Len(l) # m - Len(l)
          BY <3>5
        <5> QED
          BY <5>1, <5>2, <5>3
      <4> QED
        BY <4>1, <4>2, <4>3, <4>4
    <3> QED
      BY <3>3, <3>4, <3>8 DEF f
  <2> HIDE DEF P
  <2>5. T = {}
    <3> SUFFICES ASSUME T # {} PROVE FALSE
      OBVIOUS
    <3>1. T \subseteq Nat
      BY <1>1
    <3>2. PICK n \in T : \A k \in T : n <= k
      BY <3>1, LeastElement
    <3>3. n - 1 \in 1..Len(s) /\ n - 1 \notin T /\ (n - 1) + 1 = n
      BY <1>1, <2>3, <3>2
    <3>4. P(n)
      BY <2>4, <3>2, <3>3
    <3> QED
      BY <3>2, <3>4
  <2>6. P(Len(s))
    BY <1>1, <1>3, <2>5
  <2> QED
    BY <1>1, <2>1, <2>6 DEF P
<1> QED
  BY <1>2, <1>3

-----------------------------------------------------------------------------
(* A set as a sequence: each element once. *)
LEMMA SetToSeqFacts ==
    ASSUME NEW S, IsFiniteSet(S)
    PROVE  /\ IsSeq(SetToSeq(S))
           /\ ToSet(SetToSeq(S)) = S
           /\ IsInjective(SetToSeq(S))
           /\ Len(SetToSeq(S)) = Cardinality(S)
<1> DEFINE n == Cardinality(S)
           q == SetToSeq(S)
<1>1. n \in Nat /\ ExistsBijection(1..n, S)
  BY FS_CardinalityType
<1>2. \E f \in [1..n -> S] : IsInjective(f)
  BY <1>1 DEF ExistsBijection, Bijection, Injection
<1>3. q \in [1..n -> S] /\ IsInjective(q)
  BY <1>2 DEF SetToSeq
<1> HIDE DEF q
<1>4. q = [i \in 1..n |-> q[i]] /\ DOMAIN q = 1..n
  BY <1>3
<1>5. IsSeq(q) /\ Len(q) = n
  BY <1>1, <1>4, FunctionIsSeq
<1>6. q \in Injection(1..n, S)
  BY <1>3 DEF Injection
<1>7. IsFiniteSet(1..n) /\ Cardinality(1..n) = n
  BY <1>1, FS_Interval
<1>8. q \in Surjection(1..n, S)
  BY <1>6, <1>7, FS_Injection
<1>9. ToSet(q) = S
  BY <1>3, <1>4, <1>8 DEF Surjection, ToSet
<1> QED
  BY <1>3, <1>5, <1>9 DEF q

(* A sequence without repetitions has as many elements as positions. *)
LEMMA InjectiveCount ==
    ASSUME NEW s, IsSeq(s), IsInjective(s)
    PROVE  IsFiniteSet(ToSet(s)) /\ Cardinality(ToSet(s)) = Len(s)
<1>1. Len(s) \in Nat /\ DOMAIN s = 1..Len(s) /\ s \in [1..Len(s) -> ToSet(s)]
  BY SeqFacts
<1>2. s \in Bijection(1..Len(s), ToSet(s))
  BY <1>1 DEF Bijection, Injection, Surjection, ToSet
<1>3. ExistsBijection(1..Len(s), ToSet(s))
  BY <1>2 DEF ExistsBijection
<1> QED
  BY <1>1, <1>3, FS_NatBijection, FS_CountingElements

-----------------------------------------------------------------------------
(* Sums over finite sets: g[U] is the sum of the weights w of U. *)
Chosen(s) == CHOOSE x \in s : TRUE
IsSum(g, w, S) == g = [s \in SUBSET S |-> IF s = {} THEN 0 ELSE w[Chosen(s)] + g[s \ {Chosen(s)}]]

LEMMA PickFacts ==
    ASSUME NEW S, IsFiniteSet(S), NEW s \in SUBSET S, s # {}
    PROVE  /\ Chosen(s) \in s
           /\ IsFiniteSet(s) /\ Cardinality(s) \in Nat
           /\ s \ {Chosen(s)} \in SUBSET S
           /\ Cardinality(s \ {Chosen(s)}) = Cardinality(s) - 1
<1>1. Chosen(s) \in s
  BY DEF Chosen
<1>2. IsFiniteSet(s)
  BY FS_Subset
<1> QED
  BY <1>1, <1>2, FS_CardinalityType, FS_RemoveElement

LEMMA SumExists ==
    ASSUME NEW w, NEW S, IsFiniteSet(S)
    PROVE  \E g : IsSum(g, w, S)
<1> DEFINE Sub(n) == {s \in SUBSET S : Cardinality(s) <= n}
           P(n) == \E g : g = [s \in Sub(n) |-> IF s = {} THEN 0 ELSE w[Chosen(s)] + g[s \ {Chosen(s)}]]
           T == {n \in Nat : ~P(n)}
<1>1. \A s \in SUBSET S : Cardinality(s) \in Nat /\ (Cardinality(s) = 0 <=> s = {})
  BY FS_Subset, FS_CardinalityType, FS_EmptySet
<1>2. P(0)
  <2> DEFINE g == [s \in Sub(0) |-> 0]
  <2>1. \A s \in Sub(0) : s = {}
    BY <1>1
  <2>2. g = [s \in Sub(0) |-> IF s = {} THEN 0 ELSE w[Chosen(s)] + g[s \ {Chosen(s)}]]
    BY <2>1
  <2> QED
    BY <2>2
<1>3. ASSUME NEW n \in Nat, P(n) PROVE P(n + 1)
  <2>1. PICK g : g = [s \in Sub(n) |-> IF s = {} THEN 0 ELSE w[Chosen(s)] + g[s \ {Chosen(s)}]]
    BY <1>3
  <2> DEFINE h == [s \in Sub(n + 1) |-> IF s = {} THEN 0 ELSE w[Chosen(s)] + g[s \ {Chosen(s)}]]
  <2>2. ASSUME NEW s \in Sub(n + 1), s # {}
        PROVE  h[s] = w[Chosen(s)] + h[s \ {Chosen(s)}]
    <3> DEFINE r == s \ {Chosen(s)}
    <3>1. r \in SUBSET S /\ Cardinality(r) = Cardinality(s) - 1 /\ Cardinality(s) \in Nat
      BY <2>2, PickFacts
    <3>2. r \in Sub(n) /\ r \in Sub(n + 1)
      BY <3>1
    <3>3. h[r] = g[r]
      BY <2>1, <3>2
    <3>4. h[s] = w[Chosen(s)] + g[r]
      BY <2>2
    <3> QED
      BY <3>3, <3>4
  <2>3. h = [s \in Sub(n + 1) |-> h[s]] /\ \A s \in Sub(n + 1) : s = {} => h[s] = 0
    OBVIOUS
  <2> HIDE DEF h
  <2>4. h = [s \in Sub(n + 1) |-> IF s = {} THEN 0 ELSE w[Chosen(s)] + h[s \ {Chosen(s)}]]
    BY <2>2, <2>3
  <2> QED
    BY <2>4
<1> HIDE DEF P
<1>4. T = {}
  <2> SUFFICES ASSUME T # {} PROVE FALSE
    OBVIOUS
  <2>1. PICK m \in T : \A k \in T : m <= k
    BY LeastElement
  <2>2. m - 1 \in Nat /\ m - 1 \notin T /\ (m - 1) + 1 = m
    BY <1>2, <2>1
  <2>3. P(m)
    BY <1>3, <2>1, <2>2
  <2> QED
    BY <2>1, <2>3
<1>5. Cardinality(S) \in Nat /\ Sub(Cardinality(S)) = SUBSET S
  BY <1>1, FS_Subset, FS_CardinalityType
<1>6. P(Cardinality(S))
  BY <1>4, <1>5
<1> QED
  BY <1>5, <1>6 DEF P, IsSum

LEMMA SumUnique ==
    ASSUME NEW S, NEW T, IsFiniteSet(S), IsFiniteSet(T),
           NEW g, NEW w, IsSum(g, w, S), NEW h, NEW v, IsSum(h, v, T),
           NEW U, U \subseteq S, U \subseteq T, \A e \in U : w[e] = v[e]
    PROVE  g[U] = h[U]
<1> DEFINE Bad == {V \in SUBSET U : g[V] # h[V]}
           N == {Cardinality(V) : V \in Bad}
<1> SUFFICES ASSUME Bad # {} PROVE FALSE
  OBVIOUS
<1>1. IsFiniteSet(U)
  BY FS_Subset
<1>2. N \subseteq Nat /\ N # {}
  BY <1>1, FS_Subset, FS_CardinalityType
<1>3. PICK m \in N : \A k \in N : m <= k
  BY <1>2, LeastElement
<1>4. PICK V \in Bad : Cardinality(V) = m /\ \A W \in Bad : Cardinality(V) <= Cardinality(W)
  BY <1>3
<1>5. V # {}
  BY <1>4 DEF IsSum
<1> DEFINE p == Chosen(V)
<1>6. p \in V /\ Cardinality(V) \in Nat /\ V \ {p} \in SUBSET U /\ Cardinality(V \ {p}) = Cardinality(V) - 1
  BY <1>1, <1>5, PickFacts
<1>7. g[V \ {p}] = h[V \ {p}]
  BY <1>4, <1>6
<1>8. g[V] = w[p] + g[V \ {p}] /\ h[V] = v[p] + h[V \ {p}]
  BY <1>5 DEF IsSum
<1> QED
  BY <1>6, <1>7, <1>8

LEMMA SumRemove ==
    ASSUME NEW S, IsFiniteSet(S), NEW g, NEW w, IsSum(g, w, S), \A e \in S : w[e] \in Int
    PROVE  \A U \in SUBSET S : g[U] \in Int /\ \A x \in U : g[U] = w[x] + g[U \ {x}]
<1> DEFINE OK(U) == g[U] \in Int /\ \A x \in U : g[U] = w[x] + g[U \ {x}]
           Bad == {V \in SUBSET S : ~OK(V)}
           N == {Cardinality(V) : V \in Bad}
<1> SUFFICES ASSUME Bad # {} PROVE FALSE
  OBVIOUS
<1>1. N \subseteq Nat /\ N # {}
  BY FS_Subset, FS_CardinalityType
<1>2. PICK m \in N : \A k \in N : m <= k
  BY <1>1, LeastElement
<1>3. PICK V \in Bad : Cardinality(V) = m /\ \A W \in Bad : Cardinality(V) <= Cardinality(W)
  BY <1>2
<1>4. V # {}
  <2>1. g[{}] = 0
    BY DEF IsSum
  <2>2. OK({})
    BY <2>1
  <2> QED
    BY <1>3, <2>2
<1> DEFINE p == Chosen(V)
<1>5. p \in V /\ Cardinality(V) \in Nat /\ IsFiniteSet(V)
  BY <1>4, PickFacts
<1> HIDE DEF OK
<1>6. ASSUME NEW W \in SUBSET V, W # V PROVE OK(W)
  <2>1. Cardinality(W) \in Nat /\ Cardinality(W) <= Cardinality(V) /\ Cardinality(W) # Cardinality(V)
    BY <1>5, <1>6, FS_Subset, FS_CardinalityType
  <2>2. W \in SUBSET S /\ W \notin Bad
    BY <1>3, <1>5, <2>1
  <2> QED
    BY <2>2
<1>7. g[V] = w[p] + g[V \ {p}]
  BY <1>4 DEF IsSum
<1> DEFINE q == V \ {p}
<1>8. g[V] \in Int
  <2>1. OK(q)
    BY <1>5, <1>6
  <2> QED
    BY <1>5, <1>7, <2>1 DEF OK
<1>9. ASSUME NEW x \in V, x # p PROVE g[V] = w[x] + g[V \ {x}]
  <2> DEFINE u == V \ {x}
             r == q \ {x}
  <2>1. r = u \ {p} /\ x \in q /\ p \in u /\ q # V /\ u # V /\ r # V
    BY <1>5, <1>9
  <2>2. OK(q) /\ OK(u) /\ OK(r)
    BY <1>6, <2>1
  <2> HIDE DEF q, u, r
  <2>3. g[q] = w[x] + g[q \ {x}] /\ g[u] = w[p] + g[u \ {p}] /\ g[r] \in Int
    BY <2>1, <2>2 DEF OK
  <2>4. q \ {x} = r /\ w[x] \in Int /\ w[p] \in Int /\ g[V] = w[p] + g[q]
    BY <1>5, <1>7 DEF q, r
  <2>5. g[q] = w[x] + g[r] /\ g[u] = w[p] + g[r]
    BY <2>1, <2>3, <2>4
  <2> HIDE DEF p
  <2>6. g[V] = w[x] + g[u]
    BY <2>3, <2>4, <2>5
  <2> QED
    BY <2>6 DEF u
<1>10. OK(V)
  BY <1>7, <1>8, <1>9 DEF OK
<1> QED
  BY <1>3, <1>10

(* The sum of the values of a set of records. *)
LEMMA ValueSumFacts ==
    ASSUME NEW S, IsFiniteSet(S), \A e \in S : e.value \in Int
    PROVE  /\ MapThenSumSet(LAMBDA e : e.value, S) \in Int
           /\ MapThenSumSet(LAMBDA e : e.value, {}) = 0
           /\ \A x \in S : MapThenSumSet(LAMBDA e : e.value, S)
                             = x.value + MapThenSumSet(LAMBDA e : e.value, S \ {x})
<1> DEFINE w == [e \in S |-> e.value]
           Rec(g, U) == g = [s \in SUBSET U |-> IF s = {} THEN 0
                                                ELSE (CHOOSE x \in s : TRUE).value
                                                       + g[s \ {CHOOSE x \in s : TRUE}]]
           G(U) == CHOOSE g : Rec(g, U)
<1>1. \A U : MapThenSumSet(LAMBDA e : e.value, U) = G(U)[U]
  BY DEF MapThenSumSet, MapThenFoldSet
<1>2. \A U \in SUBSET S : \A g : Rec(g, U) <=> IsSum(g, w, U)
  <2> SUFFICES ASSUME NEW U \in SUBSET S, NEW g PROVE Rec(g, U) <=> IsSum(g, w, U)
    OBVIOUS
  <2>1. \A s \in SUBSET U : s # {} => w[Chosen(s)] = (CHOOSE x \in s : TRUE).value
    BY DEF Chosen
  <2>2. [s \in SUBSET U |-> IF s = {} THEN 0 ELSE (CHOOSE x \in s : TRUE).value + g[s \ {CHOOSE x \in s : TRUE}]]
        = [s \in SUBSET U |-> IF s = {} THEN 0 ELSE w[Chosen(s)] + g[s \ {Chosen(s)}]]
    BY <2>1 DEF Chosen
  <2> QED
    BY <2>2 DEF IsSum
<1>3. \A U \in SUBSET S : IsSum(G(U), w, U)
  <2> SUFFICES ASSUME NEW U \in SUBSET S PROVE IsSum(G(U), w, U)
    OBVIOUS
  <2>1. \E g : IsSum(g, w, U)
    BY FS_Subset, SumExists
  <2> HIDE DEF Rec, w
  <2>2. \E g : Rec(g, U)
    BY <1>2, <2>1
  <2>3. Rec(G(U), U)
    BY <2>2
  <2> QED
    BY <1>2, <2>3
<1>4. \A e \in S : w[e] \in Int /\ w[e] = e.value
  OBVIOUS
<1> HIDE DEF w, G
<1>5. G(S)[S] \in Int /\ \A x \in S : G(S)[S] = w[x] + G(S)[S \ {x}]
  BY <1>3, <1>4, SumRemove
<1>6. \A x \in S : G(S)[S \ {x}] = G(S \ {x})[S \ {x}]
  <2> SUFFICES ASSUME NEW x \in S PROVE G(S)[S \ {x}] = G(S \ {x})[S \ {x}]
    OBVIOUS
  <2>1. IsFiniteSet(S \ {x})
    BY FS_RemoveElement
  <2>2. IsSum(G(S), w, S) /\ IsSum(G(S \ {x}), w, S \ {x})
    BY <1>3
  <2> QED
    BY <2>1, <2>2, SumUnique
<1>7. G({})[{}] = 0
  <2>1. IsSum(G({}), w, {})
    BY <1>3
  <2> QED
    BY <2>1 DEF IsSum
<1> QED
  BY <1>1, <1>4, <1>5, <1>6, <1>7

-----------------------------------------------------------------------------
(* Samples a collector may return: well-formed, and no two of them have    *)
(* the same metric and labels.                                             *)
IsSample(x) == DOMAIN x = {"metric", "labels", "value"}
Good(s) ==
    /\ IsSeq(s)
    /\ \A x \in ToSet(s) : IsSample(x)
    /\ \A i, j \in DOMAIN s : Id(s[i]) = Id(s[j]) => i = j
Apart(s, t) == \A x \in ToSet(s), y \in ToSet(t) : Id(x) # Id(y)

LEMMA SampleFacts ==
    ASSUME NEW m, NEW l, NEW v
    PROVE  /\ IsSample(Sample(m, l, v))
           /\ Sample(m, l, v).metric = m /\ Sample(m, l, v).labels = l
           /\ Sample(m, l, v).value = v
BY DEF Sample, IsSample

LEMMA IdFacts ==
    ASSUME NEW x, NEW y, Id(x) = Id(y)
    PROVE  x.metric = y.metric /\ x.labels = y.labels
BY DEF Id

LEMMA GoodEmpty == Good(<<>>) /\ ToSet(<<>>) = {}
<1>1. DOMAIN <<>> = 1..0
  BY EmptyIsSeq, SeqFacts
<1> QED
  BY <1>1, EmptyIsSeq DEF Good

LEMMA GoodOne ==
    ASSUME NEW m, NEW l, NEW v
    PROVE  /\ Good(<<Sample(m, l, v)>>)
           /\ ToSet(<<Sample(m, l, v)>>) = {Sample(m, l, v)}
<1> DEFINE x == Sample(m, l, v)
<1>1. IsSeq(<<x>>) /\ ToSet(<<x>>) = {x} /\ Len(<<x>>) = 1
  BY OneIsSeq
<1>2. DOMAIN <<x>> = 1..1
  BY <1>1, SeqFacts
<1>3. IsSample(x)
  BY SampleFacts
<1> QED
  BY <1>1, <1>2, <1>3 DEF Good

LEMMA GoodSingle ==
    ASSUME NEW x, IsSample(x)
    PROVE  Good(<<x>>) /\ ToSet(<<x>>) = {x}
<1>1. IsSeq(<<x>>) /\ ToSet(<<x>>) = {x} /\ Len(<<x>>) = 1
  BY OneIsSeq
<1>2. DOMAIN <<x>> = 1..1
  BY <1>1, SeqFacts
<1> QED
  BY <1>1, <1>2 DEF Good

LEMMA PairIsConcat ==
    ASSUME NEW a, NEW b
    PROVE  <<a, b>> = <<a>> \o <<b>>
<1> DEFINE s == <<a>>
           t == <<b>>
           u == s \o t
<1>1. IsSeq(s) /\ IsSeq(t) /\ Len(s) = 1 /\ Len(t) = 1 /\ s[1] = a /\ t[1] = b
  BY OneIsSeq
<1> HIDE DEF s, t
<1>7. IsSeq(u) /\ Len(u) = Len(s) + Len(t)
      /\ \A i \in 1..Len(u) : u[i] = IF i <= Len(s) THEN s[i] ELSE t[i - Len(s)]
  BY <1>1, ConcatFacts
<1> HIDE DEF u
<1>2. IsSeq(u) /\ Len(u) = 2
      /\ \A i \in 1..Len(u) : u[i] = IF i <= Len(s) THEN s[i] ELSE t[i - Len(s)]
  BY <1>1, <1>7
<1>3. u[1] = a /\ u[2] = b
  BY <1>1, <1>2
<1>4. u \in [1..2 -> ToSet(u)]
  BY <1>2, SeqFacts
<1>5. u = [i \in 1..2 |-> u[i]]
  BY <1>4
<1>6. u = <<a, b>>
  BY <1>3, <1>5
<1> QED
  BY <1>6 DEF u, s, t

LEMMA GoodConcat ==
    ASSUME NEW s, NEW t, Good(s), Good(t), Apart(s, t)
    PROVE  Good(s \o t) /\ ToSet(s \o t) = ToSet(s) \cup ToSet(t)
<1> DEFINE u == s \o t
<1>1. IsSeq(s) /\ IsSeq(t)
  BY DEF Good
<1>2. IsSeq(u) /\ ToSet(u) = ToSet(s) \cup ToSet(t) /\ Len(u) = Len(s) + Len(t)
      /\ \A i \in 1..Len(u) : u[i] = IF i <= Len(s) THEN s[i] ELSE t[i - Len(s)]
  BY <1>1, ConcatFacts
<1>3. /\ Len(s) \in Nat /\ DOMAIN s = 1..Len(s)
      /\ Len(t) \in Nat /\ DOMAIN t = 1..Len(t)
      /\ Len(u) \in Nat /\ DOMAIN u = 1..Len(u)
  BY <1>1, <1>2, SeqFacts
<1> HIDE DEF u
<1>4. ASSUME NEW i \in DOMAIN u, NEW j \in DOMAIN u, Id(u[i]) = Id(u[j])
      PROVE  i = j
  <2>1. CASE i <= Len(s) /\ j <= Len(s)
    <3>1. i \in DOMAIN s /\ j \in DOMAIN s /\ u[i] = s[i] /\ u[j] = s[j]
      BY <1>2, <1>3, <2>1
    <3> QED
      BY <1>4, <3>1 DEF Good
  <2>2. CASE i > Len(s) /\ j > Len(s)
    <3>1. /\ i - Len(s) \in DOMAIN t /\ j - Len(s) \in DOMAIN t
          /\ u[i] = t[i - Len(s)] /\ u[j] = t[j - Len(s)]
      BY <1>2, <1>3, <2>2
    <3>2. i - Len(s) = j - Len(s)
      BY <1>4, <3>1 DEF Good
    <3> QED
      BY <1>3, <3>2
  <2>3. CASE i <= Len(s) /\ j > Len(s)
    <3>1. i \in DOMAIN s /\ j - Len(s) \in DOMAIN t /\ u[i] = s[i] /\ u[j] = t[j - Len(s)]
      BY <1>2, <1>3, <2>3
    <3>2. u[i] \in ToSet(s) /\ u[j] \in ToSet(t)
      BY <3>1 DEF ToSet
    <3> QED
      BY <1>4, <3>2 DEF Apart
  <2>4. CASE i > Len(s) /\ j <= Len(s)
    <3>1. j \in DOMAIN s /\ i - Len(s) \in DOMAIN t /\ u[j] = s[j] /\ u[i] = t[i - Len(s)]
      BY <1>2, <1>3, <2>4
    <3>2. u[j] \in ToSet(s) /\ u[i] \in ToSet(t)
      BY <3>1 DEF ToSet
    <3> QED
      BY <1>4, <3>2 DEF Apart
  <2> QED
    BY <1>3, <2>1, <2>2, <2>3, <2>4
<1>5. \A x \in ToSet(u) : IsSample(x)
  BY <1>2 DEF Good
<1> QED
  BY <1>2, <1>4, <1>5 DEF Good, u

LEMMA GoodFlatten ==
    ASSUME NEW s, IsSeq(s), \A i \in DOMAIN s : Good(s[i]),
           \A i, j \in DOMAIN s : i # j => Apart(s[i], s[j])
    PROVE  Good(FlattenSeq(s)) /\ ToSet(FlattenSeq(s)) = UNION {ToSet(s[i]) : i \in DOMAIN s}
<1> DEFINE f == FlattenSeq(s)
<1>1. AllSeqs(s)
  BY DEF AllSeqs, Good
<1>2. IsSeq(f) /\ ToSet(f) = UNION {ToSet(s[i]) : i \in DOMAIN s} /\ Places(f, s, Len(s))
  BY <1>1, FlattenFacts
<1>3. Len(s) \in Nat /\ DOMAIN s = 1..Len(s)
  BY SeqFacts
<1> HIDE DEF f
<1>4. ASSUME NEW k \in DOMAIN f, NEW m \in DOMAIN f, k # m
      PROVE  Id(f[k]) # Id(f[m])
  <2>1. PICK i, j \in DOMAIN s : \E a \in DOMAIN s[i], b \in DOMAIN s[j] :
            f[k] = s[i][a] /\ f[m] = s[j][b] /\ (i # j \/ a # b)
    BY <1>2, <1>3, <1>4 DEF Places
  <2>2. PICK a \in DOMAIN s[i], b \in DOMAIN s[j] :
            f[k] = s[i][a] /\ f[m] = s[j][b] /\ (i # j \/ a # b)
    BY <2>1
  <2>3. CASE i = j
    BY <2>2, <2>3 DEF Good
  <2>4. CASE i # j
    <3>1. f[k] \in ToSet(s[i]) /\ f[m] \in ToSet(s[j]) /\ Apart(s[i], s[j])
      BY <2>2, <2>4 DEF ToSet
    <3> QED
      BY <3>1 DEF Apart
  <2> QED
    BY <2>3, <2>4
<1>5. \A x \in ToSet(f) : IsSample(x)
  BY <1>2 DEF Good
<1> QED
  BY <1>2, <1>4, <1>5 DEF Good, f

(* The registry counts as many pairs of metric and labels as samples. *)
LEMMA GoodCount ==
    ASSUME NEW s, Good(s)
    PROVE  Len(s) \in Nat /\ Cardinality({Id(x) : x \in ToSet(s)}) = Len(s)
<1> DEFINE t == [i \in 1..Len(s) |-> Id(s[i])]
<1>1. Len(s) \in Nat /\ DOMAIN s = 1..Len(s)
  BY SeqFacts DEF Good
<1>2. IsSeq(t) /\ Len(t) = Len(s)
  BY <1>1, FunctionIsSeq
<1>3. IsInjective(t)
  BY <1>1 DEF Good, IsInjective
<1>4. ToSet(t) = {Id(x) : x \in ToSet(s)}
  BY <1>1 DEF ToSet
<1> QED
  BY <1>1, <1>2, <1>3, <1>4, InjectiveCount

LEMMA MapIsSeq ==
    ASSUME NEW s, IsSeq(s), NEW f, f = [i \in DOMAIN s |-> f[i]]
    PROVE  IsSeq(f) /\ DOMAIN f = DOMAIN s
<1>1. Len(s) \in Nat /\ DOMAIN s = 1..Len(s)
  BY SeqFacts
<1> QED
  BY <1>1, FunctionIsSeq

(* f has the sample g[i] for each i in C and nothing else. *)
OneEach(f, C, g) ==
    /\ IsSeq(f)
    /\ C \subseteq DOMAIN f
    /\ \A i \in C : f[i] = <<g[i]>> /\ IsSample(g[i])
    /\ \A i \in DOMAIN f \ C : f[i] = <<>>
    /\ \A i, j \in C : Id(g[i]) = Id(g[j]) => i = j

LEMMA OnePerElement ==
    ASSUME NEW f, NEW C, NEW g, OneEach(f, C, g)
    PROVE  Good(FlattenSeq(f)) /\ \A x : x \in ToSet(FlattenSeq(f)) <=> \E i \in C : x = g[i]
<1> USE DEF OneEach
<1>1. ASSUME NEW i \in C PROVE Good(f[i]) /\ ToSet(f[i]) = {g[i]}
  <2> DEFINE x == g[i]
  <2>1. f[i] = <<x>> /\ IsSample(x)
    OBVIOUS
  <2> HIDE DEF x
  <2>2. IsSeq(<<x>>) /\ ToSet(<<x>>) = {x} /\ Len(<<x>>) = 1
    BY OneIsSeq
  <2>3. DOMAIN <<x>> = 1..1
    BY <2>2, SeqFacts
  <2>4. Good(<<x>>)
    BY <2>1, <2>2, <2>3 DEF Good
  <2> QED
    BY <2>1, <2>2, <2>4 DEF x
<1>2. \A i \in DOMAIN f \ C : Good(f[i]) /\ ToSet(f[i]) = {}
  BY GoodEmpty
<1>3. \A i \in DOMAIN f : Good(f[i])
  BY <1>1, <1>2
<1>4. ASSUME NEW i \in DOMAIN f, NEW j \in DOMAIN f, i # j PROVE Apart(f[i], f[j])
  <2>1. \A x \in ToSet(f[i]) : i \in C /\ x = g[i]
    BY <1>1, <1>2
  <2>2. \A x \in ToSet(f[j]) : j \in C /\ x = g[j]
    BY <1>1, <1>2
  <2> QED
    BY <1>4, <2>1, <2>2 DEF Apart
<1>5. Good(FlattenSeq(f)) /\ ToSet(FlattenSeq(f)) = UNION {ToSet(f[i]) : i \in DOMAIN f}
  BY <1>3, <1>4, GoodFlatten
<1>6. \A i \in DOMAIN f : \A x \in ToSet(f[i]) : i \in C /\ x = g[i]
  BY <1>1, <1>2
<1>7. \A i \in C : i \in DOMAIN f /\ g[i] \in ToSet(f[i])
  BY <1>1
<1> QED
  BY <1>5, <1>6, <1>7

(* Samples of these metrics, of this object. *)
From(s, metrics, key) ==
    \A x \in ToSet(s) : x.metric \in metrics /\ x.labels.key = key /\ "base" \notin DOMAIN x.labels

LEMMA ApartByMetric ==
    ASSUME NEW s, NEW t, NEW M, NEW N, NEW k, NEW q,
           From(s, M, k), From(t, N, q), M \cap N = {}
    PROVE  Apart(s, t)
BY IdFacts DEF From, Apart

LEMMA FromConcat ==
    ASSUME NEW s, NEW t, NEW M, NEW N, NEW k,
           From(s, M, k), From(t, N, k), ToSet(s \o t) = ToSet(s) \cup ToSet(t)
    PROVE  From(s \o t, M \cup N, k)
BY DEF From

LEMMA ConcatByMetric ==
    ASSUME NEW s, NEW t, NEW M, NEW N, NEW k,
           Good(s), Good(t), From(s, M, k), From(t, N, k), M \cap N = {}
    PROVE  /\ Good(s \o t)
           /\ ToSet(s \o t) = ToSet(s) \cup ToSet(t)
           /\ From(s \o t, M \cup N, k)
<1>1. Apart(s, t)
  BY ApartByMetric
<1>2. Good(s \o t) /\ ToSet(s \o t) = ToSet(s) \cup ToSet(t)
  BY <1>1, GoodConcat
<1> QED
  BY <1>2, FromConcat

LEMMA ValueFacts == \A opt : opt # {} => Value(opt) \in opt
BY DEF Value

-----------------------------------------------------------------------------
(* Requests and limits of a VM. *)
LEMMA RequestIds ==
    /\ \A k, r, u, s, v, q, b, c, d, w :
          Id(Request(k, r, u, s, v)) = Id(Request(q, b, c, d, w)) => r = b /\ u = c /\ s = d
    /\ \A k, r, u, v, q, b, c, w : Id(Limit(k, r, u, v)) = Id(Limit(q, b, c, w)) => r = b
    /\ \A k, r, u, s, v, q, b, c, w : Id(Request(k, r, u, s, v)) # Id(Limit(q, b, c, w))
BY DEF Request, Limit, Sample, Id

LEMMA RequestLabels ==
    /\ \A k, r, u, s, v :
          /\ Request(k, r, u, s, v).metric = "kubevirt_vm_resource_requests"
          /\ Request(k, r, u, s, v).labels.key = k
          /\ "base" \notin DOMAIN Request(k, r, u, s, v).labels
          /\ Request(k, r, u, s, v).labels.resource = r
          /\ Request(k, r, u, s, v).labels.unit = u
          /\ Request(k, r, u, s, v).labels.source = s
          /\ Request(k, r, u, s, v).value = v
    /\ \A k, r, u, v :
          /\ Limit(k, r, u, v).metric = "kubevirt_vm_resource_limits"
          /\ Limit(k, r, u, v).labels.key = k
          /\ "base" \notin DOMAIN Limit(k, r, u, v).labels
          /\ Limit(k, r, u, v).labels.resource = r
          /\ Limit(k, r, u, v).labels.unit = u
          /\ Limit(k, r, u, v).value = v
BY DEF Request, Limit, Sample

Given(c, x) == IF c THEN {x} ELSE {}

LEMMA RequestWhen ==
    ASSUME NEW k, NEW r, NEW u, NEW s, NEW q
    PROVE  LET x == Request(k, r, u, s, Value(q)) IN
           /\ Good(When(~IsZero(q), <<x>>)) /\ ToSet(When(~IsZero(q), <<x>>)) = Given(~IsZero(q), x)
           /\ Good(When(q # {}, <<x>>)) /\ ToSet(When(q # {}, <<x>>)) = Given(q # {}, x)
<1> DEFINE x == Request(k, r, u, s, Value(q))
<1>1. Good(<<x>>) /\ ToSet(<<x>>) = {x}
  BY GoodOne DEF Request
<1> HIDE DEF x
<1>2. Good(When(~IsZero(q), <<x>>)) /\ ToSet(When(~IsZero(q), <<x>>)) = Given(~IsZero(q), x)
  <2>1. CASE IsZero(q)
    BY <2>1, GoodEmpty DEF When, Given
  <2>2. CASE ~IsZero(q)
    BY <1>1, <2>2 DEF When, Given
  <2> QED
    BY <2>1, <2>2
<1>3. Good(When(q # {}, <<x>>)) /\ ToSet(When(q # {}, <<x>>)) = Given(q # {}, x)
  <2>1. CASE q = {}
    BY <2>1, GoodEmpty DEF When, Given
  <2>2. CASE q # {}
    BY <1>1, <2>2 DEF When, Given
  <2> QED
    BY <2>1, <2>2
<1> QED
  BY <1>2, <1>3 DEF x

LEMMA LimitWhen ==
    ASSUME NEW k, NEW r, NEW u, NEW q
    PROVE  LET x == Limit(k, r, u, Value(q)) IN
           Good(When(~IsZero(q), <<x>>)) /\ ToSet(When(~IsZero(q), <<x>>)) = Given(~IsZero(q), x)
<1> DEFINE x == Limit(k, r, u, Value(q))
<1>1. Good(<<x>>) /\ ToSet(<<x>>) = {x}
  BY GoodOne DEF Limit
<1> HIDE DEF x
<1>2. CASE IsZero(q)
  BY <1>2, GoodEmpty DEF When, Given, x
<1>3. CASE ~IsZero(q)
  BY <1>1, <1>3 DEF When, Given, x
<1> QED
  BY <1>2, <1>3

MemorySamples(k, t) ==
    LET request(source, q) == Given(~IsZero(q), Request(k, "memory", "bytes", source, Value(q)))
    IN  UNION {request("domain", t.memoryRequest),
               request("guest", t.guest),
               Given(t.hugepages # {}, Request(k, "memory", "bytes", "hugepages", Value(t.hugepages))),
               Given(~IsZero(t.memoryLimit), Limit(k, "memory", "bytes", Value(t.memoryLimit))),
               request("guest_effective", GetVirtualMemory(t))}

LEMMA MemoryReported ==
    ASSUME NEW k, NEW t
    PROVE  /\ Good(collectMemory(k, t))
           /\ ToSet(collectMemory(k, t)) = MemorySamples(k, t)
<1> DEFINE R(source, q) == Request(k, "memory", "bytes", source, Value(q))
           r(source, q) == When(~IsZero(q), <<R(source, q)>>)
           r1 == r("domain", t.memoryRequest)
           r2 == r("guest", t.guest)
           r3 == When(t.hugepages # {}, <<R("hugepages", t.hugepages)>>)
           r4 == When(~IsZero(t.memoryLimit), <<Limit(k, "memory", "bytes", Value(t.memoryLimit))>>)
           r5 == r("guest_effective", GetVirtualMemory(t))
<1>1. collectMemory(k, t) = r1 \o r2 \o r3 \o r4 \o r5
  <2>1. Maybe(t.hugepages, LAMBDA q : <<Request(k, "memory", "bytes", "hugepages", q)>>) = r3
    BY DEF Maybe, When
  <2> QED
    BY <2>1 DEF collectMemory
<1>2. /\ Good(r1) /\ ToSet(r1) = Given(~IsZero(t.memoryRequest), R("domain", t.memoryRequest))
      /\ Good(r2) /\ ToSet(r2) = Given(~IsZero(t.guest), R("guest", t.guest))
      /\ Good(r3) /\ ToSet(r3) = Given(t.hugepages # {}, R("hugepages", t.hugepages))
  BY RequestWhen, LimitWhen
<1>3. /\ Good(r4) /\ ToSet(r4) = Given(~IsZero(t.memoryLimit), Limit(k, "memory", "bytes", Value(t.memoryLimit)))
      /\ Good(r5) /\ ToSet(r5) = Given(~IsZero(GetVirtualMemory(t)), R("guest_effective", GetVirtualMemory(t)))
  BY RequestWhen, LimitWhen
<1> HIDE DEF r1, r2, r3, r4, r5
<1>4. Good(r1 \o r2) /\ ToSet(r1 \o r2) = ToSet(r1) \cup ToSet(r2)
  <2>1. Apart(r1, r2)
    BY <1>2, RequestIds DEF Apart, Given
  <2> QED
    BY <1>2, <2>1, GoodConcat
<1>5. Good(r1 \o r2 \o r3) /\ ToSet(r1 \o r2 \o r3) = ToSet(r1) \cup ToSet(r2) \cup ToSet(r3)
  <2>1. Apart(r1 \o r2, r3)
    BY <1>2, <1>4, RequestIds DEF Apart, Given
  <2> QED
    BY <1>2, <1>4, <2>1, GoodConcat
<1>6. /\ Good(r1 \o r2 \o r3 \o r4)
      /\ ToSet(r1 \o r2 \o r3 \o r4) = ToSet(r1) \cup ToSet(r2) \cup ToSet(r3) \cup ToSet(r4)
  <2>1. Apart(r1 \o r2 \o r3, r4)
    BY <1>2, <1>3, <1>5, RequestIds DEF Apart, Given
  <2> QED
    BY <1>3, <1>5, <2>1, GoodConcat
<1>7. /\ Good(r1 \o r2 \o r3 \o r4 \o r5)
      /\ ToSet(r1 \o r2 \o r3 \o r4 \o r5)
           = ToSet(r1) \cup ToSet(r2) \cup ToSet(r3) \cup ToSet(r4) \cup ToSet(r5)
  <2>1. Apart(r1 \o r2 \o r3 \o r4, r5)
    BY <1>2, <1>3, <1>6, RequestIds DEF Apart, Given
  <2> QED
    BY <1>3, <1>6, <2>1, GoodConcat
<1>8. MemorySamples(k, t) = ToSet(r1) \cup ToSet(r2) \cup ToSet(r3) \cup ToSet(r4) \cup ToSet(r5)
  BY <1>2, <1>3 DEF MemorySamples
<1> QED
  BY <1>1, <1>7, <1>8

Units == {"cores", "threads", "sockets"}

LEMMA UnitsListed ==
    LET units == <<"cores", "threads", "sockets">> IN
    /\ IsSeq(units) /\ DOMAIN units = 1..3 /\ ToSet(units) = Units
    /\ \A i \in 1..3 : units[i] \in Units
    /\ \A u \in Units : \E i \in 1..3 : units[i] = u
    /\ \A i, j \in 1..3 : units[i] = units[j] => i = j
<1> DEFINE units == <<"cores", "threads", "sockets">>
<1>1. units \in Seq(Units) /\ DOMAIN units = 1..3 /\ \A i \in 1..3 : units[i] \in Units
  BY DEF Units
<1>2. /\ \A u \in Units : \E i \in 1..3 : units[i] = u
      /\ \A i, j \in 1..3 : units[i] = units[j] => i = j
  <2>1. units[1] = "cores" /\ units[2] = "threads" /\ units[3] = "sockets"
    OBVIOUS
  <2>2. 1 \in 1..3 /\ 2 \in 1..3 /\ 3 \in 1..3 /\ \A i \in 1..3 : i = 1 \/ i = 2 \/ i = 3
    OBVIOUS
  <2> HIDE DEF units
  <2> QED
    BY <2>1, <2>2 DEF Units
<1>3. IsSeq(units)
  BY <1>1, SeqIsSeq
<1> HIDE DEF units
<1>4. ToSet(units) = Units
  BY <1>1, <1>2 DEF ToSet
<1> QED
  BY <1>1, <1>2, <1>3, <1>4 DEF units

DomainSamples(k, t) ==
    {Request(k, "cpu", u, "domain", Value(t.cpu)[u]) : u \in {v \in Units : t.cpu # {} /\ Value(t.cpu)[v] # 0}}
DefaultSamples(k) == {Request(k, "cpu", u, "default", 1) : u \in Units}

LEMMA DomainReported ==
    ASSUME NEW k, NEW t
    PROVE  LET domain(u) == When(t.cpu # {} /\ Value(t.cpu)[u] # 0,
                                 <<Request(k, "cpu", u, "domain", Value(t.cpu)[u])>>)
               s == ForAll(<<"cores", "threads", "sockets">>, domain)
           IN  Good(s) /\ ToSet(s) = DomainSamples(k, t)
<1> DEFINE units == <<"cores", "threads", "sockets">>
           R(u) == Request(k, "cpu", u, "domain", Value(t.cpu)[u])
           C == {i \in DOMAIN units : t.cpu # {} /\ Value(t.cpu)[units[i]] # 0}
           f == [i \in DOMAIN units |-> When(t.cpu # {} /\ Value(t.cpu)[units[i]] # 0, <<R(units[i])>>)]
           g == [i \in C |-> R(units[i])]
<1>1. \A u, v : IsSample(R(u)) /\ (Id(R(u)) = Id(R(v)) => u = v)
  BY RequestIds, SampleFacts DEF Request
<1> HIDE DEF units, R
<1>2. \A i \in C : f[i] = <<g[i]>> /\ IsSample(g[i])
  BY <1>1 DEF When
<1>3. \A i \in DOMAIN units \ C : f[i] = <<>>
  BY DEF When
<1>4. \A i, j \in C : Id(g[i]) = Id(g[j]) => i = j
  BY <1>1, UnitsListed DEF units
<1>5. IsSeq(f) /\ DOMAIN f = DOMAIN units /\ C \subseteq DOMAIN f
  BY UnitsListed, MapIsSeq DEF units
<1>6. {g[i] : i \in C} = {R(u) : u \in {v \in Units : t.cpu # {} /\ Value(t.cpu)[v] # 0}}
  <2>1. \A i \in C : g[i] = R(units[i]) /\ units[i] \in Units
    BY UnitsListed DEF units
  <2>2. \A u \in Units : \E i \in DOMAIN units : units[i] = u
    BY UnitsListed DEF units
  <2> QED
    BY <2>1, <2>2
<1> HIDE DEF f, g, C
<1>7. Good(FlattenSeq(f)) /\ \A x : x \in ToSet(FlattenSeq(f)) <=> \E i \in C : x = g[i]
  <2>1. OneEach(f, C, g)
    BY <1>2, <1>3, <1>4, <1>5 DEF OneEach
  <2> QED
    BY <2>1, OnePerElement
<1> QED
  BY <1>6, <1>7 DEF ForAll, DomainSamples, f, units, R

LEMMA DefaultReported ==
    ASSUME NEW k
    PROVE  LET default(u) == <<Request(k, "cpu", u, "default", 1)>>
               s == ForAll(<<"cores", "threads", "sockets">>, default)
           IN  Good(s) /\ ToSet(s) = DefaultSamples(k)
<1> DEFINE units == <<"cores", "threads", "sockets">>
           R(u) == Request(k, "cpu", u, "default", 1)
           f == [i \in DOMAIN units |-> <<R(units[i])>>]
           g == [i \in DOMAIN units |-> R(units[i])]
<1>1. \A u, v : IsSample(R(u)) /\ (Id(R(u)) = Id(R(v)) => u = v)
  BY RequestIds, SampleFacts DEF Request
<1> HIDE DEF units, R
<1>2. \A i \in DOMAIN units : f[i] = <<g[i]>> /\ IsSample(g[i])
  BY <1>1
<1>3. \A i, j \in DOMAIN units : Id(g[i]) = Id(g[j]) => i = j
  BY <1>1, UnitsListed DEF units
<1>4. IsSeq(f) /\ DOMAIN f = DOMAIN units
  BY UnitsListed, MapIsSeq DEF units
<1>5. {g[i] : i \in DOMAIN units} = {R(u) : u \in Units}
  BY UnitsListed DEF units
<1> HIDE DEF f, g
<1>6. Good(FlattenSeq(f)) /\ \A x : x \in ToSet(FlattenSeq(f)) <=> \E i \in DOMAIN units : x = g[i]
  <2>1. OneEach(f, DOMAIN units, g)
    BY <1>2, <1>3, <1>4 DEF OneEach
  <2> QED
    BY <2>1, OnePerElement
<1> QED
  BY <1>5, <1>6 DEF ForAll, DefaultSamples, f, units, R

CPUSamples(k, t) ==
    UNION {DomainSamples(k, t),
           Given(~IsZero(t.cpuRequest), Request(k, "cpu", "cores", "requests", Value(t.cpuRequest))),
           IF IsZero(t.cpuRequest) /\ t.cpu = {} THEN DefaultSamples(k) ELSE {},
           Given(~IsZero(t.cpuLimit), Limit(k, "cpu", "cores", Value(t.cpuLimit))),
           {Request(k, "cpu", "cores", "guest_effective",
                    IF t.cpu = {} THEN 1 ELSE GetNumberOfVCPUs(t.cpu))}}

LEMMA CPUReported ==
    ASSUME NEW k, NEW t
    PROVE  /\ Good(collectCPU(k, t))
           /\ ToSet(collectCPU(k, t)) = CPUSamples(k, t)
<1> DEFINE units == <<"cores", "threads", "sockets">>
           domain(u) == When(t.cpu # {} /\ Value(t.cpu)[u] # 0,
                             <<Request(k, "cpu", u, "domain", Value(t.cpu)[u])>>)
           default(u) == <<Request(k, "cpu", u, "default", 1)>>
           E == Request(k, "cpu", "cores", "guest_effective",
                        IF t.cpu = {} THEN 1 ELSE GetNumberOfVCPUs(t.cpu))
           r1 == ForAll(units, domain)
           r2 == When(~IsZero(t.cpuRequest), <<Request(k, "cpu", "cores", "requests", Value(t.cpuRequest))>>)
           r3 == When(IsZero(t.cpuRequest) /\ t.cpu = {}, ForAll(units, default))
           r4 == When(~IsZero(t.cpuLimit), <<Limit(k, "cpu", "cores", Value(t.cpuLimit))>>)
           r5 == <<E>>
<1>1. collectCPU(k, t) = r1 \o r2 \o r3 \o r4 \o r5
  BY DEF collectCPU
<1>2. Good(r1) /\ ToSet(r1) = DomainSamples(k, t)
  BY DomainReported
<1>3. /\ Good(r2) /\ ToSet(r2) = Given(~IsZero(t.cpuRequest),
                                       Request(k, "cpu", "cores", "requests", Value(t.cpuRequest)))
      /\ Good(r4) /\ ToSet(r4) = Given(~IsZero(t.cpuLimit), Limit(k, "cpu", "cores", Value(t.cpuLimit)))
  BY RequestWhen, LimitWhen
<1>4. Good(r3) /\ ToSet(r3) = IF IsZero(t.cpuRequest) /\ t.cpu = {} THEN DefaultSamples(k) ELSE {}
  <2>1. CASE IsZero(t.cpuRequest) /\ t.cpu = {}
    <3>1. r3 = ForAll(units, default)
      BY <2>1 DEF When
    <3>2. Good(ForAll(units, default)) /\ ToSet(ForAll(units, default)) = DefaultSamples(k)
      BY DefaultReported
    <3> HIDE DEF r3, units, default
    <3> QED
      BY <2>1, <3>1, <3>2
  <2>2. CASE ~(IsZero(t.cpuRequest) /\ t.cpu = {})
    <3>1. r3 = <<>>
      BY <2>2 DEF When
    <3> QED
      BY <2>2, <3>1, GoodEmpty
  <2> QED
    BY <2>1, <2>2
<1>5. Good(r5) /\ ToSet(r5) = {E}
  BY GoodOne DEF Request
<1>7. CPUSamples(k, t) = ToSet(r1) \cup ToSet(r2) \cup ToSet(r3) \cup ToSet(r4) \cup ToSet(r5)
  BY <1>2, <1>3, <1>4, <1>5 DEF CPUSamples
<1> HIDE DEF r1, r2, r3, r4, r5, E
<1>6. /\ \A x \in ToSet(r1) : \E u, v : x = Request(k, "cpu", u, "domain", v)
      /\ \A x \in ToSet(r2) : \E u, v : x = Request(k, "cpu", u, "requests", v)
      /\ \A x \in ToSet(r3) : \E u, v : x = Request(k, "cpu", u, "default", v)
      /\ \A x \in ToSet(r4) : \E v : x = Limit(k, "cpu", "cores", v)
      /\ \A x \in ToSet(r5) : \E u, v : x = Request(k, "cpu", u, "guest_effective", v)
  <2>1. \A x \in ToSet(r1) : \E u, v : x = Request(k, "cpu", u, "domain", v)
    BY <1>2 DEF DomainSamples
  <2>2. \A x \in ToSet(r2) : \E u, v : x = Request(k, "cpu", u, "requests", v)
    BY <1>3 DEF Given
  <2>3. \A x \in ToSet(r3) : \E u, v : x = Request(k, "cpu", u, "default", v)
    BY <1>4 DEF DefaultSamples
  <2>4. \A x \in ToSet(r4) : \E v : x = Limit(k, "cpu", "cores", v)
    BY <1>3 DEF Given
  <2>5. \A x \in ToSet(r5) : \E u, v : x = Request(k, "cpu", u, "guest_effective", v)
    BY <1>5 DEF E
  <2> QED
    BY <2>1, <2>2, <2>3, <2>4, <2>5
<1>8. Good(r1 \o r2) /\ ToSet(r1 \o r2) = ToSet(r1) \cup ToSet(r2)
  <2>1. Apart(r1, r2)
    BY <1>6, RequestIds DEF Apart
  <2> QED
    BY <1>2, <1>3, <2>1, GoodConcat
<1>9. Good(r1 \o r2 \o r3) /\ ToSet(r1 \o r2 \o r3) = ToSet(r1) \cup ToSet(r2) \cup ToSet(r3)
  <2>1. Apart(r1 \o r2, r3)
    BY <1>6, <1>8, RequestIds DEF Apart
  <2> QED
    BY <1>4, <1>8, <2>1, GoodConcat
<1>10. /\ Good(r1 \o r2 \o r3 \o r4)
       /\ ToSet(r1 \o r2 \o r3 \o r4) = ToSet(r1) \cup ToSet(r2) \cup ToSet(r3) \cup ToSet(r4)
  <2>1. Apart(r1 \o r2 \o r3, r4)
    BY <1>6, <1>9, RequestIds DEF Apart
  <2> QED
    BY <1>3, <1>9, <2>1, GoodConcat
<1>11. /\ Good(r1 \o r2 \o r3 \o r4 \o r5)
       /\ ToSet(r1 \o r2 \o r3 \o r4 \o r5)
            = ToSet(r1) \cup ToSet(r2) \cup ToSet(r3) \cup ToSet(r4) \cup ToSet(r5)
  <2>1. Apart(r1 \o r2 \o r3 \o r4, r5)
    BY <1>6, <1>10, RequestIds DEF Apart
  <2> QED
    BY <1>5, <1>10, <2>1, GoodConcat
<1> QED
  BY <1>1, <1>7, <1>11

(* What a VM with template t reports of its resources. *)
ResourceMetrics == {"kubevirt_vm_resource_requests", "kubevirt_vm_resource_limits"}

LEMMA ResourcesReported ==
    ASSUME NEW k, NEW o
    PROVE  LET s == CollectResourceRequestsAndLimits(k, o) IN
           /\ Good(s)
           /\ From(s, ResourceMetrics, k)
           /\ o.template = {} => ToSet(s) = {}
           /\ o.template # {} => ToSet(s) = MemorySamples(k, Value(o.template))
                                              \cup CPUSamples(k, Value(o.template))
<1> DEFINE t == Value(o.template)
           m == collectMemory(k, t)
           c == collectCPU(k, t)
<1>1. CASE o.template = {}
  <2>1. CollectResourceRequestsAndLimits(k, o) = <<>>
    BY <1>1 DEF CollectResourceRequestsAndLimits, Maybe
  <2> QED
    BY <1>1, <2>1, GoodEmpty DEF From
<1>2. CASE o.template # {}
  <2>1. CollectResourceRequestsAndLimits(k, o) = m \o c
    BY <1>2 DEF CollectResourceRequestsAndLimits, Maybe
  <2>2. Good(m) /\ ToSet(m) = MemorySamples(k, t) /\ Good(c) /\ ToSet(c) = CPUSamples(k, t)
    BY MemoryReported, CPUReported
  <2>3. \A x \in MemorySamples(k, t) : \/ \E u, s, v : x = Request(k, "memory", u, s, v)
                                       \/ \E v : x = Limit(k, "memory", "bytes", v)
    BY DEF MemorySamples, Given
  <2>4. \A x \in CPUSamples(k, t) : \/ \E u, s, v : x = Request(k, "cpu", u, s, v)
                                    \/ \E v : x = Limit(k, "cpu", "cores", v)
    BY DEF CPUSamples, Given, DomainSamples, DefaultSamples
  <2> HIDE DEF m, c, t
  <2>5. Apart(m, c)
    BY <2>2, <2>3, <2>4, RequestIds DEF Apart
  <2>6. Good(m \o c) /\ ToSet(m \o c) = ToSet(m) \cup ToSet(c)
    BY <2>2, <2>5, GoodConcat
  <2>7. From(m \o c, ResourceMetrics, k)
    BY <2>2, <2>3, <2>4, <2>6, RequestLabels DEF From, ResourceMetrics
  <2> QED
    BY <1>2, <2>1, <2>2, <2>6, <2>7 DEF t
<1> QED
  BY <1>1, <1>2

-----------------------------------------------------------------------------
(* Status timestamps. *)
LEMMA GroupsListed ==
    /\ Groups = {"starting", "running", "migrating", "non_running", "error"}
    /\ IsSeq(timestampMetrics) /\ DOMAIN timestampMetrics = 1..5
    /\ \A i \in 1..5 : timestampMetrics[i] \in Groups
    /\ \A g \in Groups : \E i \in 1..5 : timestampMetrics[i] = g
    /\ \A i, j \in 1..5 : timestampMetrics[i] = timestampMetrics[j] => i = j
    /\ \A g, h \in Groups : TimestampName[g] = TimestampName[h] => g = h
<1>1. Groups = {"starting", "running", "migrating", "non_running", "error"}
  BY DEF Groups, StatusGroups
<1>2. timestampMetrics \in Seq(Groups) /\ DOMAIN timestampMetrics = 1..5
  BY <1>1 DEF timestampMetrics
<1>3. /\ timestampMetrics[1] = "starting" /\ timestampMetrics[2] = "running"
      /\ timestampMetrics[3] = "migrating" /\ timestampMetrics[4] = "non_running"
      /\ timestampMetrics[5] = "error"
  BY DEF timestampMetrics
<1>4. /\ 1 \in 1..5 /\ 2 \in 1..5 /\ 3 \in 1..5 /\ 4 \in 1..5 /\ 5 \in 1..5
      /\ \A i \in 1..5 : i = 1 \/ i = 2 \/ i = 3 \/ i = 4 \/ i = 5
  OBVIOUS
<1>5. IsSeq(timestampMetrics)
  BY <1>2, SeqIsSeq
<1>6. /\ \A i \in 1..5 : timestampMetrics[i] \in Groups
      /\ \A g \in Groups : \E i \in 1..5 : timestampMetrics[i] = g
      /\ \A i, j \in 1..5 : timestampMetrics[i] = timestampMetrics[j] => i = j
  BY <1>1, <1>3, <1>4
<1>7. \A g, h \in Groups : TimestampName[g] = TimestampName[h] => g = h
  BY <1>1 DEF TimestampName
<1> QED
  BY <1>1, <1>2, <1>5, <1>6, <1>7

TimestampMetrics == {TimestampName[g] : g \in Groups}
Timestamp(k, o, g) ==
    Sample(TimestampName[g], [key |-> k],
           IF g = getTimestampMetric(o.status) THEN GetLastConditionTransitionTime(o) ELSE 0)

LEMMA TimestampsReported ==
    ASSUME NEW k, NEW o
    PROVE  LET s == reportVMTimestamps(k, o) IN
           /\ Good(s)
           /\ From(s, TimestampMetrics, k)
           /\ \A x : x \in ToSet(s) <=> \E g \in Groups : x = Timestamp(k, o, g)
<1> DEFINE l == timestampMetrics
           f == [i \in DOMAIN l |-> <<Timestamp(k, o, l[i])>>]
           g == [i \in DOMAIN l |-> Timestamp(k, o, l[i])]
<1>1. reportVMTimestamps(k, o) = FlattenSeq(f)
  BY DEF reportVMTimestamps, ForAll, Timestamp
<1>2. \A h \in Groups : /\ IsSample(Timestamp(k, o, h))
                        /\ Timestamp(k, o, h).metric = TimestampName[h]
                        /\ Timestamp(k, o, h).labels = [key |-> k]
  BY SampleFacts DEF Timestamp
<1> HIDE DEF l
<1>3. IsSeq(f) /\ DOMAIN f = DOMAIN l
  BY GroupsListed, MapIsSeq DEF l
<1>4. \A i \in DOMAIN l : f[i] = <<g[i]>> /\ IsSample(g[i]) /\ l[i] \in Groups
  BY <1>2, GroupsListed DEF l
<1>5. ASSUME NEW i \in DOMAIN l, NEW j \in DOMAIN l, Id(g[i]) = Id(g[j]) PROVE i = j
  <2>1. \A n \in DOMAIN l : g[n].metric = TimestampName[l[n]] /\ l[n] \in Groups
    BY <1>2, <1>4
  <2> HIDE DEF g
  <2>2. g[i].metric = g[j].metric
    BY <1>5, IdFacts
  <2>3. TimestampName[l[i]] = TimestampName[l[j]] /\ l[i] \in Groups /\ l[j] \in Groups
    BY <2>1, <2>2
  <2>4. l[i] = l[j]
    BY <2>3, GroupsListed
  <2> QED
    BY <2>4, GroupsListed DEF l
<1>6. OneEach(f, DOMAIN l, g)
  BY <1>3, <1>4, <1>5 DEF OneEach
<1>7. \A i \in DOMAIN l : g[i] = Timestamp(k, o, l[i])
  OBVIOUS
<1> HIDE DEF f, g
<1>8. Good(FlattenSeq(f)) /\ \A x : x \in ToSet(FlattenSeq(f)) <=> \E i \in DOMAIN l : x = g[i]
  BY <1>6, OnePerElement
<1>9. \A x : x \in ToSet(FlattenSeq(f)) <=> \E h \in Groups : x = Timestamp(k, o, h)
  BY <1>7, <1>8, GroupsListed DEF l
<1>10. From(FlattenSeq(f), TimestampMetrics, k)
  BY <1>2, <1>9 DEF From, TimestampMetrics
<1> QED
  BY <1>1, <1>8, <1>9, <1>10

(* The time of a status is never zero: a VM without conditions has -1. *)
LEMMA TransitionTimeSet ==
    ASSUME NEW o, \A c \in DOMAIN o.conditions : o.conditions[c] \in Nat \ {0}
    PROVE  GetLastConditionTransitionTime(o) # 0
<1> DEFINE T == TransitionTimes(o)
           Latest(t) == \A u \in T : u <= t
<1>1. T \subseteq Nat \ {0}
  BY DEF TransitionTimes
<1>2. \E t \in T \cup {-1} : Latest(t)
  <2> DEFINE c == o.conditions
  <2>1. T = {c[x] : x \in DOMAIN c \cap {"Ready", "Failure", "Paused"}}
    BY DEF TransitionTimes
  <2>2. \A t \in T : t \in Nat
    BY <1>1
  <2> HIDE DEF T, c
  <2>3. CASE T = {}
    BY <2>3
  <2>4. CASE T # {}
    <3>1. PICK a \in T : TRUE
      BY <2>4
    <3> DEFINE S == {a} \cup T
               b == IF "Ready" \in DOMAIN c THEN c["Ready"] ELSE a
               d == IF "Failure" \in DOMAIN c THEN c["Failure"] ELSE a
               e == IF "Paused" \in DOMAIN c THEN c["Paused"] ELSE a
    <3>2. b \in T /\ d \in T /\ e \in T /\ \A t \in T : t = b \/ t = d \/ t = e
      BY <2>1, <3>1
    <3>3. b \in Nat /\ d \in Nat /\ e \in Nat
      BY <2>2, <3>2
    <3> HIDE DEF b, d, e
    <3>4. \/ d <= b /\ e <= b /\ b <= b
          \/ b <= d /\ e <= d /\ d <= d
          \/ b <= e /\ d <= e /\ e <= e
      BY <3>3
    <3> QED
      BY <3>2, <3>4
  <2> QED
    BY <2>3, <2>4
<1>3. GetLastConditionTransitionTime(o) \in T \cup {-1}
  BY <1>2 DEF GetLastConditionTransitionTime
<1> QED
  BY <1>1, <1>3

-----------------------------------------------------------------------------
(* The other reports of a VM. *)
LEMMA InfoReported ==
    ASSUME NEW k, NEW o, NEW types
    PROVE  LET s == CollectVMsInfo(k, o, types) IN
           /\ Good(s)
           /\ From(s, {"kubevirt_vm_info"}, k)
           /\ \A x \in ToSet(s) : x.labels.group = GetVMStatusGroup(o.status)
<1> DEFINE l == [key |-> k, type |-> ResourceName(k[1], o.instancetype, types),
                 pref |-> ResourceName(k[1], o.preference, types),
                 status |-> Lower[o.status], group |-> GetVMStatusGroup(o.status)]
<1>1. l.key = k /\ l.group = GetVMStatusGroup(o.status) /\ "base" \notin DOMAIN l
  OBVIOUS
<1>2. CollectVMsInfo(k, o, types) = <<Sample("kubevirt_vm_info", l, 1)>>
  BY DEF CollectVMsInfo
<1> HIDE DEF l
<1> QED
  BY <1>1, <1>2, GoodOne, SampleFacts DEF From

LEMMA LabelsReported ==
    ASSUME NEW k, NEW o, NEW s \in ReportVMLabels(k, o)
    PROVE  Good(s) /\ From(s, {"kubevirt_vm_labels"}, k)
<1>1. CASE s = <<>>
  BY <1>1, GoodEmpty DEF From
<1>2. CASE s # <<>>
  <2>1. PICK e : s = <<Sample("kubevirt_vm_labels", [key |-> k, labels |-> e], 1)>>
    BY <1>2 DEF ReportVMLabels
  <2> QED
    BY <2>1, GoodOne, SampleFacts DEF From
<1> QED
  BY <1>1, <1>2

LEMMA CreationReported ==
    ASSUME NEW k, NEW o
    PROVE  LET s == collectVMCreationTimestamp(k, o) IN Good(s) /\ From(s, {"kubevirt_vm_create_date_timestamp_seconds"}, k)
<1> DEFINE s == collectVMCreationTimestamp(k, o)
           x == Sample("kubevirt_vm_create_date_timestamp_seconds", [key |-> k], Value(o.created))
<1>1. s = <<>> \/ s = <<x>>
  BY DEF collectVMCreationTimestamp, Maybe
<1>2. Good(<<x>>) /\ ToSet(<<x>>) = {x} /\ x.metric = "kubevirt_vm_create_date_timestamp_seconds" /\ x.labels.key = k
      /\ "base" \notin DOMAIN x.labels
  BY GoodOne, SampleFacts
<1> HIDE DEF s, x
<1>3. From(<<x>>, {"kubevirt_vm_create_date_timestamp_seconds"}, k)
  BY <1>2 DEF From
<1>4. From(<<>>, {"kubevirt_vm_create_date_timestamp_seconds"}, k)
  BY GoodEmpty DEF From
<1> QED
  BY <1>1, <1>2, <1>3, <1>4, GoodEmpty DEF s

LEMMA VnicReported ==
    ASSUME NEW m, NEW k, NEW l, NEW networks, Unique(l, LAMBDA i : i.name)
    PROVE  Good(VnicInfo(m, k, l, networks)) /\ From(VnicInfo(m, k, l, networks), {m}, k)
<1> DEFINE x(i) == Sample(m, [key |-> k, vnic |-> i.name, binding |-> GetBinding(i.binding),
                              network |-> Value(networks[i.name])], 1)
           C == {i \in DOMAIN l : l[i].name \in DOMAIN networks /\ networks[l[i].name] # {}}
           f == [i \in DOMAIN l |-> When(Found(l[i].name, networks), <<x(l[i])>>)]
           g == [i \in C |-> x(l[i])]
<1>1. VnicInfo(m, k, l, networks) = FlattenSeq(f)
  BY DEF VnicInfo, ForAll
<1>2. IsSeq(l) /\ \A i, j \in DOMAIN l : l[i].name = l[j].name => i = j
  BY DEF Unique, Named, IsSeq
<1>3. \A i : IsSample(x(i)) /\ x(i).metric = m /\ x(i).labels.key = k /\ x(i).labels.vnic = i.name
             /\ "base" \notin DOMAIN x(i).labels
  BY SampleFacts
<1> HIDE DEF x
<1>4. IsSeq(f) /\ DOMAIN f = DOMAIN l
  BY <1>2, MapIsSeq
<1>5. \A i \in C : f[i] = <<g[i]>> /\ g[i] = x(l[i])
  BY DEF When, Found
<1>6. \A i \in DOMAIN f \ C : f[i] = <<>>
  BY <1>4 DEF When, Found
<1> HIDE DEF f, g
<1>7. ASSUME NEW i \in C, NEW j \in C, Id(g[i]) = Id(g[j]) PROVE i = j
  <2>1. g[i].labels = g[j].labels
    BY <1>7, IdFacts
  <2>2. g[i].labels.vnic = l[i].name /\ g[j].labels.vnic = l[j].name
    BY <1>3, <1>5
  <2>3. l[i].name = l[j].name
    BY <2>1, <2>2
  <2> QED
    BY <1>2, <2>3
<1>8. OneEach(f, C, g)
  <2>1. C \subseteq DOMAIN f /\ \A i \in C : IsSample(g[i])
    BY <1>3, <1>4, <1>5
  <2> HIDE DEF C
  <2> QED
    BY <1>4, <1>5, <1>6, <1>7, <2>1 DEF OneEach
<1>9. Good(FlattenSeq(f)) /\ \A e : e \in ToSet(FlattenSeq(f)) <=> \E i \in C : e = g[i]
  BY <1>8, OnePerElement
<1>10. From(FlattenSeq(f), {m}, k)
  BY <1>3, <1>5, <1>9 DEF From
<1> QED
  BY <1>1, <1>9, <1>10

VMOK(o) ==
    /\ \A t \in o.template : /\ Unique(t.volumes, LAMBDA v : v.name)
                             /\ Unique(t.interfaces, LAMBDA i : i.name)
                             /\ \A c \in t.cpu : {c.cores, c.sockets, c.threads} \subseteq 0..(2^Width - 1)
    /\ \A c \in DOMAIN o.conditions : o.conditions[c] \in Nat \ {0}

LEMMA DisksReported ==
    ASSUME NEW k, NEW o, VMOK(o), NEW pvcs
    PROVE  LET s == collectDiskMetricsFromPVC(k, o, pvcs) IN
           Good(s) /\ From(s, {"kubevirt_vm_disk_allocated_size_bytes"}, k)
<1> DEFINE s == collectDiskMetricsFromPVC(k, o, pvcs)
           M == {"kubevirt_vm_disk_allocated_size_bytes"}
<1>1. CASE o.template = {}
  <2>1. s = <<>>
    BY <1>1 DEF collectDiskMetricsFromPVC, Maybe
  <2> QED
    BY <2>1, GoodEmpty DEF From
<1>2. CASE o.template # {}
  <2> DEFINE l == Value(o.template).volumes
             claim(v) == pvcs[<<k[1], v.claim>>]
             has(v) == v.claim # "" /\ Found(<<k[1], v.claim>>, pvcs)
             x(v) == getDiskSizeResult(k, o, v, Value(claim(v)))
             C == {i \in DOMAIN l : has(l[i])}
             f == [i \in DOMAIN l |-> When(has(l[i]), <<x(l[i])>>)]
             g == [i \in C |-> x(l[i])]
  <2>1. s = FlattenSeq(f)
    BY <1>2 DEF collectDiskMetricsFromPVC, Maybe, ForAll
  <2>2. IsSeq(l) /\ \A i, j \in DOMAIN l : l[i].name = l[j].name => i = j
    BY <1>2, ValueFacts DEF VMOK, Unique, Named, IsSeq
  <2>3. \A v : /\ IsSample(x(v)) /\ x(v).metric = "kubevirt_vm_disk_allocated_size_bytes"
               /\ x(v).labels.key = k /\ x(v).labels.device = v.name
               /\ "base" \notin DOMAIN x(v).labels
    BY SampleFacts DEF getDiskSizeResult
  <2> HIDE DEF x, l, s
  <2>4. IsSeq(f) /\ DOMAIN f = DOMAIN l
    BY <2>2, MapIsSeq
  <2>5. \A i \in C : f[i] = <<g[i]>> /\ g[i] = x(l[i])
    BY DEF When, Found
  <2>6. \A i \in DOMAIN f \ C : f[i] = <<>>
    BY <2>4 DEF When, Found
  <2> HIDE DEF f, g, C
  <2>7. C \subseteq DOMAIN l
    BY DEF C
  <2>8. ASSUME NEW i \in C, NEW j \in C, Id(g[i]) = Id(g[j]) PROVE i = j
    <3>1. g[i].labels = g[j].labels
      BY <2>8, IdFacts
    <3>2. g[i].labels.device = l[i].name /\ g[j].labels.device = l[j].name
      BY <2>3, <2>5
    <3>3. l[i].name = l[j].name
      BY <3>1, <3>2
    <3> QED
      BY <2>2, <2>7, <3>3
  <2>9. OneEach(f, C, g)
    BY <2>3, <2>4, <2>5, <2>6, <2>7, <2>8 DEF OneEach
  <2>10. Good(FlattenSeq(f)) /\ \A e : e \in ToSet(FlattenSeq(f)) <=> \E i \in C : e = g[i]
    BY <2>9, OnePerElement
  <2>11. From(FlattenSeq(f), M, k)
    BY <2>3, <2>5, <2>10 DEF From
  <2> QED
    BY <2>1, <2>10, <2>11 DEF s
<1> QED
  BY <1>1, <1>2

LEMMA VMVnicsReported ==
    ASSUME NEW k, NEW o, VMOK(o)
    PROVE  LET s == CollectVmsVnicInfo(k, o) IN Good(s) /\ From(s, {"kubevirt_vm_vnic_info"}, k)
<1> DEFINE t == Value(o.template)
           v == VnicInfo("kubevirt_vm_vnic_info", k, t.interfaces, t.networks)
<1>1. CASE o.template = {}
  <2>1. CollectVmsVnicInfo(k, o) = <<>>
    BY <1>1 DEF CollectVmsVnicInfo, Maybe
  <2> QED
    BY <2>1, GoodEmpty DEF From
<1>2. CASE o.template # {}
  <2>1. CollectVmsVnicInfo(k, o) = v
    BY <1>2 DEF CollectVmsVnicInfo, Maybe
  <2>2. Unique(t.interfaces, LAMBDA i : i.name)
    BY <1>2, ValueFacts DEF VMOK
  <2>3. Good(v) /\ From(v, {"kubevirt_vm_vnic_info"}, k)
    BY <2>2, VnicReported
  <2> QED
    BY <2>1, <2>3
<1> QED
  BY <1>1, <1>2

LEMMA TimestampMetricNames ==
    TimestampMetrics = {"kubevirt_vm_starting_status_last_transition_timestamp_seconds", "kubevirt_vm_running_status_last_transition_timestamp_seconds", "kubevirt_vm_migrating_status_last_transition_timestamp_seconds",
                        "kubevirt_vm_non_running_status_last_transition_timestamp_seconds", "kubevirt_vm_error_status_last_transition_timestamp_seconds"}
BY GroupsListed DEF TimestampMetrics, TimestampName

VMReportMetrics == ResourceMetrics \cup {"kubevirt_vm_labels"} \cup TimestampMetrics
                     \cup {"kubevirt_vm_create_date_timestamp_seconds"} \cup {"kubevirt_vm_vnic_info"}

(* Everything the last pass of the VM collector reports of a VM. *)
VMReport(k, o, labels) ==
    CollectResourceRequestsAndLimits(k, o) \o labels \o reportVMTimestamps(k, o)
      \o collectVMCreationTimestamp(k, o) \o CollectVmsVnicInfo(k, o)

LEMMA VMReported ==
    ASSUME NEW k, NEW o, VMOK(o), NEW labels \in ReportVMLabels(k, o)
    PROVE  LET s == VMReport(k, o, labels) IN
           /\ Good(s)
           /\ From(s, VMReportMetrics, k)
           /\ ToSet(s) = ToSet(CollectResourceRequestsAndLimits(k, o)) \cup ToSet(labels)
                           \cup ToSet(reportVMTimestamps(k, o))
                           \cup ToSet(collectVMCreationTimestamp(k, o))
                           \cup ToSet(CollectVmsVnicInfo(k, o))
<1> DEFINE a == CollectResourceRequestsAndLimits(k, o)
           b == reportVMTimestamps(k, o)
           c == collectVMCreationTimestamp(k, o)
           d == CollectVmsVnicInfo(k, o)
           N1 == ResourceMetrics \cup {"kubevirt_vm_labels"}
           N2 == N1 \cup TimestampMetrics
           N3 == N2 \cup {"kubevirt_vm_create_date_timestamp_seconds"}
<1>1. /\ Good(a) /\ From(a, ResourceMetrics, k)
      /\ Good(labels) /\ From(labels, {"kubevirt_vm_labels"}, k)
      /\ Good(b) /\ From(b, TimestampMetrics, k)
      /\ Good(c) /\ From(c, {"kubevirt_vm_create_date_timestamp_seconds"}, k)
      /\ Good(d) /\ From(d, {"kubevirt_vm_vnic_info"}, k)
  BY ResourcesReported, LabelsReported, TimestampsReported, CreationReported, VMVnicsReported
<1>2. /\ ResourceMetrics \cap {"kubevirt_vm_labels"} = {}
      /\ N1 \cap TimestampMetrics = {}
      /\ N2 \cap {"kubevirt_vm_create_date_timestamp_seconds"} = {}
      /\ N3 \cap {"kubevirt_vm_vnic_info"} = {}
  BY TimestampMetricNames DEF ResourceMetrics
<1> HIDE DEF a, b, c, d, N1, N2, N3
<1> DEFINE p1 == a \o labels
           p2 == p1 \o b
           p3 == p2 \o c
           p4 == p3 \o d
<1>3. Good(p1) /\ From(p1, N1, k) /\ ToSet(p1) = ToSet(a) \cup ToSet(labels)
  BY <1>1, <1>2, ConcatByMetric DEF N1
<1> HIDE DEF p1
<1>4. Good(p2) /\ From(p2, N2, k) /\ ToSet(p2) = ToSet(p1) \cup ToSet(b)
  BY <1>1, <1>2, <1>3, ConcatByMetric DEF N2
<1> HIDE DEF p2
<1>5. Good(p3) /\ From(p3, N3, k) /\ ToSet(p3) = ToSet(p2) \cup ToSet(c)
  BY <1>1, <1>2, <1>4, ConcatByMetric DEF N3
<1> HIDE DEF p3
<1>6. Good(p4) /\ From(p4, VMReportMetrics, k) /\ ToSet(p4) = ToSet(p3) \cup ToSet(d)
  <2>1. VMReportMetrics = N3 \cup {"kubevirt_vm_vnic_info"}
    BY DEF VMReportMetrics, N1, N2, N3
  <2> QED
    BY <1>1, <1>2, <1>5, <2>1, ConcatByMetric
<1> HIDE DEF p4
<1>7. ToSet(p4) = ToSet(a) \cup ToSet(labels) \cup ToSet(b) \cup ToSet(c) \cup ToSet(d)
  BY <1>3, <1>4, <1>5, <1>6
<1>8. VMReport(k, o, labels) = p4
  BY DEF VMReport, p1, p2, p3, p4, a, b, c, d
<1> QED
  BY <1>6, <1>7, <1>8 DEF a, b, c, d

-----------------------------------------------------------------------------
(* What the VMI collector reports. *)
VMIOK(o) == /\ Unique(o.addresses, LAMBDA a : <<a.name, a.interface, a.ip>>)
            /\ Unique(o.interfaces, LAMBDA i : i.name)

LEMMA VMIInfoReported ==
    ASSUME NEW k, NEW o, NEW pod, NEW types
    PROVE  LET s == CollectVMIInfo(k, o, pod, types) IN
           /\ Good(s)
           /\ From(s, {"kubevirt_vmi_info"}, k)
           /\ \A x \in ToSet(s) : /\ x.labels.pod = pod /\ x.labels.node = o.node
                                /\ x.labels.evictable = IsVMIEvictable(o)
           /\ \A x, y \in ToSet(s) : x = y
<1> DEFINE l == [key |-> k, node |-> o.node, phase |-> Lower[o.phase],
                 type |-> ResourceName(k[1], o.instancetype, types),
                 evictable |-> IsVMIEvictable(o), pod |-> pod]
<1>1. /\ l.key = k /\ l.node = o.node /\ l.pod = pod /\ "base" \notin DOMAIN l
      /\ l.evictable = IsVMIEvictable(o)
  OBVIOUS
<1>2. CollectVMIInfo(k, o, pod, types) = <<Sample("kubevirt_vmi_info", l, 1)>>
  BY DEF CollectVMIInfo
<1> HIDE DEF l
<1> QED
  BY <1>1, <1>2, GoodOne, SampleFacts DEF From

LEMMA AddressesReported ==
    ASSUME NEW k, NEW o, VMIOK(o)
    PROVE  LET s == collectVMIInterfacesInfo(k, o) IN
           /\ Good(s)
           /\ From(s, {"kubevirt_vmi_status_addresses"}, k)
           /\ \A e \in ToSet(s) : e.labels.node = o.node
<1> DEFINE l == o.addresses
           has(i) == i.ip # "" \/ i.name # "" \/ i.interface # ""
           x(i) == Sample("kubevirt_vmi_status_addresses",
                          [key |-> k, node |-> o.node, vnic |-> i.name, interface |-> i.interface,
                           address |-> i.ip,
                           kind |-> IF i.ip = "" THEN "SystemInterface" ELSE "ExternalInterface"], 1)
           C == {i \in DOMAIN l : has(l[i])}
           f == [i \in DOMAIN l |-> When(has(l[i]), <<x(l[i])>>)]
           g == [i \in C |-> x(l[i])]
<1>1. collectVMIInterfacesInfo(k, o) = FlattenSeq(f)
  BY DEF collectVMIInterfacesInfo, ForAll
<1>2. /\ IsSeq(l)
      /\ \A i, j \in DOMAIN l : <<l[i].name, l[i].interface, l[i].ip>> = <<l[j].name, l[j].interface, l[j].ip>>
                                  => i = j
  BY DEF VMIOK, Unique, Named, IsSeq
<1>3. \A i : /\ IsSample(x(i)) /\ x(i).metric = "kubevirt_vmi_status_addresses" /\ x(i).labels.key = k
             /\ x(i).labels.vnic = i.name /\ x(i).labels.interface = i.interface
             /\ x(i).labels.address = i.ip /\ "base" \notin DOMAIN x(i).labels
             /\ x(i).labels.node = o.node
  <2> SUFFICES ASSUME NEW i
               PROVE  /\ IsSample(x(i)) /\ x(i).metric = "kubevirt_vmi_status_addresses"
                      /\ x(i).labels.key = k /\ x(i).labels.vnic = i.name
                      /\ x(i).labels.interface = i.interface /\ x(i).labels.address = i.ip
                      /\ "base" \notin DOMAIN x(i).labels /\ x(i).labels.node = o.node
    OBVIOUS
  <2> DEFINE kind == IF i.ip = "" THEN "SystemInterface" ELSE "ExternalInterface"
             d == [key |-> k, node |-> o.node, vnic |-> i.name, interface |-> i.interface,
                   address |-> i.ip, kind |-> kind]
  <2> HIDE DEF kind
  <2>1. d.key = k /\ d.vnic = i.name /\ d.interface = i.interface /\ d.address = i.ip
        /\ "base" \notin DOMAIN d /\ d.node = o.node
    OBVIOUS
  <2>2. x(i) = Sample("kubevirt_vmi_status_addresses", d, 1)
    BY DEF kind
  <2> HIDE DEF d, x
  <2> QED
    BY <2>1, <2>2, SampleFacts
<1> HIDE DEF x, l
<1>4. IsSeq(f) /\ DOMAIN f = DOMAIN l
  BY <1>2, MapIsSeq
<1>5. \A i \in C : f[i] = <<g[i]>> /\ g[i] = x(l[i])
  BY DEF When
<1>6. \A i \in DOMAIN f \ C : f[i] = <<>>
  BY <1>4 DEF When
<1> HIDE DEF f, g, C
<1>7. C \subseteq DOMAIN l
  BY DEF C
<1>8. ASSUME NEW i \in C, NEW j \in C, Id(g[i]) = Id(g[j]) PROVE i = j
  <2>1. g[i].labels = g[j].labels
    BY <1>8, IdFacts
  <2>2. /\ g[i].labels.vnic = l[i].name /\ g[i].labels.interface = l[i].interface
        /\ g[i].labels.address = l[i].ip
        /\ g[j].labels.vnic = l[j].name /\ g[j].labels.interface = l[j].interface
        /\ g[j].labels.address = l[j].ip
    BY <1>3, <1>5
  <2>3. <<l[i].name, l[i].interface, l[i].ip>> = <<l[j].name, l[j].interface, l[j].ip>>
    BY <2>1, <2>2
  <2> QED
    BY <1>2, <1>7, <2>3
<1>9. OneEach(f, C, g)
  BY <1>3, <1>4, <1>5, <1>6, <1>7, <1>8 DEF OneEach
<1>10. Good(FlattenSeq(f)) /\ \A e : e \in ToSet(FlattenSeq(f)) <=> \E i \in C : e = g[i]
  BY <1>9, OnePerElement
<1>12. \A e \in ToSet(FlattenSeq(f)) : \E i \in C : e = x(l[i])
  BY <1>5, <1>10
<1>11. /\ From(FlattenSeq(f), {"kubevirt_vmi_status_addresses"}, k)
       /\ \A e \in ToSet(FlattenSeq(f)) : e.labels.node = o.node
  BY <1>3, <1>12 DEF From
<1> QED
  BY <1>1, <1>10, <1>11

LEMMA OneFrom ==
    ASSUME NEW m, NEW l, NEW v, "base" \notin DOMAIN l
    PROVE  /\ Good(<<Sample(m, l, v)>>) /\ From(<<Sample(m, l, v)>>, {m}, l.key)
           /\ Good(<<>>) /\ From(<<>>, {m}, l.key)
BY GoodOne, GoodEmpty, SampleFacts DEF From

MigrationTimeMetrics == {"kubevirt_vmi_migration_start_time_seconds"} \cup {"kubevirt_vmi_migration_end_time_seconds"}

LEMMA MigrationTimesReported ==
    ASSUME NEW k, NEW o, NEW migrations
    PROVE  LET s == CollectVMIMigrationTime(k, o, migrations) IN
           /\ Good(s)
           /\ From(s, MigrationTimeMetrics, k)
           /\ \A e \in ToSet(s) : e.labels.node = o.node
<1> DEFINE m == Value(o.migration)
           n == getMigrationNameFromUID(m.uid, migrations)
           l == [key |-> k, node |-> o.node, migration |-> n]
           e == [key |-> k, node |-> o.node, migration |-> n, status |-> CalculateMigrationStatus(m)]
           x == Sample("kubevirt_vmi_migration_start_time_seconds", l, Value(m.start))
           y == Sample("kubevirt_vmi_migration_end_time_seconds", e, Value(m.end))
           a == IF m.start = {} THEN <<>> ELSE <<x>>
           b == IF m.end = {} THEN <<>> ELSE <<y>>
<1>1. CollectVMIMigrationTime(k, o, migrations) = IF o.migration = {} THEN <<>> ELSE a \o b
  BY DEF CollectVMIMigrationTime, Maybe
<1>2. l.key = k /\ e.key = k /\ "base" \notin DOMAIN l /\ "base" \notin DOMAIN e
      /\ l.node = o.node /\ e.node = o.node
  OBVIOUS
<1> HIDE DEF l, e
<1>3. /\ Good(<<x>>) /\ From(<<x>>, {"kubevirt_vmi_migration_start_time_seconds"}, k)
      /\ Good(<<y>>) /\ From(<<y>>, {"kubevirt_vmi_migration_end_time_seconds"}, k)
      /\ Good(<<>>) /\ From(<<>>, {"kubevirt_vmi_migration_start_time_seconds"}, k) /\ From(<<>>, {"kubevirt_vmi_migration_end_time_seconds"}, k)
  BY <1>2, OneFrom
<1>11. /\ x.labels.node = o.node /\ y.labels.node = o.node
       /\ ToSet(<<x>>) = {x} /\ ToSet(<<y>>) = {y} /\ ToSet(<<>>) = {}
  BY <1>2, SampleFacts, OneIsSeq, GoodEmpty
<1> HIDE DEF x, y
<1>4. /\ Good(a) /\ From(a, {"kubevirt_vmi_migration_start_time_seconds"}, k)
      /\ \A z \in ToSet(a) : z.labels.node = o.node
  BY <1>3, <1>11
<1>5. /\ Good(b) /\ From(b, {"kubevirt_vmi_migration_end_time_seconds"}, k)
      /\ \A z \in ToSet(b) : z.labels.node = o.node
  BY <1>3, <1>11
<1>6. {"kubevirt_vmi_migration_start_time_seconds"} \cap {"kubevirt_vmi_migration_end_time_seconds"} = {}
  OBVIOUS
<1> HIDE DEF a, b
<1>7. /\ Good(a \o b) /\ From(a \o b, MigrationTimeMetrics, k)
      /\ ToSet(a \o b) = ToSet(a) \cup ToSet(b)
  BY <1>4, <1>5, <1>6, ConcatByMetric DEF MigrationTimeMetrics
<1>8. Good(<<>>) /\ From(<<>>, MigrationTimeMetrics, k)
  BY GoodEmpty DEF From
<1>9. CASE o.migration = {}
  BY <1>1, <1>8, <1>9, <1>11
<1>10. CASE o.migration # {}
  BY <1>1, <1>4, <1>5, <1>7, <1>10
<1> QED
  BY <1>9, <1>10

VMIReportMetrics == {"kubevirt_vmi_non_evictable"} \cup {"kubevirt_vmi_status_addresses"} \cup MigrationTimeMetrics
                      \cup {"kubevirt_vmi_vnic_info"} \cup {"kubevirt_vmi_launcher_memory_overhead_bytes"}

(* Series of a VMI that rules join with its kubevirt_vmi_info. *)
SeriesMetrics == {"kubevirt_vmi_non_evictable"} \cup {"kubevirt_vmi_status_addresses"} \cup MigrationTimeMetrics
Fits(x, o) == /\ x.labels.node = o.node
              /\ x.metric = "kubevirt_vmi_non_evictable" => x.value = IF IsVMIEvictable(o) THEN 0 ELSE 1

VMIReport(k, o, migrations) ==
    getEvictionBlocker(k, o) \o collectVMIInterfacesInfo(k, o)
      \o CollectVMIMigrationTime(k, o, migrations) \o CollectVMIsVnicInfo(k, o)
      \o collectVMILauncherMemoryOverhead(k, o)

LEMMA VMIReported ==
    ASSUME NEW k, NEW o, VMIOK(o), NEW migrations
    PROVE  LET s == VMIReport(k, o, migrations) IN
           /\ Good(s)
           /\ From(s, VMIReportMetrics, k)
           /\ \A x \in ToSet(s) : x.metric \in SeriesMetrics => Fits(x, o)
<1> DEFINE a == getEvictionBlocker(k, o)
           b == collectVMIInterfacesInfo(k, o)
           c == CollectVMIMigrationTime(k, o, migrations)
           d == CollectVMIsVnicInfo(k, o)
           e == collectVMILauncherMemoryOverhead(k, o)
           N1 == {"kubevirt_vmi_non_evictable"} \cup {"kubevirt_vmi_status_addresses"}
           N2 == N1 \cup MigrationTimeMetrics
           N3 == N2 \cup {"kubevirt_vmi_vnic_info"}
           p1 == a \o b
           p2 == p1 \o c
           p3 == p2 \o d
           p4 == p3 \o e
<1>1. /\ Good(a) /\ From(a, {"kubevirt_vmi_non_evictable"}, k)
      /\ \A x \in ToSet(a) : Fits(x, o)
  <2> DEFINE l == [key |-> k, node |-> o.node]
  <2>1. l.key = k /\ l.node = o.node /\ "base" \notin DOMAIN l
    OBVIOUS
  <2>2. a = <<Sample("kubevirt_vmi_non_evictable", l, IF IsVMIEvictable(o) THEN 0 ELSE 1)>>
    BY DEF getEvictionBlocker
  <2> HIDE DEF l, a
  <2>3. ToSet(a) = {Sample("kubevirt_vmi_non_evictable", l, IF IsVMIEvictable(o) THEN 0 ELSE 1)}
    BY <2>2, OneIsSeq
  <2>4. \A x \in ToSet(a) : Fits(x, o)
    BY <2>1, <2>3, SampleFacts DEF Fits
  <2> QED
    BY <2>1, <2>2, <2>4, OneFrom
<1>2. /\ Good(b) /\ From(b, {"kubevirt_vmi_status_addresses"}, k)
      /\ Good(c) /\ From(c, MigrationTimeMetrics, k)
      /\ \A x \in ToSet(b) \cup ToSet(c) : x.labels.node = o.node
  BY AddressesReported, MigrationTimesReported
<1>3. Good(d) /\ From(d, {"kubevirt_vmi_vnic_info"}, k)
  BY VnicReported DEF CollectVMIsVnicInfo, VMIOK
<1>4. Good(e) /\ From(e, {"kubevirt_vmi_launcher_memory_overhead_bytes"}, k)
  <2> DEFINE l == [key |-> k]
  <2>1. l.key = k /\ "base" \notin DOMAIN l
    OBVIOUS
  <2>2. e = <<Sample("kubevirt_vmi_launcher_memory_overhead_bytes", l, IF o.overhead = {} THEN 0 ELSE Value(o.overhead))>>
    BY DEF collectVMILauncherMemoryOverhead
  <2> HIDE DEF l, e
  <2> QED
    BY <2>1, <2>2, OneFrom
<1>5. /\ {"kubevirt_vmi_non_evictable"} \cap {"kubevirt_vmi_status_addresses"} = {}
      /\ N1 \cap MigrationTimeMetrics = {}
      /\ N2 \cap {"kubevirt_vmi_vnic_info"} = {}
      /\ N3 \cap {"kubevirt_vmi_launcher_memory_overhead_bytes"} = {}
      /\ VMIReportMetrics = N3 \cup {"kubevirt_vmi_launcher_memory_overhead_bytes"}
  BY DEF MigrationTimeMetrics, VMIReportMetrics
<1> HIDE DEF a, b, c, d, e, N1, N2, N3
<1>10. ASSUME NEW x \in ToSet(a) \cup ToSet(b) \cup ToSet(c) \cup ToSet(d) \cup ToSet(e), x.metric \in SeriesMetrics
       PROVE  Fits(x, o)
  <2>1. CASE x \in ToSet(a)
    BY <1>1, <2>1
  <2>2. CASE x \in ToSet(b) \cup ToSet(c)
    <3>1. x.metric # "kubevirt_vmi_non_evictable"
      BY <1>2, <2>2 DEF From, MigrationTimeMetrics
    <3> QED
      BY <1>2, <2>2, <3>1 DEF Fits
  <2>3. CASE x \in ToSet(d) \cup ToSet(e)
    BY <1>3, <1>4, <1>10, <2>3 DEF From, SeriesMetrics, MigrationTimeMetrics
  <2> QED
    BY <2>1, <2>2, <2>3
<1>6. Good(p1) /\ From(p1, N1, k) /\ ToSet(p1) = ToSet(a) \cup ToSet(b)
  BY <1>1, <1>2, <1>5, ConcatByMetric DEF N1
<1> HIDE DEF p1
<1>7. Good(p2) /\ From(p2, N2, k) /\ ToSet(p2) = ToSet(p1) \cup ToSet(c)
  BY <1>2, <1>5, <1>6, ConcatByMetric DEF N2
<1> HIDE DEF p2
<1>8. Good(p3) /\ From(p3, N3, k) /\ ToSet(p3) = ToSet(p2) \cup ToSet(d)
  BY <1>3, <1>5, <1>7, ConcatByMetric DEF N3
<1> HIDE DEF p3
<1>9. Good(p4) /\ From(p4, VMIReportMetrics, k) /\ ToSet(p4) = ToSet(p3) \cup ToSet(e)
  BY <1>4, <1>5, <1>8, ConcatByMetric
<1> HIDE DEF p4
<1>11. \A x \in ToSet(p4) : x.metric \in SeriesMetrics => Fits(x, o)
  BY <1>6, <1>7, <1>8, <1>9, <1>10
<1> QED
  BY <1>9, <1>11 DEF VMIReport, p1, p2, p3, p4, a, b, c, d, e

-----------------------------------------------------------------------------
(* What the migration collector reports. *)
FinishedSample(migrations, metric, k) ==
    Sample(metric, [key |-> k, vmi |-> Value(migrations[k]).vmi], 1)
CountSample(migrations, c) == Sample(CountName[c], [key |-> <<"", "">>], CountOf(migrations, c))

LEMMA FinishedFacts ==
    \A migrations, m, k : LET x == FinishedSample(migrations, m, k) IN
        IsSample(x) /\ x.metric = m /\ x.labels.key = k /\ x.value = 1
<1> SUFFICES ASSUME NEW migrations, NEW m, NEW k
             PROVE  LET x == FinishedSample(migrations, m, k) IN
                    IsSample(x) /\ x.metric = m /\ x.labels.key = k /\ x.value = 1
  OBVIOUS
<1> DEFINE l == [key |-> k, vmi |-> Value(migrations[k]).vmi]
<1>1. l.key = k /\ FinishedSample(migrations, m, k) = Sample(m, l, 1)
  BY DEF FinishedSample
<1> HIDE DEF l
<1> QED
  BY <1>1, SampleFacts

FinishedKeys(migrations, phase) == InPhase(migrations, {phase})
FinishedReports(migrations, metric, phase) ==
    ForAll(SetToSeq(InPhase(migrations, {phase})),
           LAMBDA k : <<Sample(metric, [key |-> k, vmi |-> Value(migrations[k]).vmi], 1)>>)

LEMMA FinishedReported ==
    ASSUME NEW migrations, IsFiniteSet(DOMAIN migrations), NEW m, NEW phase
    PROVE  LET s == FinishedReports(migrations, m, phase) IN
           /\ Good(s)
           /\ \A x : x \in ToSet(s) <=> \E k \in FinishedKeys(migrations, phase) :
                                            x = FinishedSample(migrations, m, k)
<1> DEFINE S == InPhase(migrations, {phase})
           l == SetToSeq(S)
           x(k) == FinishedSample(migrations, m, k)
           f == [i \in DOMAIN l |-> <<x(l[i])>>]
           g == [i \in DOMAIN l |-> x(l[i])]
<1>1. S \subseteq DOMAIN migrations
  BY DEF InPhase
<1>2. IsFiniteSet(S)
  BY <1>1, FS_Subset
<1> HIDE DEF S
<1>3. /\ IsSeq(l) /\ ToSet(l) = S
      /\ \A i, j \in DOMAIN l : l[i] = l[j] => i = j
  BY <1>2, SetToSeqFacts DEF IsInjective
<1>4. FinishedReports(migrations, m, phase) = FlattenSeq(f)
  BY DEF FinishedReports, ForAll, FinishedSample, S
<1>5. \A k : IsSample(x(k)) /\ x(k).labels.key = k
  BY FinishedFacts
<1> HIDE DEF l, x
<1>6. IsSeq(f) /\ DOMAIN f = DOMAIN l
  BY <1>3, MapIsSeq
<1>7. \A i \in DOMAIN l : f[i] = <<g[i]>> /\ g[i] = x(l[i])
  OBVIOUS
<1> HIDE DEF f, g
<1>8. ASSUME NEW i \in DOMAIN l, NEW j \in DOMAIN l, Id(g[i]) = Id(g[j]) PROVE i = j
  <2>1. g[i].labels = g[j].labels
    BY <1>8, IdFacts
  <2>2. l[i] = l[j]
    BY <1>5, <1>7, <2>1
  <2> QED
    BY <1>3, <2>2
<1>9. OneEach(f, DOMAIN l, g)
  BY <1>5, <1>6, <1>7, <1>8 DEF OneEach
<1>10. Good(FlattenSeq(f)) /\ \A e : e \in ToSet(FlattenSeq(f)) <=> \E i \in DOMAIN l : e = g[i]
  BY <1>9, OnePerElement
<1>11. \A e : e \in ToSet(FlattenSeq(f)) <=> \E k \in S : e = x(k)
  <2>1. \A k : k \in S <=> \E i \in DOMAIN l : l[i] = k
    BY <1>3 DEF ToSet
  <2> QED
    BY <1>7, <1>10, <2>1
<1> QED
  BY <1>4, <1>10, <1>11 DEF FinishedKeys, S, x

Counted == {"pending", "scheduling", "unset", "running"}
CountMetrics == {CountName[c] : c \in Counted}

LEMMA CountsListed ==
    LET l == <<"pending", "scheduling", "unset", "running">> IN
    /\ IsSeq(l) /\ DOMAIN l = 1..4
    /\ \A i \in 1..4 : l[i] \in Counted
    /\ \A c \in Counted : \E i \in 1..4 : l[i] = c
    /\ \A i, j \in 1..4 : l[i] = l[j] => i = j
    /\ \A c, d \in Counted : CountName[c] = CountName[d] => c = d
    /\ DOMAIN CountName = Counted
    /\ CountMetrics = {"kubevirt_vmi_migrations_in_pending_phase", "kubevirt_vmi_migrations_in_scheduling_phase",
                       "kubevirt_vmi_migrations_in_unset_phase", "kubevirt_vmi_migrations_in_running_phase"}
<1> DEFINE l == <<"pending", "scheduling", "unset", "running">>
<1>1. l \in Seq(Counted) /\ DOMAIN l = 1..4
  BY DEF Counted
<1>2. IsSeq(l)
  BY <1>1, SeqIsSeq
<1>3. l[1] = "pending" /\ l[2] = "scheduling" /\ l[3] = "unset" /\ l[4] = "running"
  OBVIOUS
<1>4. /\ 1 \in 1..4 /\ 2 \in 1..4 /\ 3 \in 1..4 /\ 4 \in 1..4
      /\ \A i \in 1..4 : i = 1 \/ i = 2 \/ i = 3 \/ i = 4
  OBVIOUS
<1> HIDE DEF l
<1>5. /\ \A i \in 1..4 : l[i] \in Counted
      /\ \A c \in Counted : \E i \in 1..4 : l[i] = c
      /\ \A i, j \in 1..4 : l[i] = l[j] => i = j
  BY <1>3, <1>4 DEF Counted
<1>6. \A c, d \in Counted : CountName[c] = CountName[d] => c = d
  BY DEF Counted, CountName
<1>7. DOMAIN CountName = Counted
  BY DEF Counted, CountName
<1>8. CountMetrics = {"kubevirt_vmi_migrations_in_pending_phase", "kubevirt_vmi_migrations_in_scheduling_phase",
                      "kubevirt_vmi_migrations_in_unset_phase", "kubevirt_vmi_migrations_in_running_phase"}
  BY DEF Counted, CountName, CountMetrics
<1> QED
  BY <1>1, <1>2, <1>5, <1>6, <1>7, <1>8 DEF l

LEMMA CountFacts ==
    \A migrations, c : LET x == CountSample(migrations, c) IN
        /\ IsSample(x) /\ x.metric = CountName[c]
        /\ x.value = CountOf(migrations, c)
<1> SUFFICES ASSUME NEW migrations, NEW c
             PROVE  LET x == CountSample(migrations, c) IN
                    /\ IsSample(x) /\ x.metric = CountName[c]
                    /\ x.value = CountOf(migrations, c)
  OBVIOUS
<1> DEFINE l == [key |-> <<"", "">>]
<1>1. CountSample(migrations, c) = Sample(CountName[c], l, CountOf(migrations, c))
  BY DEF CountSample
<1> HIDE DEF l
<1> QED
  BY <1>1, SampleFacts

LEMMA CountsReported ==
    ASSUME NEW migrations
    PROVE  LET count(c) == <<Sample(CountName[c], [key |-> <<"", "">>], CountOf(migrations, c))>>
               s == ForAll(<<"pending", "scheduling", "unset", "running">>, count)
           IN  Good(s) /\ \A x : x \in ToSet(s) <=> \E c \in Counted : x = CountSample(migrations, c)
<1> DEFINE l == <<"pending", "scheduling", "unset", "running">>
           x(c) == CountSample(migrations, c)
           count(c) == <<Sample(CountName[c], [key |-> <<"", "">>], CountOf(migrations, c))>>
           f == [i \in DOMAIN l |-> <<x(l[i])>>]
           g == [i \in DOMAIN l |-> x(l[i])]
<1>1. ForAll(l, count) = FlattenSeq(f)
  BY DEF ForAll, CountSample
<1>2. \A c : IsSample(x(c)) /\ x(c).metric = CountName[c]
  BY CountFacts
<1> HIDE DEF l, x
<1>3. IsSeq(f) /\ DOMAIN f = DOMAIN l
  BY CountsListed, MapIsSeq DEF l
<1>4. \A i \in DOMAIN l : f[i] = <<g[i]>> /\ g[i] = x(l[i])
  OBVIOUS
<1> HIDE DEF f, g
<1>5. ASSUME NEW i \in DOMAIN l, NEW j \in DOMAIN l, Id(g[i]) = Id(g[j]) PROVE i = j
  <2>1. g[i].metric = g[j].metric
    BY <1>5, IdFacts
  <2>2. CountName[l[i]] = CountName[l[j]]
    BY <1>2, <1>4, <2>1
  <2>3. l[i] \in Counted /\ l[j] \in Counted
    BY CountsListed DEF l
  <2>4. l[i] = l[j]
    BY <2>2, <2>3, CountsListed
  <2> QED
    BY <2>4, CountsListed DEF l
<1>6. OneEach(f, DOMAIN l, g)
  BY <1>2, <1>3, <1>4, <1>5 DEF OneEach
<1>7. Good(FlattenSeq(f)) /\ \A e : e \in ToSet(FlattenSeq(f)) <=> \E i \in DOMAIN l : e = g[i]
  BY <1>6, OnePerElement
<1>8. \A e : e \in ToSet(FlattenSeq(f)) <=> \E c \in Counted : e = x(c)
  BY <1>4, <1>7, CountsListed DEF l
<1> QED
  BY <1>1, <1>7, <1>8 DEF l, x

MigrationMetrics == {"kubevirt_vmi_migration_succeeded", "kubevirt_vmi_migration_failed"} \cup CountMetrics

LEMMA MigrationsReported ==
    ASSUME NEW migrations, IsFiniteSet(DOMAIN migrations)
    PROVE  LET s == ReportMigrationStats(migrations) IN
           /\ Good(s)
           /\ \A x \in ToSet(s) : x.metric \in MigrationMetrics
           /\ \A x : x \in ToSet(s) <=>
                 \/ \E k \in FinishedKeys(migrations, "Succeeded") :
                       x = FinishedSample(migrations, "kubevirt_vmi_migration_succeeded", k)
                 \/ \E k \in FinishedKeys(migrations, "Failed") :
                       x = FinishedSample(migrations, "kubevirt_vmi_migration_failed", k)
                 \/ \E c \in Counted : x = CountSample(migrations, c)
<1> DEFINE count(c) == <<Sample(CountName[c], [key |-> <<"", "">>], CountOf(migrations, c))>>
           a == FinishedReports(migrations, "kubevirt_vmi_migration_succeeded", "Succeeded")
           b == FinishedReports(migrations, "kubevirt_vmi_migration_failed", "Failed")
           d == ForAll(<<"pending", "scheduling", "unset", "running">>, count)
<1>1. ReportMigrationStats(migrations) = a \o b \o d
  BY DEF ReportMigrationStats, FinishedReports
<1>2. /\ Good(a)
      /\ \A x : x \in ToSet(a) <=> \E k \in FinishedKeys(migrations, "Succeeded") :
                                       x = FinishedSample(migrations, "kubevirt_vmi_migration_succeeded", k)
  BY FinishedReported
<1>3. /\ Good(b)
      /\ \A x : x \in ToSet(b) <=> \E k \in FinishedKeys(migrations, "Failed") :
                                       x = FinishedSample(migrations, "kubevirt_vmi_migration_failed", k)
  BY FinishedReported
<1>4. Good(d) /\ \A x : x \in ToSet(d) <=> \E c \in Counted : x = CountSample(migrations, c)
  BY CountsReported
<1> HIDE DEF a, b, d
<1>5. /\ \A x \in ToSet(a) : x.metric = "kubevirt_vmi_migration_succeeded"
      /\ \A x \in ToSet(b) : x.metric = "kubevirt_vmi_migration_failed"
      /\ \A x \in ToSet(d) : x.metric \in CountMetrics
  <2>1. \A x \in ToSet(a) : x.metric = "kubevirt_vmi_migration_succeeded"
    BY <1>2, FinishedFacts
  <2>2. \A x \in ToSet(b) : x.metric = "kubevirt_vmi_migration_failed"
    BY <1>3, FinishedFacts
  <2>3. \A x \in ToSet(d) : x.metric \in CountMetrics
    BY <1>4, CountFacts DEF CountMetrics
  <2> QED
    BY <2>1, <2>2, <2>3
<1>6. Apart(a, b)
  BY <1>5, IdFacts DEF Apart
<1> DEFINE p == a \o b
<1>7. Good(p) /\ ToSet(p) = ToSet(a) \cup ToSet(b)
  BY <1>2, <1>3, <1>6, GoodConcat
<1> HIDE DEF p
<1>8. Apart(p, d)
  BY <1>5, <1>7, IdFacts, CountsListed DEF Apart
<1>9. Good(p \o d) /\ ToSet(p \o d) = ToSet(p) \cup ToSet(d)
  BY <1>4, <1>7, <1>8, GoodConcat
<1>10. ReportMigrationStats(migrations) = p \o d
  BY <1>1 DEF p
<1> DEFINE s == p \o d
<1>11. ToSet(s) = ToSet(a) \cup ToSet(b) \cup ToSet(d) /\ Good(s)
  BY <1>7, <1>9
<1> HIDE DEF s
<1>12. \A x \in ToSet(s) : x.metric \in MigrationMetrics
  BY <1>5, <1>11 DEF MigrationMetrics
<1> QED
  BY <1>2, <1>3, <1>4, <1>10, <1>11, <1>12 DEF s

-----------------------------------------------------------------------------
(* What the VMStats collector reports. *)
Own(additional) == [l \in {m \in DOMAIN additional : additional[m] # ""} |-> additional[l]]

LEMMA ResultFacts ==
    \A r, m, v, a : LET x == newCollectorResultWithLabels(r, m, v, a) IN
        IsSample(x) /\ x.metric = m /\ x.value = v /\ x.labels.base = r.base /\ x.labels.own = Own(a)
<1> SUFFICES ASSUME NEW r, NEW m, NEW v, NEW a
             PROVE  LET x == newCollectorResultWithLabels(r, m, v, a) IN
                    IsSample(x) /\ x.metric = m /\ x.value = v /\ x.labels.base = r.base /\ x.labels.own = Own(a)
  OBVIOUS
<1> DEFINE l == [base |-> r.base, own |-> Own(a)]
<1>1. l.base = r.base /\ l.own = Own(a)
  OBVIOUS
<1>2. newCollectorResultWithLabels(r, m, v, a) = Sample(m, l, v)
  BY DEF newCollectorResultWithLabels, Own
<1> HIDE DEF l
<1> QED
  BY <1>1, <1>2, SampleFacts

(* Labels with an empty value are dropped; the others tell it nonetheless. *)
LEMMA OwnDiffers ==
    ASSUME NEW a, NEW b, DOMAIN a = DOMAIN b, Own(a) = Own(b), NEW l \in DOMAIN a
    PROVE  a[l] = b[l]
<1>1. DOMAIN Own(a) = {m \in DOMAIN a : a[m] # ""} /\ DOMAIN Own(b) = {m \in DOMAIN b : b[m] # ""}
  BY DEF Own
<1>2. a[l] # "" <=> b[l] # ""
  BY <1>1
<1>3. CASE a[l] # ""
  <2>1. l \in DOMAIN Own(a) /\ l \in DOMAIN Own(b)
    BY <1>1, <1>2, <1>3
  <2>2. Own(a)[l] = a[l] /\ Own(b)[l] = b[l]
    BY <2>1 DEF Own
  <2> QED
    BY <2>2
<1>4. CASE a[l] = ""
  BY <1>2, <1>4
<1> QED
  BY <1>3, <1>4

Stat(s, metrics, base) ==
    \A x \in ToSet(s) : x.metric \in metrics /\ x.labels.base = base /\ x.value[1] \in Nat

LEMMA ConcatStat ==
    ASSUME NEW s, NEW t, NEW M, NEW N, NEW b,
           Good(s), Good(t), Stat(s, M, b), Stat(t, N, b), M \cap N = {}
    PROVE  Good(s \o t) /\ Stat(s \o t, M \cup N, b) /\ ToSet(s \o t) = ToSet(s) \cup ToSet(t)
<1>1. Apart(s, t)
  BY IdFacts DEF Stat, Apart
<1>2. Good(s \o t) /\ ToSet(s \o t) = ToSet(s) \cup ToSet(t)
  BY <1>1, GoodConcat
<1> QED
  BY <1>2 DEF Stat

LEMMA EmptyStat == \A M, b : Good(<<>>) /\ Stat(<<>>, M, b)
BY GoodEmpty DEF Stat

LEMMA OneStat ==
    ASSUME NEW r, NEW m, NEW v, NEW a, v[1] \in Nat
    PROVE  LET s == <<newCollectorResultWithLabels(r, m, v, a)>> IN
           Good(s) /\ Stat(s, {m}, r.base) /\ \A x \in ToSet(s) : x.labels.own = Own(a)
<1> DEFINE y == newCollectorResultWithLabels(r, m, v, a)
<1>1. IsSample(y) /\ y.metric = m /\ y.value = v /\ y.labels.base = r.base /\ y.labels.own = Own(a)
  BY ResultFacts
<1> HIDE DEF y
<1>2. IsSeq(<<y>>) /\ ToSet(<<y>>) = {y} /\ Len(<<y>>) = 1
  BY OneIsSeq
<1>3. DOMAIN <<y>> = 1..1
  BY <1>2, SeqFacts
<1>4. Good(<<y>>) /\ Stat(<<y>>, {m}, r.base) /\ \A x \in ToSet(<<y>>) : x.labels.own = Own(a)
  BY <1>1, <1>2, <1>3 DEF Good, Stat
<1> QED
  BY <1>4 DEF y

LEMMA ConvertFacts ==
    /\ \A n \in Nat : Plain(n)[1] \in Nat
    /\ \A u : \A n \in Nat : Convert(u, n)[1] \in Nat
<1>1. \A n \in Nat : /\ Plain(n)[1] \in Nat /\ nanosecondsToSeconds(n)[1] \in Nat
                     /\ kibibytesToBytes(n)[1] \in Nat
  BY DEF Plain, nanosecondsToSeconds, kibibytesToBytes
<1> QED
  BY <1>1 DEF Convert

(* A table of fields with these metrics. *)
Table(metrics, names) ==
    /\ IsSeq(metrics)
    /\ \A i \in DOMAIN metrics : metrics[i][2] \in names
    /\ \A i, j \in DOMAIN metrics : metrics[i][2] = metrics[j][2] => i = j

LEMMA FieldsReported ==
    ASSUME NEW r, NEW metrics, NEW names, Table(metrics, names), NEW values, Unsigned(metrics, values),
           NEW additional
    PROVE  LET s == Fields(r, metrics, values, additional) IN
           Good(s) /\ Stat(s, names, r.base) /\ \A x \in ToSet(s) : x.labels.own = Own(additional)
<1> DEFINE l == metrics
           x(m) == newCollectorResultWithLabels(r, m[2], Convert(m[3], values[m[1]]), additional)
           C == {i \in DOMAIN l : l[i][1] \in DOMAIN values}
           f == [i \in DOMAIN l |-> When(l[i][1] \in DOMAIN values, <<x(l[i])>>)]
           g == [i \in C |-> x(l[i])]
<1>1. Fields(r, metrics, values, additional) = FlattenSeq(f)
  BY DEF Fields, ForAll
<1>2. \A m : /\ IsSample(x(m)) /\ x(m).metric = m[2] /\ x(m).labels.base = r.base
             /\ x(m).labels.own = Own(additional)
             /\ x(m).value = Convert(m[3], values[m[1]])
  BY ResultFacts
<1> HIDE DEF x, l
<1>3. /\ IsSeq(l) /\ \A i \in DOMAIN l : l[i][2] \in names
      /\ \A i, j \in DOMAIN l : l[i][2] = l[j][2] => i = j
  BY DEF Table, l
<1>4. IsSeq(f) /\ DOMAIN f = DOMAIN l
  BY <1>3, MapIsSeq
<1>5. \A i \in C : f[i] = <<g[i]>> /\ g[i] = x(l[i])
  BY DEF When
<1>6. \A i \in DOMAIN f \ C : f[i] = <<>>
  BY <1>4 DEF When
<1> HIDE DEF f, g, C
<1>7. C \subseteq DOMAIN l /\ \A i \in C : values[l[i][1]] \in Nat
  BY DEF C, Unsigned, l
<1>8. ASSUME NEW i \in C, NEW j \in C, Id(g[i]) = Id(g[j]) PROVE i = j
  <2>1. g[i].metric = g[j].metric
    BY <1>8, IdFacts
  <2>2. g[i].metric = l[i][2] /\ g[j].metric = l[j][2]
    BY <1>2, <1>5
  <2>3. l[i][2] = l[j][2]
    BY <2>1, <2>2
  <2> QED
    BY <1>3, <1>7, <2>3
<1>9. OneEach(f, C, g)
  BY <1>2, <1>4, <1>5, <1>6, <1>7, <1>8 DEF OneEach
<1>10. Good(FlattenSeq(f)) /\ \A e : e \in ToSet(FlattenSeq(f)) <=> \E i \in C : e = g[i]
  BY <1>9, OnePerElement
<1>13. \A i \in C : g[i].value = Convert(l[i][3], values[l[i][1]])
  BY <1>2, <1>5
<1>14. \A i \in C : g[i].value[1] \in Nat
  BY <1>7, <1>13, ConvertFacts
<1>11. \A i \in C : /\ g[i].metric \in names /\ g[i].labels.base = r.base
                    /\ g[i].labels.own = Own(additional)
                    /\ g[i].value[1] \in Nat
  BY <1>2, <1>3, <1>5, <1>7, <1>14
<1>12. /\ Stat(FlattenSeq(f), names, r.base)
       /\ \A e \in ToSet(FlattenSeq(f)) : e.labels.own = Own(additional)
  BY <1>10, <1>11 DEF Stat
<1> QED
  BY <1>1, <1>10, <1>12

CPUNames == {"kubevirt_vmi_cpu_usage_seconds_total", "kubevirt_vmi_cpu_user_usage_seconds_total",
             "kubevirt_vmi_cpu_system_usage_seconds_total"}
LoadNames == {"kubevirt_vmi_guest_load_1m", "kubevirt_vmi_guest_load_5m", "kubevirt_vmi_guest_load_15m"}
MemoryNames == {"kubevirt_vmi_memory_resident_bytes", "kubevirt_vmi_memory_available_bytes",
                "kubevirt_vmi_memory_unused_bytes", "kubevirt_vmi_memory_cached_bytes",
                "kubevirt_vmi_memory_swap_in_traffic_bytes", "kubevirt_vmi_memory_swap_out_traffic_bytes",
                "kubevirt_vmi_memory_pgmajfault_total", "kubevirt_vmi_memory_pgminfault_total",
                "kubevirt_vmi_memory_actual_balloon_bytes", "kubevirt_vmi_memory_usable_bytes",
                "kubevirt_vmi_memory_domain_bytes"}
NetworkNames == {"kubevirt_vmi_network_receive_bytes_total", "kubevirt_vmi_network_transmit_bytes_total",
                 "kubevirt_vmi_network_receive_packets_total", "kubevirt_vmi_network_transmit_packets_total",
                 "kubevirt_vmi_network_receive_errors_total", "kubevirt_vmi_network_transmit_errors_total",
                 "kubevirt_vmi_network_receive_packets_dropped_total",
                 "kubevirt_vmi_network_transmit_packets_dropped_total"}
BlockNames == {"kubevirt_vmi_storage_iops_read_total", "kubevirt_vmi_storage_iops_write_total",
               "kubevirt_vmi_storage_read_traffic_bytes_total", "kubevirt_vmi_storage_write_traffic_bytes_total",
               "kubevirt_vmi_storage_read_times_seconds_total", "kubevirt_vmi_storage_write_times_seconds_total",
               "kubevirt_vmi_storage_flush_requests_total", "kubevirt_vmi_storage_flush_times_seconds_total"}

LEMMA TablesOK ==
    /\ Table(cpuMetrics, CPUNames)
    /\ Table(loadMetrics, LoadNames)
    /\ Table(memoryMetrics, MemoryNames)
    /\ Table(networkMetrics, NetworkNames)
    /\ Table(blockMetrics, BlockNames)
<1>1. Table(cpuMetrics, CPUNames)
  <2> DEFINE m == cpuMetrics
  <2>1. m = [i \in 1..3 |-> m[i]]
    BY DEF cpuMetrics
  <2>2. /\ m[1][2] = "kubevirt_vmi_cpu_usage_seconds_total"
        /\ m[2][2] = "kubevirt_vmi_cpu_user_usage_seconds_total"
        /\ m[3][2] = "kubevirt_vmi_cpu_system_usage_seconds_total"
    BY DEF cpuMetrics
  <2>3. \A i \in 1..3 : i = 1 \/ i = 2 \/ i = 3
    OBVIOUS
  <2> HIDE DEF m
  <2>4. IsSeq(m) /\ DOMAIN m = 1..3
    BY <2>1, FunctionIsSeq
  <2>5. Table(m, CPUNames)
    BY <2>2, <2>3, <2>4 DEF Table, CPUNames
  <2> QED
    BY <2>5 DEF m
<1>2. Table(loadMetrics, LoadNames)
  <2> DEFINE m == loadMetrics
  <2>1. m = [i \in 1..3 |-> m[i]]
    BY DEF loadMetrics
  <2>2. /\ m[1][2] = "kubevirt_vmi_guest_load_1m"
        /\ m[2][2] = "kubevirt_vmi_guest_load_5m"
        /\ m[3][2] = "kubevirt_vmi_guest_load_15m"
    BY DEF loadMetrics
  <2>3. \A i \in 1..3 : i = 1 \/ i = 2 \/ i = 3
    OBVIOUS
  <2> HIDE DEF m
  <2>4. IsSeq(m) /\ DOMAIN m = 1..3
    BY <2>1, FunctionIsSeq
  <2>5. Table(m, LoadNames)
    BY <2>2, <2>3, <2>4 DEF Table, LoadNames
  <2> QED
    BY <2>5 DEF m
<1>3. Table(memoryMetrics, MemoryNames)
  <2> DEFINE m == memoryMetrics
  <2>1. m = [i \in 1..11 |-> m[i]]
    BY DEF memoryMetrics
  <2>2. /\ m[1][2] = "kubevirt_vmi_memory_resident_bytes"
        /\ m[2][2] = "kubevirt_vmi_memory_available_bytes"
        /\ m[3][2] = "kubevirt_vmi_memory_unused_bytes"
        /\ m[4][2] = "kubevirt_vmi_memory_cached_bytes"
        /\ m[5][2] = "kubevirt_vmi_memory_swap_in_traffic_bytes"
        /\ m[6][2] = "kubevirt_vmi_memory_swap_out_traffic_bytes"
        /\ m[7][2] = "kubevirt_vmi_memory_pgmajfault_total"
        /\ m[8][2] = "kubevirt_vmi_memory_pgminfault_total"
        /\ m[9][2] = "kubevirt_vmi_memory_actual_balloon_bytes"
        /\ m[10][2] = "kubevirt_vmi_memory_usable_bytes"
        /\ m[11][2] = "kubevirt_vmi_memory_domain_bytes"
    BY DEF memoryMetrics
  <2>3. \A i \in 1..11 : i = 1 \/ i = 2 \/ i = 3 \/ i = 4 \/ i = 5 \/ i = 6 \/ i = 7 \/ i = 8 \/ i = 9 \/ i =
            10 \/ i = 11
    OBVIOUS
  <2> HIDE DEF m
  <2>4. IsSeq(m) /\ DOMAIN m = 1..11
    BY <2>1, FunctionIsSeq
  <2>5. Table(m, MemoryNames)
    BY <2>2, <2>3, <2>4 DEF Table, MemoryNames
  <2> QED
    BY <2>5 DEF m
<1>4. Table(networkMetrics, NetworkNames)
  <2> DEFINE m == networkMetrics
  <2>1. m = [i \in 1..8 |-> m[i]]
    BY DEF networkMetrics
  <2>2. /\ m[1][2] = "kubevirt_vmi_network_receive_bytes_total"
        /\ m[2][2] = "kubevirt_vmi_network_transmit_bytes_total"
        /\ m[3][2] = "kubevirt_vmi_network_receive_packets_total"
        /\ m[4][2] = "kubevirt_vmi_network_transmit_packets_total"
        /\ m[5][2] = "kubevirt_vmi_network_receive_errors_total"
        /\ m[6][2] = "kubevirt_vmi_network_transmit_errors_total"
        /\ m[7][2] = "kubevirt_vmi_network_receive_packets_dropped_total"
        /\ m[8][2] = "kubevirt_vmi_network_transmit_packets_dropped_total"
    BY DEF networkMetrics
  <2>3. \A i \in 1..8 : i = 1 \/ i = 2 \/ i = 3 \/ i = 4 \/ i = 5 \/ i = 6 \/ i = 7 \/ i = 8
    OBVIOUS
  <2> HIDE DEF m
  <2>4. IsSeq(m) /\ DOMAIN m = 1..8
    BY <2>1, FunctionIsSeq
  <2>5. Table(m, NetworkNames)
    BY <2>2, <2>3, <2>4 DEF Table, NetworkNames
  <2> QED
    BY <2>5 DEF m
<1>5. Table(blockMetrics, BlockNames)
  <2> DEFINE m == blockMetrics
  <2>1. m = [i \in 1..8 |-> m[i]]
    BY DEF blockMetrics
  <2>2. /\ m[1][2] = "kubevirt_vmi_storage_iops_read_total"
        /\ m[2][2] = "kubevirt_vmi_storage_iops_write_total"
        /\ m[3][2] = "kubevirt_vmi_storage_read_traffic_bytes_total"
        /\ m[4][2] = "kubevirt_vmi_storage_write_traffic_bytes_total"
        /\ m[5][2] = "kubevirt_vmi_storage_read_times_seconds_total"
        /\ m[6][2] = "kubevirt_vmi_storage_write_times_seconds_total"
        /\ m[7][2] = "kubevirt_vmi_storage_flush_requests_total"
        /\ m[8][2] = "kubevirt_vmi_storage_flush_times_seconds_total"
    BY DEF blockMetrics
  <2>3. \A i \in 1..8 : i = 1 \/ i = 2 \/ i = 3 \/ i = 4 \/ i = 5 \/ i = 6 \/ i = 7 \/ i = 8
    OBVIOUS
  <2> HIDE DEF m
  <2>4. IsSeq(m) /\ DOMAIN m = 1..8
    BY <2>1, FunctionIsSeq
  <2>5. Table(m, BlockNames)
    BY <2>2, <2>3, <2>4 DEF Table, BlockNames
  <2> QED
    BY <2>5 DEF m
<1> QED
  BY <1>1, <1>2, <1>3, <1>4, <1>5

LEMMA CPUStat ==
    ASSUME NEW r, StatsOK(r.stats)
    PROVE  Good(collectCPUMetrics(r)) /\ Stat(collectCPUMetrics(r), CPUNames \cup LoadNames, r.base)
<1> DEFINE a == Maybe(r.stats.cpu, LAMBDA v : Fields(r, cpuMetrics, v, <<>>))
           b == Maybe(r.stats.load, LAMBDA v : Fields(r, loadMetrics, v, <<>>))
<1>1. Good(a) /\ Stat(a, CPUNames, r.base)
  <2>1. \/ a = <<>>
        \/ a = Fields(r, cpuMetrics, Value(r.stats.cpu), <<>>) /\ r.stats.cpu # {}
    BY DEF Maybe
  <2>2. r.stats.cpu # {} => Unsigned(cpuMetrics, Value(r.stats.cpu))
    BY ValueFacts DEF StatsOK
  <2> HIDE DEF a
  <2> QED
    BY <2>1, <2>2, EmptyStat, FieldsReported, TablesOK
<1>2. Good(b) /\ Stat(b, LoadNames, r.base)
  <2>1. \/ b = <<>>
        \/ b = Fields(r, loadMetrics, Value(r.stats.load), <<>>) /\ r.stats.load # {}
    BY DEF Maybe
  <2>2. r.stats.load # {} => Unsigned(loadMetrics, Value(r.stats.load))
    BY ValueFacts DEF StatsOK
  <2> HIDE DEF b
  <2> QED
    BY <2>1, <2>2, EmptyStat, FieldsReported, TablesOK
<1>3. CPUNames \cap LoadNames = {}
  BY DEF CPUNames, LoadNames
<1>4. collectCPUMetrics(r) = a \o b
  BY DEF collectCPUMetrics
<1> HIDE DEF a, b
<1>5. Good(a \o b) /\ Stat(a \o b, CPUNames \cup LoadNames, r.base)
  BY <1>1, <1>2, <1>3, ConcatStat
<1> QED
  BY <1>4, <1>5

LEMMA MemoryStat ==
    ASSUME NEW r, StatsOK(r.stats)
    PROVE  Good(collectMemoryMetrics(r)) /\ Stat(collectMemoryMetrics(r), MemoryNames, r.base)
<1> DEFINE a == collectMemoryMetrics(r)
<1>1. \/ a = <<>>
      \/ a = Fields(r, memoryMetrics, Value(r.stats.memory), <<>>) /\ r.stats.memory # {}
  BY DEF collectMemoryMetrics, Maybe
<1>3. r.stats.memory # {} => Unsigned(memoryMetrics, Value(r.stats.memory))
  BY ValueFacts DEF StatsOK
<1> HIDE DEF a
<1>2. Good(a) /\ Stat(a, MemoryNames, r.base)
  BY <1>1, <1>3, EmptyStat, FieldsReported, TablesOK
<1> QED
  BY <1>2 DEF a

(* vCPUs: the label id tells them apart. *)
VCPUNames == {"kubevirt_vmi_vcpu_seconds_total"} \cup {"kubevirt_vmi_vcpu_wait_seconds_total", "kubevirt_vmi_vcpu_delay_seconds_total"}

LEMMA VCPUTables ==
    /\ Table(<<<<"time", "kubevirt_vmi_vcpu_seconds_total", "ns">>>>, {"kubevirt_vmi_vcpu_seconds_total"})
    /\ Table(<<<<"wait", "kubevirt_vmi_vcpu_wait_seconds_total", "ns">>,
               <<"delay", "kubevirt_vmi_vcpu_delay_seconds_total", "ns">>>>,
             {"kubevirt_vmi_vcpu_wait_seconds_total", "kubevirt_vmi_vcpu_delay_seconds_total"})
<1> DEFINE m == <<<<"time", "kubevirt_vmi_vcpu_seconds_total", "ns">>>>
           n == <<<<"wait", "kubevirt_vmi_vcpu_wait_seconds_total", "ns">>,
                  <<"delay", "kubevirt_vmi_vcpu_delay_seconds_total", "ns">>>>
<1>1. m = [i \in 1..1 |-> m[i]] /\ n = [i \in 1..2 |-> n[i]]
  OBVIOUS
<1>2. /\ m[1][2] = "kubevirt_vmi_vcpu_seconds_total"
      /\ n[1][2] = "kubevirt_vmi_vcpu_wait_seconds_total"
      /\ n[2][2] = "kubevirt_vmi_vcpu_delay_seconds_total"
  OBVIOUS
<1>3. (\A i \in 1..1 : i = 1) /\ (\A i \in 1..2 : i = 1 \/ i = 2)
  OBVIOUS
<1> HIDE DEF m, n
<1>4. IsSeq(m) /\ DOMAIN m = 1..1 /\ IsSeq(n) /\ DOMAIN n = 1..2
  BY <1>1, FunctionIsSeq
<1>5. Table(m, {"kubevirt_vmi_vcpu_seconds_total"})
  BY <1>2, <1>3, <1>4 DEF Table
<1>6. Table(n, {"kubevirt_vmi_vcpu_wait_seconds_total", "kubevirt_vmi_vcpu_delay_seconds_total"})
  BY <1>2, <1>3, <1>4 DEF Table
<1> QED
  BY <1>5, <1>6 DEF m, n

LEMMA VCPUStat ==
    ASSUME NEW r, StatsOK(r.stats)
    PROVE  Good(collectVCPUMetrics(r)) /\ Stat(collectVCPUMetrics(r), VCPUNames, r.base)
<1> DEFINE l == r.stats.vcpu
           D == DOMAIN l
           e == [i \in D |-> i]
           m == <<<<"time", "kubevirt_vmi_vcpu_seconds_total", "ns">>>>
           n == <<<<"wait", "kubevirt_vmi_vcpu_wait_seconds_total", "ns">>,
                  <<"delay", "kubevirt_vmi_vcpu_delay_seconds_total", "ns">>>>
           N == {"kubevirt_vmi_vcpu_wait_seconds_total", "kubevirt_vmi_vcpu_delay_seconds_total"}
           A(i) == [id |-> ToString(i - 1), state |-> humanReadableVCPUState(l[i].state)]
           B(i) == [id |-> ToString(i - 1)]
           a(i) == Fields(r, m, l[i], A(i))
           b(i) == Fields(r, n, l[i], B(i))
           f == [i \in D |-> a(i) \o b(i)]
<1>1. collectVCPUMetrics(r) = FlattenSeq(f)
  <2>1. DOMAIN e = D /\ \A i \in D : e[i] = i
    OBVIOUS
  <2>2. collectVCPUMetrics(r) = FlattenSeq([i \in DOMAIN e |-> a(e[i]) \o b(e[i])])
    BY DEF collectVCPUMetrics, ForAll
  <2> HIDE DEF e, a, b, D
  <2>3. [i \in DOMAIN e |-> a(e[i]) \o b(e[i])] = f
    BY <2>1
  <2> QED
    BY <2>2, <2>3
<1>2. IsSeq(f) /\ DOMAIN f = D
  <2> DEFINE q == [i \in D |-> i - 1]
  <2>1. IsSeq(q) /\ DOMAIN q = D
    BY DEF StatsOK, Unique, Named, IsSeq
  <2>2. Len(q) \in Nat /\ D = 1..Len(q)
    BY <2>1, SeqFacts
  <2> HIDE DEF q, a, b, D
  <2> DEFINE k == Len(q)
             F(i) == a(i) \o b(i)
  <2>3. f = [i \in 1..k |-> F(i)] /\ k \in Nat
    BY <2>2
  <2> HIDE DEF k, F
  <2>4. IsSeq([i \in 1..k |-> F(i)]) /\ DOMAIN [i \in 1..k |-> F(i)] = 1..k
    BY <2>3, FunctionIsSeq
  <2>5. IsSeq(f)
    BY <2>3, <2>4
  <2>6. DOMAIN f = D
    OBVIOUS
  <2> HIDE DEF f
  <2> QED
    BY <2>5, <2>6
<1>3. \A i, j \in D : ToString(i - 1) = ToString(j - 1) => i = j
  BY DEF StatsOK, Unique, Named
<1>4. \A i, j \in D : /\ Own(A(i)) = Own(A(j)) => i = j
                      /\ Own(B(i)) = Own(B(j)) => i = j
  <2> SUFFICES ASSUME NEW i \in D, NEW j \in D
               PROVE  /\ Own(A(i)) = Own(A(j)) => i = j
                      /\ Own(B(i)) = Own(B(j)) => i = j
    OBVIOUS
  <2>1. /\ DOMAIN A(i) = {"id", "state"} /\ DOMAIN A(j) = {"id", "state"}
        /\ DOMAIN B(i) = {"id"} /\ DOMAIN B(j) = {"id"}
        /\ A(i)["id"] = ToString(i - 1) /\ A(j)["id"] = ToString(j - 1)
        /\ B(i)["id"] = ToString(i - 1) /\ B(j)["id"] = ToString(j - 1)
    OBVIOUS
  <2> HIDE DEF A, B, D
  <2>4. "id" \in DOMAIN A(i) /\ "id" \in DOMAIN B(i)
    BY <2>1
  <2>5. DOMAIN A(i) = DOMAIN A(j) /\ DOMAIN B(i) = DOMAIN B(j)
    BY <2>1
  <2>2. ASSUME Own(A(i)) = Own(A(j)) PROVE i = j
    <3>1. A(i)["id"] = A(j)["id"]
      BY <2>2, <2>4, <2>5, OwnDiffers
    <3> QED
      BY <1>3, <2>1, <3>1
  <2>3. ASSUME Own(B(i)) = Own(B(j)) PROVE i = j
    <3>1. B(i)["id"] = B(j)["id"]
      BY <2>3, <2>4, <2>5, OwnDiffers
    <3> QED
      BY <1>3, <2>1, <3>1
  <2> QED
    BY <2>2, <2>3
<1>5. \A i \in D : f[i] = a(i) \o b(i)
  OBVIOUS
<1>6. /\ \A i \in D : Good(a(i)) /\ Stat(a(i), {"kubevirt_vmi_vcpu_seconds_total"}, r.base)
                      /\ \A x \in ToSet(a(i)) : x.labels.own = Own(A(i))
      /\ \A i \in D : Good(b(i)) /\ Stat(b(i), N, r.base)
                      /\ \A x \in ToSet(b(i)) : x.labels.own = Own(B(i))
  <2>2. m[1][1] = "time" /\ n[1][1] = "wait" /\ n[2][1] = "delay" /\ DOMAIN m = 1..1 /\ DOMAIN n = 1..2
    OBVIOUS
  <2>3. \A i \in D : \A g \in DOMAIN l[i] \cap {"time", "wait", "delay"} : l[i][g] \in Nat
    BY DEF StatsOK
  <2>4. (\A j \in 1..1 : j = 1) /\ (\A j \in 1..2 : j = 1 \/ j = 2)
    OBVIOUS
  <2> HIDE DEF m, n, A, B, D, N, l
  <2>5. \A i \in D : Unsigned(m, l[i]) /\ Unsigned(n, l[i])
    BY <2>2, <2>3, <2>4 DEF Unsigned
  <2>1. Table(m, {"kubevirt_vmi_vcpu_seconds_total"}) /\ Table(n, N)
    BY VCPUTables DEF m, n, N
  <2> QED
    BY <2>1, <2>5, FieldsReported
<1> HIDE DEF a, b, f, A, B, D
<1>7. ASSUME NEW i \in D
      PROVE  /\ Good(f[i]) /\ Stat(f[i], VCPUNames, r.base)
             /\ \A x \in ToSet(f[i]) :
                   \/ x.metric = "kubevirt_vmi_vcpu_seconds_total" /\ x.labels.own = Own(A(i))
                   \/ x.metric \in N /\ x.labels.own = Own(B(i))
  <2>1. {"kubevirt_vmi_vcpu_seconds_total"} \cap N = {} /\ VCPUNames = {"kubevirt_vmi_vcpu_seconds_total"} \cup N
    BY DEF VCPUNames
  <2> HIDE DEF N
  <2>2. Good(a(i) \o b(i)) /\ Stat(a(i) \o b(i), VCPUNames, r.base)
        /\ ToSet(a(i) \o b(i)) = ToSet(a(i)) \cup ToSet(b(i))
    BY <1>6, <2>1, ConcatStat
  <2> QED
    BY <1>5, <1>6, <2>2 DEF Stat
<1>8. ASSUME NEW i \in D, NEW j \in D, i # j PROVE Apart(f[i], f[j])
  <2> SUFFICES ASSUME NEW x \in ToSet(f[i]), NEW y \in ToSet(f[j]), Id(x) = Id(y) PROVE FALSE
    BY DEF Apart
  <2>1. x.metric = y.metric /\ x.labels.own = y.labels.own
    BY IdFacts
  <2>2. Own(A(i)) # Own(A(j)) /\ Own(B(i)) # Own(B(j))
    BY <1>4, <1>8
  <2>3. /\ \/ x.metric = "kubevirt_vmi_vcpu_seconds_total" /\ x.labels.own = Own(A(i))
           \/ x.metric \in N /\ x.labels.own = Own(B(i))
        /\ \/ y.metric = "kubevirt_vmi_vcpu_seconds_total" /\ y.labels.own = Own(A(j))
           \/ y.metric \in N /\ y.labels.own = Own(B(j))
    BY <1>7
  <2>4. "kubevirt_vmi_vcpu_seconds_total" \notin N
    OBVIOUS
  <2> HIDE DEF N
  <2> QED
    BY <2>1, <2>2, <2>3, <2>4
<1>9. Good(FlattenSeq(f)) /\ ToSet(FlattenSeq(f)) = UNION {ToSet(f[i]) : i \in DOMAIN f}
  BY <1>2, <1>7, <1>8, GoodFlatten
<1>10. Stat(FlattenSeq(f), VCPUNames, r.base)
  BY <1>2, <1>7, <1>9 DEF Stat
<1> QED
  BY <1>1, <1>9, <1>10

(* f has the fields of each element in C, with labels of its own. *)
FieldsEach(f, C, r, metrics, own) ==
    /\ IsSeq(f)
    /\ C \subseteq DOMAIN f
    /\ \A i \in C : \E values : Unsigned(metrics, values) /\ f[i] = Fields(r, metrics, values, own[i])
    /\ \A i \in DOMAIN f \ C : f[i] = <<>>
    /\ \A i, j \in C : Own(own[i]) = Own(own[j]) => i = j

LEMMA FieldsPerElement ==
    ASSUME NEW f, NEW C, NEW r, NEW metrics, NEW own, NEW names,
           Table(metrics, names), FieldsEach(f, C, r, metrics, own)
    PROVE  Good(FlattenSeq(f)) /\ Stat(FlattenSeq(f), names, r.base)
<1> USE DEF FieldsEach
<1>1. ASSUME NEW i \in C
      PROVE  /\ Good(f[i]) /\ Stat(f[i], names, r.base)
             /\ \A x \in ToSet(f[i]) : x.labels.own = Own(own[i])
  <2>1. PICK values : Unsigned(metrics, values) /\ f[i] = Fields(r, metrics, values, own[i])
    OBVIOUS
  <2> DEFINE a == own[i]
             s == Fields(r, metrics, values, a)
  <2> HIDE DEF a
  <2>2. Good(s) /\ Stat(s, names, r.base) /\ \A x \in ToSet(s) : x.labels.own = Own(a)
    BY <2>1, FieldsReported
  <2>3. f[i] = s
    BY <2>1 DEF a
  <2> HIDE DEF s
  <2> QED
    BY <2>2, <2>3 DEF a
<1>2. \A i \in DOMAIN f \ C : Good(f[i]) /\ Stat(f[i], names, r.base) /\ ToSet(f[i]) = {}
  BY EmptyStat, GoodEmpty
<1>3. \A i \in DOMAIN f : Good(f[i])
  BY <1>1, <1>2
<1>4. ASSUME NEW i \in DOMAIN f, NEW j \in DOMAIN f, i # j PROVE Apart(f[i], f[j])
  <2> SUFFICES ASSUME NEW x \in ToSet(f[i]), NEW y \in ToSet(f[j]), Id(x) = Id(y) PROVE FALSE
    BY DEF Apart
  <2>1. x.labels = y.labels
    BY IdFacts
  <2>2. i \in C /\ j \in C
    BY <1>2
  <2>3. x.labels.own = Own(own[i]) /\ y.labels.own = Own(own[j])
    BY <1>1, <2>2
  <2>4. Own(own[i]) = Own(own[j])
    BY <2>1, <2>3
  <2> QED
    BY <1>4, <2>2, <2>4
<1>5. Good(FlattenSeq(f)) /\ ToSet(FlattenSeq(f)) = UNION {ToSet(f[i]) : i \in DOMAIN f}
  BY <1>3, <1>4, GoodFlatten
<1>6. Stat(FlattenSeq(f), names, r.base)
  BY <1>1, <1>2, <1>5 DEF Stat
<1> QED
  BY <1>5, <1>6

LEMMA NetworkStat ==
    ASSUME NEW r, StatsOK(r.stats)
    PROVE  Good(collectNetworkMetrics(r)) /\ Stat(collectNetworkMetrics(r), NetworkNames, r.base)
<1> DEFINE l == r.stats.net
           C == {i \in DOMAIN l : "name" \in DOMAIN l[i]}
           A(n) == [interface |-> InterfaceOf(n)]
           own == [i \in C |-> A(l[i])]
           F(i) == When("name" \in DOMAIN l[i], Fields(r, networkMetrics, l[i], A(l[i])))
           f == [i \in DOMAIN l |-> F(i)]
<1>1. collectNetworkMetrics(r) = FlattenSeq(f)
  BY DEF collectNetworkMetrics, ForAll
<1>2. IsSeq(l) /\ \A i, j \in C : InterfaceOf(l[i]) = InterfaceOf(l[j]) => i = j
  BY DEF StatsOK, Named, IsSeq
<1>13. \A i \in DOMAIN l : Unsigned(networkMetrics, l[i])
  BY DEF StatsOK
<1>3. \A i \in C : own[i] = A(l[i]) /\ F(i) = Fields(r, networkMetrics, l[i], A(l[i]))
  BY DEF When
<1>4. \A i \in DOMAIN l \ C : F(i) = <<>>
  BY DEF When
<1>5. \A n : DOMAIN A(n) = {"interface"} /\ A(n)["interface"] = InterfaceOf(n)
  OBVIOUS
<1>6. C \subseteq DOMAIN l
  OBVIOUS
<1> HIDE DEF A, F, C, l, own
<1>7. IsSeq(f) /\ DOMAIN f = DOMAIN l
  BY <1>2, MapIsSeq
<1>8. \A i \in DOMAIN l : f[i] = F(i)
  OBVIOUS
<1> HIDE DEF f
<1>9. ASSUME NEW i \in C, NEW j \in C, Own(own[i]) = Own(own[j]) PROVE i = j
  <2>1. DOMAIN own[i] = DOMAIN own[j] /\ "interface" \in DOMAIN own[i]
    BY <1>3, <1>5
  <2>2. own[i]["interface"] = own[j]["interface"]
    BY <1>9, <2>1, OwnDiffers
  <2>3. InterfaceOf(l[i]) = InterfaceOf(l[j])
    BY <1>3, <1>5, <2>2
  <2> QED
    BY <1>2, <2>3
<1>10. \A i \in C : \E values : /\ Unsigned(networkMetrics, values)
                                 /\ f[i] = Fields(r, networkMetrics, values, own[i])
  BY <1>3, <1>6, <1>8, <1>13
<1>11. \A i \in DOMAIN f \ C : f[i] = <<>>
  BY <1>4, <1>7, <1>8
<1>12. FieldsEach(f, C, r, networkMetrics, own)
  BY <1>6, <1>7, <1>9, <1>10, <1>11 DEF FieldsEach
<1> QED
  BY <1>1, <1>12, TablesOK, FieldsPerElement

LEMMA BlockStat ==
    ASSUME NEW r, StatsOK(r.stats)
    PROVE  Good(collectBlockMetrics(r)) /\ Stat(collectBlockMetrics(r), BlockNames, r.base)
<1> DEFINE l == r.stats.block
           C == {i \in DOMAIN l : "name" \in DOMAIN l[i]}
           A(b) == [drive |-> DriveOf(b)]
           own == [i \in C |-> A(l[i])]
           F(i) == When("name" \in DOMAIN l[i], Fields(r, blockMetrics, l[i], A(l[i])))
           f == [i \in DOMAIN l |-> F(i)]
<1>1. collectBlockMetrics(r) = FlattenSeq(f)
  BY DEF collectBlockMetrics, ForAll
<1>2. IsSeq(l) /\ \A i, j \in C : DriveOf(l[i]) = DriveOf(l[j]) => i = j
  BY DEF StatsOK, Named, IsSeq
<1>13. \A i \in DOMAIN l : Unsigned(blockMetrics, l[i])
  BY DEF StatsOK
<1>3. \A i \in C : own[i] = A(l[i]) /\ F(i) = Fields(r, blockMetrics, l[i], A(l[i]))
  BY DEF When
<1>4. \A i \in DOMAIN l \ C : F(i) = <<>>
  BY DEF When
<1>5. \A n : DOMAIN A(n) = {"drive"} /\ A(n)["drive"] = DriveOf(n)
  OBVIOUS
<1>6. C \subseteq DOMAIN l
  OBVIOUS
<1> HIDE DEF A, F, C, l, own
<1>7. IsSeq(f) /\ DOMAIN f = DOMAIN l
  BY <1>2, MapIsSeq
<1>8. \A i \in DOMAIN l : f[i] = F(i)
  OBVIOUS
<1> HIDE DEF f
<1>9. ASSUME NEW i \in C, NEW j \in C, Own(own[i]) = Own(own[j]) PROVE i = j
  <2>1. DOMAIN own[i] = DOMAIN own[j] /\ "drive" \in DOMAIN own[i]
    BY <1>3, <1>5
  <2>2. own[i]["drive"] = own[j]["drive"]
    BY <1>9, <2>1, OwnDiffers
  <2>3. DriveOf(l[i]) = DriveOf(l[j])
    BY <1>3, <1>5, <2>2
  <2> QED
    BY <1>2, <2>3
<1>10. \A i \in C : \E values : /\ Unsigned(blockMetrics, values)
                                 /\ f[i] = Fields(r, blockMetrics, values, own[i])
  BY <1>3, <1>6, <1>8, <1>13
<1>11. \A i \in DOMAIN f \ C : f[i] = <<>>
  BY <1>4, <1>7, <1>8
<1>12. FieldsEach(f, C, r, blockMetrics, own)
  BY <1>6, <1>7, <1>9, <1>10, <1>11 DEF FieldsEach
<1> QED
  BY <1>1, <1>12, TablesOK, FieldsPerElement

LEMMA DirtyRateStat ==
    ASSUME NEW r, StatsOK(r.stats)
    PROVE  /\ Good(collectDirtyRateMetrics(r))
           /\ Stat(collectDirtyRateMetrics(r), {"kubevirt_vmi_dirty_rate_bytes_per_second"}, r.base)
<1> DEFINE a == collectDirtyRateMetrics(r)
           v == Plain(Value(r.stats.dirtyRate) * 1024 * 1024)
<1>1. \/ a = <<>>
      \/ /\ a = <<newCollectorResultWithLabels(r, "kubevirt_vmi_dirty_rate_bytes_per_second", v, <<>>)>>
         /\ r.stats.dirtyRate # {}
  BY DEF collectDirtyRateMetrics, Maybe, newCollectorResult
<1>3. r.stats.dirtyRate # {} => Value(r.stats.dirtyRate) * 1024 * 1024 \in Nat
  <2>1. r.stats.dirtyRate # {} => Value(r.stats.dirtyRate) \in Nat
    BY ValueFacts DEF StatsOK
  <2>2. \A n \in Nat : n * 1024 * 1024 \in Nat
    OBVIOUS
  <2> QED
    BY <2>1, <2>2
<1>4. r.stats.dirtyRate # {} => v[1] \in Nat
  BY <1>3, ConvertFacts
<1> DEFINE m == "kubevirt_vmi_dirty_rate_bytes_per_second"
           none == <<>>
<1>5. \/ a = <<>>
      \/ /\ a = <<newCollectorResultWithLabels(r, m, v, none)>>
         /\ v[1] \in Nat
  BY <1>1, <1>4
<1> HIDE DEF a, v, m, none
<1>2. Good(a) /\ Stat(a, {m}, r.base)
  <2>1. CASE a = <<>>
    BY <2>1, EmptyStat
  <2>2. CASE a = <<newCollectorResultWithLabels(r, m, v, none)>> /\ v[1] \in Nat
    BY <2>2, OneStat
  <2> QED
    BY <1>5, <2>1, <2>2
<1> QED
  BY <1>2 DEF a, m

(* What the guest agent said. *)
LEMMA GuestInfoStat ==
    ASSUME NEW r, NEW metric, NEW answer
    PROVE  /\ Good(collectGuestInfo(r, metric, answer))
           /\ Stat(collectGuestInfo(r, metric, answer), {metric}, r.base)
<1> DEFINE a == collectGuestInfo(r, metric, answer)
           v == Plain(1)
           info == Value(answer)
<1>1. a = <<>> \/ a = <<newCollectorResultWithLabels(r, metric, v, info)>>
  BY DEF collectGuestInfo, Maybe
<1>3. v[1] \in Nat
  BY ConvertFacts
<1> HIDE DEF a, v, info
<1>2. Good(a) /\ Stat(a, {metric}, r.base)
  BY <1>1, <1>3, EmptyStat, OneStat
<1> QED
  BY <1>2 DEF a

LEMMA GuestUsersStat ==
    ASSUME NEW r, StatsOK(r.stats)
    PROVE  /\ Good(collectGuestUsers(r))
           /\ Stat(collectGuestUsers(r), {"kubevirt_vmi_guest_user_count"}, r.base)
<1> DEFINE a == collectGuestUsers(r)
           v == Plain(Len(Value(r.stats.users)))
<1>1. \/ a = <<>>
      \/ /\ a = <<newCollectorResultWithLabels(r, "kubevirt_vmi_guest_user_count", v, <<>>)>>
         /\ r.stats.users # {}
  BY DEF collectGuestUsers, Maybe, newCollectorResult
<1>3. r.stats.users # {} => Len(Value(r.stats.users)) \in Nat
  BY ValueFacts DEF StatsOK
<1>4. r.stats.users # {} => v[1] \in Nat
  BY <1>3, ConvertFacts
<1> DEFINE m == "kubevirt_vmi_guest_user_count"
           none == <<>>
<1>5. \/ a = <<>>
      \/ /\ a = <<newCollectorResultWithLabels(r, m, v, none)>>
         /\ v[1] \in Nat
  BY <1>1, <1>4
<1> HIDE DEF a, v, m, none
<1>2. Good(a) /\ Stat(a, {m}, r.base)
  <2>1. CASE a = <<>>
    BY <2>1, EmptyStat
  <2>2. CASE a = <<newCollectorResultWithLabels(r, m, v, none)>> /\ v[1] \in Nat
    BY <2>2, OneStat
  <2> QED
    BY <1>5, <2>1, <2>2
<1> QED
  BY <1>2 DEF a, m

DiskTotal == {"kubevirt_vmi_guest_disk_total_bytes"}
DiskUsed == {"kubevirt_vmi_guest_disk_used_bytes"}

(* The two samples of a disk, and their labels. *)
DiskLabels(d) == [disk_name |-> d.name, mountpoint |-> d.mountpoint]
DiskSamples(r, d) ==
    <<newCollectorResultWithLabels(r, "kubevirt_vmi_guest_disk_total_bytes", Plain(d.total), DiskLabels(d)),
      newCollectorResultWithLabels(r, "kubevirt_vmi_guest_disk_used_bytes", Plain(d.used), DiskLabels(d))>>

LEMMA DiskStat ==
    ASSUME NEW r, NEW d, d.total \in Nat, d.used \in Nat
    PROVE  /\ Good(DiskSamples(r, d)) /\ Stat(DiskSamples(r, d), DiskTotal \cup DiskUsed, r.base)
           /\ \A z \in ToSet(DiskSamples(r, d)) : z.labels.own = Own(DiskLabels(d))
<1> DEFINE l == DiskLabels(d)
           u == Plain(d.total)
           v == Plain(d.used)
           a == <<newCollectorResultWithLabels(r, "kubevirt_vmi_guest_disk_total_bytes", u, l)>>
           b == <<newCollectorResultWithLabels(r, "kubevirt_vmi_guest_disk_used_bytes", v, l)>>
<1>1. DiskSamples(r, d) = a \o b
  BY PairIsConcat DEF DiskSamples
<1>6. u[1] \in Nat /\ v[1] \in Nat
  BY ConvertFacts
<1> HIDE DEF l, u, v
<1>2. Good(a) /\ Stat(a, DiskTotal, r.base) /\ \A x \in ToSet(a) : x.labels.own = Own(l)
  BY <1>6, OneStat DEF DiskTotal
<1>3. Good(b) /\ Stat(b, DiskUsed, r.base) /\ \A x \in ToSet(b) : x.labels.own = Own(l)
  BY <1>6, OneStat DEF DiskUsed
<1>4. DiskTotal \cap DiskUsed = {}
  BY DEF DiskTotal, DiskUsed
<1> HIDE DEF a, b
<1>5. /\ Good(a \o b) /\ Stat(a \o b, DiskTotal \cup DiskUsed, r.base)
      /\ ToSet(a \o b) = ToSet(a) \cup ToSet(b)
  BY <1>2, <1>3, <1>4, ConcatStat
<1> QED
  BY <1>1, <1>2, <1>3, <1>5 DEF l

LEMMA DiskLabelsDiffer ==
    ASSUME NEW d, NEW e, Own(DiskLabels(d)) = Own(DiskLabels(e))
    PROVE  d.name = e.name /\ d.mountpoint = e.mountpoint
<1> DEFINE a == DiskLabels(d)
           b == DiskLabels(e)
<1>1. DOMAIN a = DOMAIN b /\ "disk_name" \in DOMAIN a /\ "mountpoint" \in DOMAIN a
  BY DEF DiskLabels
<1>2. /\ a["disk_name"] = d.name /\ b["disk_name"] = e.name
      /\ a["mountpoint"] = d.mountpoint /\ b["mountpoint"] = e.mountpoint
  BY DEF DiskLabels
<1>3. Own(a) = Own(b)
  OBVIOUS
<1> HIDE DEF a, b
<1>4. a["disk_name"] = b["disk_name"] /\ a["mountpoint"] = b["mountpoint"]
  BY <1>1, <1>3, OwnDiffers
<1> QED
  BY <1>2, <1>4

LEMMA GuestDisksStat ==
    ASSUME NEW r, StatsOK(r.stats)
    PROVE  /\ Good(collectGuestDiskStats(r))
           /\ Stat(collectGuestDiskStats(r), DiskTotal \cup DiskUsed, r.base)
<1>1. CASE r.stats.disks = {}
  BY <1>1, EmptyStat DEF collectGuestDiskStats, Maybe
<1>2. CASE r.stats.disks # {}
  <2> DEFINE l == Value(r.stats.disks)
             F(i) == DiskSamples(r, l[i])
             f == [i \in DOMAIN l |-> F(i)]
  <2>1. collectGuestDiskStats(r) = FlattenSeq(f)
    BY <1>2 DEF collectGuestDiskStats, Maybe, ForAll, DiskSamples, DiskLabels
  <2>2. l \in r.stats.disks
    BY <1>2, ValueFacts
  <2>3. Unique(l, LAMBDA d : <<d.name, d.mountpoint>>)
    BY <2>2 DEF StatsOK
  <2>5. \A i \in DOMAIN l : l[i].total \in Nat /\ l[i].used \in Nat
    BY <2>2 DEF StatsOK
  <2> HIDE DEF l
  <2>4. IsSeq(l) /\ \A i, j \in DOMAIN l : l[i].name = l[j].name /\ l[i].mountpoint = l[j].mountpoint
                                           => i = j
    BY <2>3 DEF Unique, Named, IsSeq
  <2>7. \A i \in DOMAIN l : /\ Good(F(i)) /\ Stat(F(i), DiskTotal \cup DiskUsed, r.base)
                             /\ \A z \in ToSet(F(i)) : z.labels.own = Own(DiskLabels(l[i]))
    BY <2>5, DiskStat
  <2> HIDE DEF F
  <2>8. IsSeq(f) /\ DOMAIN f = DOMAIN l
    BY <2>4, MapIsSeq
  <2>9. \A i \in DOMAIN l : f[i] = F(i)
    OBVIOUS
  <2> HIDE DEF f
  <2>10. ASSUME NEW i \in DOMAIN l, NEW j \in DOMAIN l, i # j PROVE Apart(f[i], f[j])
    <3> SUFFICES ASSUME NEW z \in ToSet(f[i]), NEW w \in ToSet(f[j]), Id(z) = Id(w) PROVE FALSE
      BY DEF Apart
    <3>1. z.labels = w.labels
      BY IdFacts
    <3>2. z.labels.own = Own(DiskLabels(l[i])) /\ w.labels.own = Own(DiskLabels(l[j]))
      BY <2>7, <2>9
    <3>3. Own(DiskLabels(l[i])) = Own(DiskLabels(l[j]))
      BY <3>1, <3>2
    <3>4. l[i].name = l[j].name /\ l[i].mountpoint = l[j].mountpoint
      BY <3>3, DiskLabelsDiffer
    <3> QED
      BY <2>4, <2>10, <3>4
  <2>11. \A i \in DOMAIN f : Good(f[i])
    BY <2>7, <2>8, <2>9
  <2>12. Good(FlattenSeq(f)) /\ ToSet(FlattenSeq(f)) = UNION {ToSet(f[i]) : i \in DOMAIN f}
    BY <2>8, <2>10, <2>11, GoodFlatten
  <2>13. Stat(FlattenSeq(f), DiskTotal \cup DiskUsed, r.base)
    BY <2>7, <2>8, <2>9, <2>12 DEF Stat
  <2> QED
    BY <2>1, <2>12, <2>13
<1> QED
  BY <1>1, <1>2

LEMMA GuestInterfacesStat ==
    ASSUME NEW r, StatsOK(r.stats)
    PROVE  /\ Good(collectGuestInterfaces(r))
           /\ Stat(collectGuestInterfaces(r), {"kubevirt_vmi_guest_interface_info"}, r.base)
<1>1. CASE r.stats.interfaces = {}
  BY <1>1, EmptyStat DEF collectGuestInterfaces, Maybe
<1>2. CASE r.stats.interfaces # {}
  <2> DEFINE l == Value(r.stats.interfaces)
             A(e) == [interface_name |-> e.name, mac |-> e.mac,
                      ip_address |-> IF e.addresses = <<>> THEN "" ELSE Head(e.addresses)]
             v == Plain(1)
             x(e) == newCollectorResultWithLabels(r, "kubevirt_vmi_guest_interface_info", v, A(e))
             g == [i \in DOMAIN l |-> x(l[i])]
             f == [i \in DOMAIN l |-> <<x(l[i])>>]
  <2>1. collectGuestInterfaces(r) = FlattenSeq(f)
    BY <1>2 DEF collectGuestInterfaces, Maybe, ForAll
  <2>2. l \in r.stats.interfaces
    BY <1>2, ValueFacts
  <2>3. Unique(l, LAMBDA i : i.name)
    BY <2>2 DEF StatsOK
  <2>14. v[1] \in Nat
    BY ConvertFacts
  <2> HIDE DEF l
  <2>4. IsSeq(l) /\ \A i, j \in DOMAIN l : l[i].name = l[j].name => i = j
    BY <2>3 DEF Unique, Named, IsSeq
  <2>6. \A e : DOMAIN A(e) = {"interface_name", "mac", "ip_address"} /\ A(e)["interface_name"] = e.name
    OBVIOUS
  <2> HIDE DEF A, v
  <2>5. \A e : /\ IsSample(x(e)) /\ x(e).metric = "kubevirt_vmi_guest_interface_info"
               /\ x(e).labels.base = r.base /\ x(e).labels.own = Own(A(e)) /\ x(e).value[1] \in Nat
    BY <2>14, ResultFacts
  <2> HIDE DEF A, x
  <2>7. IsSeq(f) /\ DOMAIN f = DOMAIN l
    BY <2>4, MapIsSeq
  <2>8. \A i \in DOMAIN l : f[i] = <<g[i]>> /\ g[i] = x(l[i])
    OBVIOUS
  <2> HIDE DEF f, g
  <2>9. ASSUME NEW i \in DOMAIN l, NEW j \in DOMAIN l, Id(g[i]) = Id(g[j]) PROVE i = j
    <3> DEFINE a == A(l[i])
               b == A(l[j])
    <3>1. g[i].labels = g[j].labels
      BY <2>9, IdFacts
    <3>2. g[i].labels.own = Own(a) /\ g[j].labels.own = Own(b)
      BY <2>5, <2>8
    <3>3. Own(a) = Own(b)
      BY <3>1, <3>2
    <3>4. DOMAIN a = DOMAIN b /\ "interface_name" \in DOMAIN a
      BY <2>6
    <3>5. a["interface_name"] = l[i].name /\ b["interface_name"] = l[j].name
      BY <2>6
    <3> HIDE DEF a, b
    <3>6. a["interface_name"] = b["interface_name"]
      BY <3>3, <3>4, OwnDiffers
    <3> QED
      BY <2>4, <3>5, <3>6
  <2>10. OneEach(f, DOMAIN l, g)
    BY <2>5, <2>7, <2>8, <2>9 DEF OneEach
  <2>11. Good(FlattenSeq(f)) /\ \A e : e \in ToSet(FlattenSeq(f)) <=> \E i \in DOMAIN l : e = g[i]
    BY <2>10, OnePerElement
  <2>12. \A i \in DOMAIN l : /\ g[i].metric = "kubevirt_vmi_guest_interface_info"
                              /\ g[i].labels.base = r.base /\ g[i].value[1] \in Nat
    BY <2>5, <2>8
  <2>13. Stat(FlattenSeq(f), {"kubevirt_vmi_guest_interface_info"}, r.base)
    BY <2>11, <2>12 DEF Stat
  <2> QED
    BY <2>1, <2>11, <2>13
<1> QED
  BY <1>1, <1>2

GuestNames == {"kubevirt_vmi_guest_os_info", "kubevirt_vmi_guest_hostname", "kubevirt_vmi_guest_timezone",
               "kubevirt_vmi_guest_user_count", "kubevirt_vmi_guest_disk_total_bytes",
               "kubevirt_vmi_guest_disk_used_bytes", "kubevirt_vmi_guest_interface_info"}

LEMMA GuestStat ==
    ASSUME NEW r, StatsOK(r.stats)
    PROVE  Good(collectGuestMetrics(r)) /\ Stat(collectGuestMetrics(r), GuestNames, r.base)
<1> DEFINE N1 == {"kubevirt_vmi_guest_os_info"}
           N2 == {"kubevirt_vmi_guest_hostname"}
           N3 == {"kubevirt_vmi_guest_timezone"}
           N4 == {"kubevirt_vmi_guest_user_count"}
           N5 == DiskTotal \cup DiskUsed
           N6 == {"kubevirt_vmi_guest_interface_info"}
           s1 == collectGuestInfo(r, "kubevirt_vmi_guest_os_info", r.stats.osInfo)
           s2 == collectGuestInfo(r, "kubevirt_vmi_guest_hostname", r.stats.hostName)
           s3 == collectGuestInfo(r, "kubevirt_vmi_guest_timezone", r.stats.timezone)
           s4 == collectGuestUsers(r)
           s5 == collectGuestDiskStats(r)
           s6 == collectGuestInterfaces(r)
           b == r.base
<1>1. /\ Good(s1) /\ Stat(s1, N1, b)
      /\ Good(s2) /\ Stat(s2, N2, b)
      /\ Good(s3) /\ Stat(s3, N3, b)
  BY GuestInfoStat
<1>2. /\ Good(s4) /\ Stat(s4, N4, b)
      /\ Good(s5) /\ Stat(s5, N5, b)
      /\ Good(s6) /\ Stat(s6, N6, b)
  BY GuestUsersStat, GuestDisksStat, GuestInterfacesStat
<1>3. /\ N1 \cap N2 = {}
      /\ (N1 \cup N2) \cap N3 = {}
      /\ (N1 \cup N2 \cup N3) \cap N4 = {}
      /\ (N1 \cup N2 \cup N3 \cup N4) \cap N5 = {}
      /\ (N1 \cup N2 \cup N3 \cup N4 \cup N5) \cap N6 = {}
      /\ GuestNames = N1 \cup N2 \cup N3 \cup N4 \cup N5 \cup N6
  BY DEF GuestNames, DiskTotal, DiskUsed
<1>4. collectGuestMetrics(r) = s1 \o s2 \o s3 \o s4 \o s5 \o s6
  BY DEF collectGuestMetrics
<1> HIDE DEF N1, N2, N3, N4, N5, N6, s1, s2, s3, s4, s5, s6, b
<1>5. Good(s1 \o s2) /\ Stat(s1 \o s2, N1 \cup N2, b)
  BY <1>1, <1>3, ConcatStat
<1> DEFINE p2 == s1 \o s2
           M2 == N1 \cup N2
<1> HIDE DEF p2, M2
<1>6. Good(p2 \o s3) /\ Stat(p2 \o s3, M2 \cup N3, b)
  BY <1>1, <1>3, <1>5, ConcatStat DEF p2, M2
<1> DEFINE p3 == p2 \o s3
           M3 == M2 \cup N3
<1> HIDE DEF p3, M3
<1>7. Good(p3 \o s4) /\ Stat(p3 \o s4, M3 \cup N4, b)
  <2>1. M3 \cap N4 = {}
    BY <1>3 DEF M3, M2
  <2>2. Good(p3) /\ Stat(p3, M3, b)
    BY <1>6 DEF p3, M3
  <2> QED
    BY <1>2, <2>1, <2>2, ConcatStat
<1> DEFINE p4 == p3 \o s4
           M4 == M3 \cup N4
<1> HIDE DEF p4, M4
<1>8. Good(p4 \o s5) /\ Stat(p4 \o s5, M4 \cup N5, b)
  <2>1. M4 \cap N5 = {}
    BY <1>3 DEF M4, M3, M2
  <2>2. Good(p4) /\ Stat(p4, M4, b)
    BY <1>7 DEF p4, M4
  <2> QED
    BY <1>2, <2>1, <2>2, ConcatStat
<1> DEFINE p5 == p4 \o s5
           M5 == M4 \cup N5
<1> HIDE DEF p5, M5
<1>9. Good(p5 \o s6) /\ Stat(p5 \o s6, M5 \cup N6, b)
  <2>1. M5 \cap N6 = {}
    BY <1>3 DEF M5, M4, M3, M2
  <2>2. Good(p5) /\ Stat(p5, M5, b)
    BY <1>8 DEF p5, M5
  <2> QED
    BY <1>2, <2>1, <2>2, ConcatStat
<1>10. M5 \cup N6 = GuestNames
  BY <1>3 DEF M5, M4, M3, M2
<1>11. collectGuestMetrics(r) = p5 \o s6
  BY <1>4 DEF p5, p4, p3, p2
<1>12. Stat(p5 \o s6, GuestNames, b)
  BY <1>9, <1>10
<1> QED
  BY <1>9, <1>11, <1>12 DEF b

StatisticsMetrics ==
    CPUNames \cup LoadNames \cup MemoryNames \cup VCPUNames \cup NetworkNames \cup BlockNames
    \cup {"kubevirt_vmi_dirty_rate_bytes_per_second"} \cup GuestNames

LEMMA StatisticsStat ==
    ASSUME NEW r, StatsOK(r.stats)
    PROVE  Good(VMStatsSamples(r)) /\ Stat(VMStatsSamples(r), StatisticsMetrics, r.base)
<1> DEFINE N1 == CPUNames \cup LoadNames
           N2 == MemoryNames
           N3 == VCPUNames
           N4 == NetworkNames
           N5 == BlockNames
           N6 == {"kubevirt_vmi_dirty_rate_bytes_per_second"}
           N7 == GuestNames
           s1 == collectCPUMetrics(r)
           s2 == collectMemoryMetrics(r)
           s3 == collectVCPUMetrics(r)
           s4 == collectNetworkMetrics(r)
           s5 == collectBlockMetrics(r)
           s6 == collectDirtyRateMetrics(r)
           s7 == collectGuestMetrics(r)
           b == r.base
<1>1. Good(s1) /\ Stat(s1, N1, b) /\ Good(s2) /\ Stat(s2, N2, b) /\ Good(s6) /\ Stat(s6, N6, b)
  BY CPUStat, MemoryStat, DirtyRateStat
<1>2. Good(s3) /\ Stat(s3, N3, b)
  BY VCPUStat
<1>3. Good(s4) /\ Stat(s4, N4, b)
  BY NetworkStat
<1>4. Good(s5) /\ Stat(s5, N5, b)
  BY BlockStat
<1>5. Good(s7) /\ Stat(s7, N7, b)
  BY GuestStat
<1>6. N1 \cap N2 = {}
  BY DEF CPUNames, LoadNames, MemoryNames
<1>7. (N1 \cup N2) \cap N3 = {}
  BY DEF CPUNames, LoadNames, MemoryNames, VCPUNames
<1>8. (N1 \cup N2 \cup N3) \cap N4 = {}
  BY DEF CPUNames, LoadNames, MemoryNames, VCPUNames, NetworkNames
<1>9. (N1 \cup N2 \cup N3 \cup N4) \cap N5 = {}
  BY DEF CPUNames, LoadNames, MemoryNames, VCPUNames, NetworkNames, BlockNames
<1>10. (N1 \cup N2 \cup N3 \cup N4 \cup N5) \cap N6 = {}
  BY DEF CPUNames, LoadNames, MemoryNames, VCPUNames, NetworkNames, BlockNames
<1>11. (N1 \cup N2 \cup N3 \cup N4 \cup N5 \cup N6) \cap N7 = {}
  BY DEF CPUNames, LoadNames, MemoryNames, VCPUNames, NetworkNames, BlockNames, GuestNames
<1>12. StatisticsMetrics = N1 \cup N2 \cup N3 \cup N4 \cup N5 \cup N6 \cup N7
  BY DEF StatisticsMetrics
<1>13. VMStatsSamples(r) = s1 \o s2 \o s3 \o s4 \o s5 \o s6 \o s7
  BY DEF VMStatsSamples
<1> HIDE DEF N1, N2, N3, N4, N5, N6, N7, s1, s2, s3, s4, s5, s6, s7, b
<1> DEFINE p2 == s1 \o s2
           M2 == N1 \cup N2
           p3 == p2 \o s3
           M3 == M2 \cup N3
           p4 == p3 \o s4
           M4 == M3 \cup N4
           p5 == p4 \o s5
           M5 == M4 \cup N5
           p6 == p5 \o s6
           M6 == M5 \cup N6
           p7 == p6 \o s7
           M7 == M6 \cup N7
<1>14. VMStatsSamples(r) = p7
  BY <1>13
<1>15. M7 = StatisticsMetrics /\ M2 \cap N3 = {} /\ M3 \cap N4 = {} /\ M4 \cap N5 = {}
       /\ M5 \cap N6 = {} /\ M6 \cap N7 = {}
  BY <1>7, <1>8, <1>9, <1>10, <1>11, <1>12
<1>16. Good(p2) /\ Stat(p2, M2, b)
  BY <1>1, <1>6, ConcatStat
<1> HIDE DEF p2, M2
<1>17. Good(p3) /\ Stat(p3, M3, b)
  BY <1>2, <1>15, <1>16, ConcatStat
<1> HIDE DEF p3, M3
<1>18. Good(p4) /\ Stat(p4, M4, b)
  BY <1>3, <1>15, <1>17, ConcatStat
<1> HIDE DEF p4, M4
<1>19. Good(p5) /\ Stat(p5, M5, b)
  BY <1>4, <1>15, <1>18, ConcatStat
<1> HIDE DEF p5, M5
<1>20. Good(p6) /\ Stat(p6, M6, b)
  BY <1>1, <1>15, <1>19, ConcatStat
<1> HIDE DEF p6, M6
<1>21. Good(p7) /\ Stat(p7, M7, b)
  BY <1>5, <1>15, <1>20, ConcatStat
<1> HIDE DEF p7, M7
<1> QED
  BY <1>14, <1>15, <1>21 DEF b
=============================================================================
