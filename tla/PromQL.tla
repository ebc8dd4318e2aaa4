------------------------------- MODULE PromQL -------------------------------
(***************************************************************************)
(* The part of Prometheus's query language the rules use. An instant       *)
(* vector is a set of elements, each with labels, a function on the names  *)
(* of those that are not empty, and a value. A database gives the vector   *)
(* of each metric it has. Counters appear with their growth, so that       *)
(* rate() selects them. Ratios are whole percents, rounded down.           *)
(*                                                                         *)
(* A join that finds two candidates where one is allowed fails the whole   *)
(* rule. Here it yields nothing, which is the same unless the rule goes on *)
(* with "or". Three do. The joins of Ready and NoAvailableNodes go by      *)
(* labels that tell apart all they select and do not fail; that of         *)
(* Orphaned fails when virt-handlers of two namespaces have one name: what *)
(* is said of it assumes unique names.                                     *)
(***************************************************************************)
EXTENDS Integers, FiniteSets, FiniteSetsExt

Element(labels, value) == [labels |-> labels, value |-> value]

(* The database of a set of series. *)
Series(metric, labels, value) == [metric |-> metric, element |-> Element(labels, value)]
Database(series) ==
    [m \in {s.metric : s \in series} |-> {s.element : s \in {t \in series : t.metric = m}}]

NoLabels == [l \in {} |-> ""]
vector(n) == {Element(NoLabels, n)}

(* The labels or the metrics of f, and those that only g has. *)
Extend(f, g) == [x \in DOMAIN f \cup DOMAIN g |-> IF x \in DOMAIN f THEN f[x] ELSE g[x]]

All(db, metric) == IF metric \in DOMAIN db THEN db[metric] ELSE {}

(* Selection: want gives the values accepted for some of the labels. *)
Select(db, metric, want) ==
    {e \in All(db, metric) :
        \A l \in DOMAIN want : l \in DOMAIN e.labels /\ e.labels[l] \in want[l]}

Where(v, Holds(_)) == {e \in v : Holds(e.value)}
Map(v, Op(_)) == {Element(e.labels, Op(e.value)) : e \in v}

(* The labels of an element that take part in a match or a grouping. *)
On(e, names) == [l \in names \cap DOMAIN e.labels |-> e.labels[l]]

-----------------------------------------------------------------------------
AggregateBy(v, names, Op(_)) ==
    {Element(g, Op({e \in v : On(e, names) = g})) : g \in {On(e, names) : e \in v}}

SumBy(v, names) == AggregateBy(v, names, LAMBDA es : MapThenSumSet(LAMBDA e : e.value, es))
CountBy(v, names) == AggregateBy(v, names, Cardinality)
MaxBy(v, names) == AggregateBy(v, names, LAMBDA es : Max({e.value : e \in es}))
SumAll(v) == SumBy(v, {})
CountAll(v) == CountBy(v, {})

-----------------------------------------------------------------------------
Or(v, w) == v \cup {e \in w : \A f \in v : f.labels # e.labels}
And(v, w) == {e \in v : \E f \in w : f.labels = e.labels}
AndOn(v, w, on) == {e \in v : \E f \in w : On(e, on) = On(f, on)}
UnlessOn(v, w, on) == v \ AndOn(v, w, on)

Ambiguous(v, on) == \E e, f \in v : e # f /\ On(e, on) = On(f, on)

(* Operators between vectors: on equal labels, and on those of a list. *)
Binary(v, w, Op(_, _)) ==
    {Element(p[1].labels, Op(p[1].value, p[2].value)) :
        p \in {q \in v \X w : q[1].labels = q[2].labels}}

BinaryOn(v, w, on, Op(_, _)) ==
    IF Ambiguous(v, on) \/ Ambiguous(w, on) THEN {}
    ELSE {Element(On(p[1], on), Op(p[1].value, p[2].value)) :
             p \in {q \in v \X w : On(q[1], on) = On(q[2], on)}}

(* Many elements of v to one of w, whose labels in take are copied. *)
GroupLeft(v, w, on, take, Op(_, _)) ==
    LET labels(e, f) ==
            [l \in (DOMAIN e.labels \ take) \cup (DOMAIN f.labels \cap take) |->
                IF l \in take THEN f.labels[l] ELSE e.labels[l]]
    IN  IF Ambiguous(w, on) THEN {}
        ELSE {Element(labels(p[1], p[2]), Op(p[1].value, p[2].value)) :
                 p \in {q \in v \X w : On(q[1], on) = On(q[2], on)}}

Minus(a, b) == a - b
Times_(a, b) == a * b

(* A division by zero gives no value that a comparison here would keep. *)
PercentOn(v, w, on) ==
    BinaryOn(v, Where(w, LAMBDA n : n # 0), on, LAMBDA a, b : (100 * a) \div b)

LabelReplace(v, target, source) ==
    {IF source \notin DOMAIN e.labels THEN e
     ELSE Element([l \in DOMAIN e.labels \cup {target} |->
                      IF l = target THEN e.labels[source] ELSE e.labels[l]], e.value) : e \in v}
=============================================================================
