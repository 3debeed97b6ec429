-------------------------- MODULE SessionQueueProofs --------------------------
(***************************************************************************)
(* Proofs about SessionQueue, for any sets of messages, announces, jobs    *)
(* and notices and any priorities.                                         *)
(*                                                                         *)
(* First what push and pushAll do to a sorted queue; then the invariant,   *)
(* step by step.  A drained or popped queue is emptied and pushed again    *)
(* entry by entry, so that the order of the messages rests on an induction *)
(* over these pushes, done by the least counterexample.                    *)
(***************************************************************************)
EXTENDS SessionQueue, WellFoundedInduction, TLAPS

Items == Messages \cup Entries

\* A queue in the order of the sort keys; one without a second copy of anything;
\* what is in it; and what comes behind what.
Sorted(q) == \A i, j \in DOMAIN q : i < j => ~ Before(q[j], q[i])

Distinct(q) == \A i, j \in DOMAIN q : q[i] = q[j] => i = j

Has(q, x) == \E i \in DOMAIN q : q[i] = x

Follows(q, x, y) == \E i, j \in DOMAIN q : i < j /\ q[i] = x /\ q[j] = y

\* r is q with e at p.
Inserted(q, r, p, e) ==
    /\ r \in Seq(Items) /\ Len(r) = Len(q) + 1 /\ r[p] = e
    /\ \A i \in 1 .. p - 1 : r[i] = q[i]
    /\ \A i \in p .. Len(q) : r[i + 1] = q[i]

\* A non-empty set of numbers has a least one.
LEMMA Least ==
  ASSUME NEW T \in SUBSET Nat, T # {}
  PROVE  \E x \in T : \A y \in T : x <= y
<1> DEFINE R == OpToRel(<, Nat)
<1>1. IsWellFoundedOn(R, Nat)
  BY NatLessThanWellFounded, Zenon
<1>2. PICK x \in T : \A y \in T : ~ (<<y, x>> \in R)
  <2> HIDE DEF R
  <2> QED BY <1>1, WFMin, Zenon
<1>3. \A a, b \in Nat : a < b => <<a, b>> \in R
  BY DEF R, OpToRel
<1>4. \A y \in T : ~ (y < x)
  <2> HIDE DEF R
  <2> QED BY <1>2, <1>3, Zenon
<1> QED BY <1>4

\* What the provers need to know of sequences.
LEMMA Length ==
  ASSUME NEW S, NEW seq \in Seq(S)
  PROVE  /\ Len(seq) \in Nat /\ DOMAIN seq = 1 .. Len(seq)
         /\ seq \in [1 .. Len(seq) -> S]
  OBVIOUS

LEMMA Concatenation ==
  ASSUME NEW S, NEW u \in Seq(S), NEW v \in Seq(S)
  PROVE  u \o v \in Seq(S) /\ Len(u \o v) = Len(u) + Len(v)
  OBVIOUS

\* First finds it.
LEMMA FirstIs ==
  ASSUME NEW I \in SUBSET Nat, I # {}
  PROVE  First(I) \in I /\ \A y \in I : First(I) <= y
<1>1. \E x \in I : \A y \in I : x <= y
  BY Least
<1> QED BY <1>1, Zenon DEF First

\* The sort keys are comparable.
LEMMA Keys ==
  /\ \A e \in Items : priority(e) \in 0 .. 2
  /\ \A m \in Messages : priority(m) = 0
  BY QueueAssumption DEF Items, priority, IsUser

\* Before is a strict weak order, and no user message comes before anything.
LEMMA Ordering ==
  /\ \A a, b \in Items : Before(a, b) => ~ Before(b, a)
  /\ \A a, b, c \in Items : Before(a, b) /\ ~ Before(c, b) => Before(a, c)
  /\ \A m \in Messages, a \in Items : ~ Before(m, a)
<1>1. ASSUME NEW a \in Items, NEW b \in Items, Before(a, b) PROVE ~ Before(b, a)
  BY <1>1, Keys DEF Before
<1>2. ASSUME NEW a \in Items, NEW b \in Items, NEW c \in Items, Before(a, b), ~ Before(c, b)
      PROVE  Before(a, c)
  BY <1>2, Keys DEF Before
<1>3. ASSUME NEW m \in Messages, NEW a \in Items PROVE ~ Before(m, a)
  BY Keys DEF Before, IsUser, Items
<1> QED BY <1>1, <1>2, <1>3

\* push leaves an announce that is queued alone; else it inserts the entry behind
\* all those it does not precede.
LEMMA PushDoes ==
  ASSUME NEW q \in Seq(Items), NEW e \in Items
  PROVE  \/ push(q, e) = q /\ e \in Announces /\ Has(q, e)
         \/ /\ ~ (e \in Announces /\ Has(q, e))
            /\ \E p \in 1 .. Len(q) + 1 :
                 /\ Inserted(q, push(q, e), p, e)
                 /\ \A i \in 1 .. p - 1 : ~ Before(e, q[i])
                 /\ p <= Len(q) => Before(e, q[p])
<1> DEFINE I == {i \in DOMAIN q : Before(e, q[i])}
<1>1. push(q, e) = IF e \in Announces /\ Has(q, e) THEN q
                   ELSE Insert(q, e, I)
  BY DEF push, Has
<1>2. CASE e \in Announces /\ Has(q, e)
  BY <1>1, <1>2
<1>3. CASE ~ (e \in Announces /\ Has(q, e)) /\ I = {}
  <2>1. push(q, e) = Append(q, e)
    BY <1>1, <1>3 DEF Insert
  <2>2. Inserted(q, Append(q, e), Len(q) + 1, e)
    BY DEF Inserted
  <2>3. \A i \in 1 .. Len(q) : ~ Before(e, q[i])
    BY <1>3
  <2> QED BY <1>3, <2>1, <2>2, <2>3
<1>4. CASE ~ (e \in Announces /\ Has(q, e)) /\ I # {}
  <2>1. Len(q) \in Nat /\ I \in SUBSET (1 .. Len(q)) /\ I \in SUBSET Nat
    BY Length
  <2> DEFINE p == First(I)
  <2>2. p \in I /\ \A y \in I : p <= y
    <3> HIDE DEF I
    <3> QED BY <1>4, <2>1, FirstIs
  <2> HIDE DEF p
  <2>3. p \in 1 .. Len(q) /\ Before(e, q[p]) /\ \A i \in 1 .. p - 1 : ~ Before(e, q[i])
    BY <2>1, <2>2
  <2>4. push(q, e) = SubSeq(q, 1, p - 1) \o <<e>> \o SubSeq(q, p, Len(q))
    BY <1>1, <1>4, Zenon DEF p, Insert
  <2>5. Inserted(q, push(q, e), p, e)
    <3> DEFINE u == SubSeq(q, 1, p - 1)
               v == SubSeq(q, p, Len(q))
    <3>1. u \in Seq(Items) /\ Len(u) = p - 1 /\ \A i \in 1 .. p - 1 : u[i] = q[i]
      BY <2>1, <2>3
    <3>2. /\ v \in Seq(Items) /\ Len(v) = Len(q) - p + 1
          /\ \A i \in 1 .. Len(q) - p + 1 : v[i] = q[p + i - 1]
      BY <2>1, <2>3
    <3> HIDE DEF u, v
    <3> DEFINE w == u \o <<e>>
    <3>3. /\ w \in Seq(Items) /\ Len(w) = p
          /\ w[p] = e /\ \A i \in 1 .. p - 1 : w[i] = q[i]
      BY <2>1, <2>3, <3>1
    <3> HIDE DEF w
    <3>4. push(q, e) = w \o v
      BY <2>4 DEF u, v, w
    <3>5. w \o v \in Seq(Items) /\ Len(w \o v) = Len(q) + 1
      <4>1. w \o v \in Seq(Items) /\ Len(w \o v) = Len(w) + Len(v)
        BY <3>2, <3>3, Concatenation, Zenon
      <4>2. p + (Len(q) - p + 1) = Len(q) + 1
        BY <2>1, <2>3
      <4> QED BY <3>2, <3>3, <4>1, <4>2
    <3>6. \A i \in 1 .. p : (w \o v)[i] = w[i]
      BY <2>1, <2>3, <3>2, <3>3
    <3>7. \A i \in p .. Len(q) : (w \o v)[i + 1] = q[i]
      <4> TAKE i \in p .. Len(q)
      <4>1. (w \o v)[i + 1] = v[i + 1 - p] /\ i + 1 - p \in 1 .. Len(q) - p + 1
        BY <2>1, <2>3, <3>2, <3>3
      <4>2. v[i + 1 - p] = q[p + (i + 1 - p) - 1]
        BY <3>2, <4>1
      <4>3. p + (i + 1 - p) - 1 = i
        BY <2>1, <2>3
      <4> QED BY <4>1, <4>2, <4>3
    <3> QED BY <2>1, <2>3, <3>3, <3>4, <3>5, <3>6, <3>7 DEF Inserted
  <2> QED BY <1>4, <2>1, <2>3, <2>5
<1> QED BY <1>2, <1>3, <1>4

\* A queue remains a queue.
LEMMA PushIn ==
  ASSUME NEW q \in Seq(Items), NEW e \in Items
  PROVE  push(q, e) \in Seq(Items)
  BY PushDoes DEF Inserted

\* What any insertion keeps.
LEMMA InsertKeeps ==
  ASSUME NEW q \in Seq(Items), NEW e \in Items, NEW r, NEW p \in 1 .. Len(q) + 1,
         Inserted(q, r, p, e)
  PROVE  /\ \A x : Has(r, x) <=> Has(q, x) \/ x = e
         /\ Distinct(q) /\ ~ Has(q, e) => Distinct(r)
         /\ \A x, y : Follows(q, x, y) => Follows(r, x, y)
<1>1. /\ Len(q) \in Nat /\ DOMAIN q = 1 .. Len(q) /\ DOMAIN r = 1 .. Len(q) + 1
      /\ r[p] = e
      /\ \A i \in 1 .. p - 1 : r[i] = q[i]
      /\ \A i \in p .. Len(q) : r[i + 1] = q[i]
  BY Length DEF Inserted
<1>2. \A i \in DOMAIN r :
        \/ i < p /\ i \in DOMAIN q /\ r[i] = q[i]
        \/ i = p /\ r[i] = e
        \/ i > p /\ i - 1 \in DOMAIN q /\ r[i] = q[i - 1]
  <2> TAKE i \in DOMAIN r
  <2>1. CASE i < p
    BY <1>1, <2>1
  <2>2. CASE i = p
    BY <1>1, <2>2
  <2>3. CASE i > p
    <3>1. i - 1 \in p .. Len(q) /\ (i - 1) + 1 = i
      BY <1>1, <2>3
    <3>2. r[(i - 1) + 1] = q[i - 1]
      BY <1>1, <3>1
    <3> QED BY <1>1, <2>3, <3>1, <3>2
  <2> QED BY <1>1, <2>1, <2>2, <2>3
<1>3. \A i \in DOMAIN q :
        \/ i < p /\ i \in DOMAIN r /\ r[i] = q[i]
        \/ i >= p /\ i + 1 \in DOMAIN r /\ r[i + 1] = q[i]
  BY <1>1
<1>4. p \in DOMAIN r /\ r[p] = e
  BY <1>1
<1>5. ASSUME NEW x PROVE Has(r, x) <=> Has(q, x) \/ x = e
  <2>1. Has(r, x) => Has(q, x) \/ x = e
    BY <1>2 DEF Has
  <2>2. Has(q, x) => Has(r, x)
    BY <1>3 DEF Has
  <2>3. x = e => Has(r, x)
    BY <1>4 DEF Has
  <2> QED BY <2>1, <2>2, <2>3
<1>6. ASSUME Distinct(q), ~ Has(q, e) PROVE Distinct(r)
  <2> SUFFICES ASSUME NEW i \in DOMAIN r, NEW j \in DOMAIN r, r[i] = r[j] PROVE i = j
    BY DEF Distinct
  <2>1. i \in Int /\ j \in Int
    BY <1>1
  <2> QED BY <1>2, <1>6, <2>1 DEF Distinct, Has
<1>7. ASSUME NEW x, NEW y, Follows(q, x, y) PROVE Follows(r, x, y)
  <2>1. PICK i \in DOMAIN q, j \in DOMAIN q : i < j /\ q[i] = x /\ q[j] = y
    BY <1>7 DEF Follows
  <2>2. i \in Int /\ j \in Int
    BY <1>1
  <2> QED BY <1>3, <2>1, <2>2 DEF Follows
<1> QED BY <1>5, <1>6, <1>7

\* A push to a sorted queue leaves it sorted.
LEMMA PushSorts ==
  ASSUME NEW q \in Seq(Items), NEW e \in Items, Sorted(q)
  PROVE  Sorted(push(q, e))
<1>1. CASE push(q, e) = q
  BY <1>1
<1>2. CASE \E p \in 1 .. Len(q) + 1 :
             /\ Inserted(q, push(q, e), p, e)
             /\ \A i \in 1 .. p - 1 : ~ Before(e, q[i])
             /\ p <= Len(q) => Before(e, q[p])
  <2>1. PICK p \in 1 .. Len(q) + 1 :
             /\ Inserted(q, push(q, e), p, e)
             /\ \A i \in 1 .. p - 1 : ~ Before(e, q[i])
             /\ p <= Len(q) => Before(e, q[p])
    BY <1>2
  <2> DEFINE r == push(q, e)
  <2>2. /\ Len(q) \in Nat /\ DOMAIN q = 1 .. Len(q) /\ DOMAIN r = 1 .. Len(q) + 1
        /\ \A i \in DOMAIN q : q[i] \in Items
    BY <2>1, Length DEF Inserted
  <2>3. Inserted(q, r, p, e)
    BY <2>1
  <2> HIDE DEF r
  <2>4. \A i \in p .. Len(q) : ~ Before(q[i], e)
    <3> TAKE i \in p .. Len(q)
    <3>1. p \in DOMAIN q /\ i \in DOMAIN q /\ Before(e, q[p])
      BY <2>1, <2>2
    <3>2. i = p \/ ~ Before(q[i], q[p])
      BY <2>2, <3>1 DEF Sorted
    <3>3. Before(e, q[i])
      BY <2>2, <3>1, <3>2, Ordering
    <3> QED BY <2>2, <3>1, <3>3, Ordering
  <2>5. ASSUME NEW i \in DOMAIN r, NEW j \in DOMAIN r, i < j PROVE ~ Before(r[j], r[i])
    <3>1. CASE j < p
      <4>1. r[i] = q[i] /\ r[j] = q[j] /\ i \in DOMAIN q /\ j \in DOMAIN q
        BY <2>2, <2>3, <2>5, <3>1 DEF Inserted
      <4> QED BY <2>5, <4>1 DEF Sorted
    <3>2. CASE j = p
      <4>1. r[i] = q[i] /\ r[j] = e /\ i \in 1 .. p - 1
        BY <2>2, <2>3, <2>5, <3>2 DEF Inserted
      <4> QED BY <2>1, <4>1
    <3>3. CASE j > p
      <4>1. j - 1 \in p .. Len(q) /\ (j - 1) + 1 = j
        BY <2>2, <3>3
      <4>2. r[j] = q[j - 1]
        BY <2>3, <4>1 DEF Inserted
      <4>3. CASE i < p
        <5>1. r[i] = q[i] /\ i \in DOMAIN q /\ j - 1 \in DOMAIN q /\ i < j - 1
          BY <2>2, <2>3, <3>3, <4>1, <4>3 DEF Inserted
        <5> QED BY <4>2, <5>1 DEF Sorted
      <4>4. CASE i = p
        BY <2>3, <2>4, <4>1, <4>2, <4>4 DEF Inserted
      <4>5. CASE i > p
        <5>1. i - 1 \in p .. Len(q) /\ (i - 1) + 1 = i /\ i - 1 < j - 1
          BY <2>2, <2>5, <4>1, <4>5
        <5>2. r[i] = q[i - 1] /\ i - 1 \in DOMAIN q /\ j - 1 \in DOMAIN q
          BY <2>2, <2>3, <4>1, <5>1 DEF Inserted
        <5> QED BY <4>2, <5>1, <5>2 DEF Sorted
      <4> QED BY <2>2, <4>3, <4>4, <4>5
    <3> QED BY <2>2, <3>1, <3>2, <3>3
  <2>6. Sorted(r)
    BY <2>5 DEF Sorted
  <2> QED BY <2>6 DEF r
<1> QED BY <1>1, <1>2, PushDoes

\* Append is an insertion at the end.
LEMMA AppendInserts ==
  ASSUME NEW q \in Seq(Items), NEW e \in Items
  PROVE  /\ Inserted(q, Append(q, e), Len(q) + 1, e)
         /\ Len(q) + 1 \in 1 .. Len(q) + 1
  BY Length DEF Inserted

\* An entry that goes before none is appended.
LEMMA PushLast ==
  ASSUME NEW q \in Seq(Items), NEW e \in Items, ~ Has(q, e),
         \A i \in DOMAIN q : ~ Before(e, q[i])
  PROVE  push(q, e) = Append(q, e)
<1> DEFINE I == {i \in DOMAIN q : Before(e, q[i])}
<1>1. I = {}
  OBVIOUS
<1> QED BY <1>1 DEF push, Has, Insert

\* The values of pushAll as it goes through the entries.
Pushes(r, q, entries, kept) ==
    /\ r = [i \in 0 .. Len(entries) |-> r[i]]
    /\ r[0] = q
    /\ \A i \in 1 .. Len(entries) :
          r[i] = IF i \in kept THEN push(r[i - 1], entries[i]) ELSE r[i - 1]

\* There are such values, whatever is pushed.
LEMMA PushesExist ==
  ASSUME NEW q, NEW entries \in Seq(Items), NEW kept
  PROVE  \E r : Pushes(r, q, entries, kept)
<1> DEFINE n == Len(entries)
           Upto(r, k) == /\ r[0] = q
                         /\ \A i \in 1 .. k :
                              r[i] = IF i \in kept THEN push(r[i - 1], entries[i]) ELSE r[i - 1]
           T == {k \in 0 .. n : ~ \E r : Upto(r, k)}
<1>1. n \in Nat
  BY Length
<1>2. SUFFICES ASSUME T # {} PROVE FALSE
  <2>1. PICK r : Upto(r, n)
    BY <1>1, <1>2
  <2>2. Pushes([i \in 0 .. n |-> r[i]], q, entries, kept)
    <3> DEFINE f == [i \in 0 .. n |-> r[i]]
    <3>1. f = [i \in 0 .. n |-> f[i]] /\ \A i \in 0 .. n : f[i] = r[i]
      OBVIOUS
    <3>2. 0 \in 0 .. n /\ \A i \in 1 .. n : i \in 0 .. n /\ i - 1 \in 0 .. n
      BY <1>1
    <3> HIDE DEF f
    <3>3. Pushes(f, q, entries, kept)
      BY <2>1, <3>1, <3>2, Zenon DEF Pushes
    <3> QED BY <3>3 DEF f
  <2> QED BY <2>2
<1>3. PICK k \in T : \A l \in T : k <= l
  <2>1. T \in SUBSET Nat
    BY <1>1
  <2> HIDE DEF T
  <2> QED BY <1>2, <2>1, Least
<1>4. k # 0
  <2>1. Upto([i \in {0} |-> q], 0)
    OBVIOUS
  <2> QED BY <2>1, Zenon
<1>5. k - 1 \in 0 .. n /\ k \in 1 .. n /\ k - 1 \notin T
  <2>1. k \in 0 .. n
    OBVIOUS
  <2> HIDE DEF T
  <2> QED BY <1>1, <1>3, <1>4, <2>1
<1>6. PICK r : Upto(r, k - 1)
  BY <1>5
<1> DEFINE g == [i \in 0 .. k |-> IF i < k THEN r[i]
                                ELSE IF k \in kept THEN push(r[k - 1], entries[k])
                                ELSE r[k - 1]]
<1>7. /\ \A i \in 0 .. k - 1 : g[i] = r[i]
      /\ g[k] = IF k \in kept THEN push(r[k - 1], entries[k]) ELSE r[k - 1]
  BY <1>5
<1>8. Upto(g, k)
  <2> HIDE DEF g
  <2>1. g[0] = q
    BY <1>5, <1>6, <1>7
  <2>2. ASSUME NEW i \in 1 .. k
        PROVE  g[i] = IF i \in kept THEN push(g[i - 1], entries[i]) ELSE g[i - 1]
    <3>1. i - 1 \in 0 .. k - 1 /\ g[i - 1] = r[i - 1]
      BY <1>5, <1>7
    <3>2. CASE i = k
      BY <1>7, <3>1, <3>2
    <3>3. CASE i # k
      <4>1. i \in 1 .. k - 1 /\ i \in 0 .. k - 1
        BY <1>5, <3>3
      <4> QED BY <1>6, <1>7, <3>1, <4>1
    <3> QED BY <3>2, <3>3
  <2> QED BY <2>1, <2>2
<1> QED BY <1>3, <1>8, Zenon

\* pushAll is the last of them: its recursive function exists.
LEMMA PushAllIs ==
  ASSUME NEW q \in Seq(Items), NEW entries \in Seq(Items), NEW kept
  PROVE  \E r : Pushes(r, q, entries, kept) /\ pushAll(q, entries, kept) = r[Len(entries)]
<1> DEFINE n == Len(entries)
           Body(f) == [i \in 0 .. n |-> IF i = 0 THEN q
                                       ELSE IF i \in kept THEN push(f[i - 1], entries[i])
                                       ELSE f[i - 1]]
           Result == CHOOSE f : f = Body(f)
<1>1. n \in Nat
  BY Length
<1>2. \E f : f = Body(f)
  <2>1. PICK r : Pushes(r, q, entries, kept)
    BY PushesExist, Zenon
  <2>2. ASSUME NEW i \in 0 .. n PROVE r[i] = Body(r)[i]
    <3>1. CASE i = 0
      BY <2>1, <3>1 DEF Pushes
    <3>2. CASE i # 0
      <4>1. i \in 1 .. n
        BY <1>1, <3>2
      <4>2. r[i] = IF i \in kept THEN push(r[i - 1], entries[i]) ELSE r[i - 1]
        BY <2>1, <4>1, Zenon DEF Pushes
      <4> QED BY <3>2, <4>2
    <3> QED BY <3>1, <3>2
  <2>3. r = [i \in 0 .. n |-> r[i]] /\ Body(r) = [i \in 0 .. n |-> Body(r)[i]]
    BY <2>1 DEF Pushes
  <2>4. r = Body(r)
    <3> HIDE DEF Body
    <3> QED BY <2>2, <2>3, Zenon
  <2> QED BY <2>4
<1>3. Result = Body(Result)
  <2> HIDE DEF Body
  <2> QED BY <1>2
<1>4. pushAll(q, entries, kept) = Result[n]
  BY DEF pushAll
<1>5. Pushes(Result, q, entries, kept)
  <2> HIDE DEF Result
  <2>1. \A i \in 0 .. n : Result[i] = Body(Result)[i]
    BY <1>3, Zenon
  <2>2. Result = [i \in 0 .. n |-> Result[i]]
    BY <1>3
  <2>3. Result[0] = q
    BY <1>1, <2>1
  <2>4. ASSUME NEW i \in 1 .. n
        PROVE  Result[i] = IF i \in kept THEN push(Result[i - 1], entries[i])
                           ELSE Result[i - 1]
    <3>1. i \in 0 .. n /\ i # 0
      BY <1>1
    <3> QED BY <2>1, <3>1
  <2> QED BY <2>2, <2>3, <2>4, Zenon DEF Pushes
<1> QED BY <1>4, <1>5, Zenon

\* A queue that is emptied and refilled with the entries at some of its indices
\* has just these, sorted, and in the order in which they were.
LEMMA Refilled ==
  ASSUME NEW q \in Seq(Items), Sorted(q), Distinct(q), NEW kept \in SUBSET DOMAIN q
  PROVE  LET R == pushAll(<<>>, q, kept) IN
         /\ R \in Seq(Items) /\ Sorted(R) /\ Distinct(R)
         /\ \A x : Has(R, x) <=> \E i \in kept : q[i] = x
         /\ \A i, j \in kept : i < j => Follows(R, q[i], q[j])
<1> DEFINE n == Len(q)
           Good(s, k) == /\ s \in Seq(Items) /\ Sorted(s) /\ Distinct(s)
                         /\ \A x : Has(s, x) <=> \E i \in kept : i <= k /\ q[i] = x
                         /\ \A i, j \in kept : i < j /\ j <= k => Follows(s, q[i], q[j])
<1>1. PICK r : Pushes(r, <<>>, q, kept) /\ pushAll(<<>>, q, kept) = r[n]
  <2>1. <<>> \in Seq(Items)
    OBVIOUS
  <2> QED BY <2>1, PushAllIs, Zenon
<1> DEFINE T == {k \in 0 .. n : ~ Good(r[k], k)}
<1>2. n \in Nat /\ DOMAIN q = 1 .. n /\ \A i \in 1 .. n : q[i] \in Items
  BY Length
<1>3. ASSUME T # {} PROVE FALSE
  <2>1. PICK k \in T : \A l \in T : k <= l
    <3>1. T \in SUBSET Nat
      BY <1>2
    <3> HIDE DEF T
    <3> QED BY <1>3, <3>1, Least
  <2>2. k \in 0 .. n /\ ~ Good(r[k], k)
    OBVIOUS
  <2>3. k # 0
    <3> SUFFICES ASSUME k = 0 PROVE FALSE
      OBVIOUS
    <3>1. r[k] = <<>>
      BY <1>1 DEF Pushes
    <3>2. Good(<<>>, k)
      BY <1>2 DEF Sorted, Distinct, Has, Follows
    <3> HIDE DEF Good
    <3> QED BY <2>2, <3>1, <3>2
  <2>4. k \in 1 .. n /\ k - 1 \in 0 .. n /\ k - 1 \notin T
    <3> HIDE DEF T
    <3> QED BY <1>2, <2>1, <2>2, <2>3
  <2>5. Good(r[k - 1], k - 1)
    <3> HIDE DEF Good
    <3> QED BY <2>4
  <2> DEFINE s == r[k - 1]
             e == q[k]
  <2>6. r[k] = IF k \in kept THEN push(s, e) ELSE s
    BY <1>1, <2>4, Zenon DEF Pushes
  <2>7. e \in Items
    BY <1>2, <2>4
  <2>8. s \in Seq(Items) /\ Sorted(s) /\ Distinct(s)
    BY <2>5
  <2>9. \A x : Has(s, x) <=> \E i \in kept : i <= k - 1 /\ q[i] = x
    BY <2>5
  <2>10. \A i, j \in kept : i < j /\ j <= k - 1 => Follows(s, q[i], q[j])
    BY <2>5
  <2>11. \A i \in kept : i <= k <=> i <= k - 1 \/ i = k
    BY <1>2, <2>4
  <2> HIDE DEF s, T
  <2>12. CASE k \notin kept
    <3>1. r[k] = s
      BY <2>6, <2>12
    <3>2. \A i \in kept : i <= k <=> i <= k - 1
      BY <2>11, <2>12
    <3>3. Good(s, k)
      BY <2>8, <2>9, <2>10, <3>2
    <3> HIDE DEF Good
    <3> QED BY <2>2, <3>1, <3>3
  <2>13. CASE k \in kept
    <3>1. \A i \in kept : i <= k - 1 => i < k /\ i \in DOMAIN q
      BY <1>2, <2>4
    <3>2. ~ Has(s, e)
      <4> SUFFICES ASSUME NEW i \in kept, i <= k - 1, q[i] = q[k] PROVE FALSE
        BY <2>9
      <4> QED BY <1>2, <2>4, <3>1 DEF Distinct
    <3>3. \A i \in DOMAIN s : ~ Before(e, s[i])
      <4> TAKE i \in DOMAIN s
      <4>1. Has(s, s[i])
        BY DEF Has
      <4>2. PICK j \in kept : j <= k - 1 /\ q[j] = s[i]
        BY <2>9, <4>1
      <4> QED BY <1>2, <2>4, <3>1, <4>2 DEF Sorted
    <3>4. r[k] = Append(s, e) /\ r[k] = push(s, e)
      BY <2>6, <2>7, <2>8, <2>13, <3>2, <3>3, PushLast
    <3>5. Inserted(s, r[k], Len(s) + 1, e) /\ Len(s) + 1 \in 1 .. Len(s) + 1
      BY <2>7, <2>8, <3>4, AppendInserts, Zenon
    <3>6. r[k] \in Seq(Items) /\ Sorted(r[k])
      BY <2>7, <2>8, <3>4, PushSorts, PushIn
    <3>7. /\ \A x : Has(r[k], x) <=> Has(s, x) \/ x = e
          /\ Distinct(r[k])
          /\ \A x, y : Follows(s, x, y) => Follows(r[k], x, y)
      BY <2>7, <2>8, <3>2, <3>5, InsertKeeps
    <3>8. ASSUME NEW i \in kept, NEW j \in kept, i < j, j <= k
          PROVE  Follows(r[k], q[i], q[j])
      <4>1. CASE j <= k - 1
        BY <2>10, <3>7, <3>8, <4>1
      <4>2. CASE j = k
        <5>1. i <= k - 1
          BY <1>2, <2>4, <3>8, <4>2
        <5>2. Has(s, q[i])
          BY <2>9, <5>1
        <5>3. PICK l \in DOMAIN s : s[l] = q[i]
          BY <5>2 DEF Has
        <5>4. /\ l \in DOMAIN r[k] /\ Len(s) + 1 \in DOMAIN r[k] /\ l < Len(s) + 1
              /\ r[k][l] = q[i] /\ r[k][Len(s) + 1] = q[k]
          <6>1. Len(s) \in Nat /\ DOMAIN s = 1 .. Len(s)
            BY <2>8, Length
          <6>2. DOMAIN r[k] = 1 .. Len(s) + 1
            BY <3>5, <3>6, Length DEF Inserted
          <6>3. r[k][Len(s) + 1] = e /\ \A i_1 \in 1 .. Len(s) + 1 - 1 : r[k][i_1] = s[i_1]
            BY <3>5 DEF Inserted
          <6> QED BY <5>3, <6>1, <6>2, <6>3
        <5> QED BY <4>2, <5>4 DEF Follows
      <4> QED BY <2>11, <3>8, <4>1, <4>2
    <3>9. \A x : Has(r[k], x) <=> \E i \in kept : i <= k /\ q[i] = x
      BY <2>9, <2>11, <2>13, <3>7
    <3>10. Good(r[k], k)
      BY <3>6, <3>7, <3>8, <3>9
    <3> HIDE DEF Good
    <3> QED BY <2>2, <3>10
  <2> QED BY <2>12, <2>13
<1>4. Good(r[n], n)
  <2>1. n \in 0 .. n
    BY <1>2
  <2>2. n \notin T
    <3> HIDE DEF T
    <3> QED BY <1>3
  <2> HIDE DEF Good
  <2> QED BY <2>1, <2>2
<1>5. \A i \in kept : i <= n
  BY <1>2
<1> QED BY <1>1, <1>4, <1>5

\* Entries pushed one after the other to a sorted queue that has none of them.
LEMMA PushedAll ==
  ASSUME NEW q \in Seq(Items), Sorted(q), Distinct(q),
         NEW es \in Seq(Items), Distinct(es), \A i \in DOMAIN es : ~ Has(q, es[i])
  PROVE  LET R == pushAll(q, es, DOMAIN es) IN
         /\ R \in Seq(Items) /\ Sorted(R) /\ Distinct(R)
         /\ \A x : Has(R, x) <=> Has(q, x) \/ Has(es, x)
         /\ \A x, y : Follows(q, x, y) => Follows(R, x, y)
<1> DEFINE n == Len(es)
           Good(s, k) == /\ s \in Seq(Items) /\ Sorted(s) /\ Distinct(s)
                         /\ \A x : Has(s, x) <=> Has(q, x) \/ \E i \in 1 .. k : es[i] = x
                         /\ \A x, y : Follows(q, x, y) => Follows(s, x, y)
<1>1. PICK r : Pushes(r, q, es, DOMAIN es) /\ pushAll(q, es, DOMAIN es) = r[n]
  BY PushAllIs
<1> DEFINE T == {k \in 0 .. n : ~ Good(r[k], k)}
<1>2. n \in Nat /\ DOMAIN es = 1 .. n /\ \A i \in 1 .. n : es[i] \in Items
  BY Length
<1>3. ASSUME T # {} PROVE FALSE
  <2>1. PICK k \in T : \A l \in T : k <= l
    <3>1. T \in SUBSET Nat
      BY <1>2
    <3> HIDE DEF T
    <3> QED BY <1>3, <3>1, Least
  <2>2. k \in 0 .. n /\ ~ Good(r[k], k)
    OBVIOUS
  <2>3. k # 0
    <3> SUFFICES ASSUME k = 0 PROVE FALSE
      OBVIOUS
    <3>1. r[k] = q
      BY <1>1 DEF Pushes
    <3>2. Good(q, k)
      OBVIOUS
    <3> HIDE DEF Good
    <3> QED BY <2>2, <3>1, <3>2
  <2>4. k \in 1 .. n /\ k - 1 \in 0 .. n /\ k - 1 \notin T
    <3> HIDE DEF T
    <3> QED BY <1>2, <2>1, <2>2, <2>3
  <2>5. Good(r[k - 1], k - 1)
    <3> HIDE DEF Good
    <3> QED BY <2>4
  <2> DEFINE s == r[k - 1]
             e == es[k]
  <2>6. r[k] = push(s, e)
    BY <1>1, <1>2, <2>4, Zenon DEF Pushes
  <2>7. e \in Items
    BY <1>2, <2>4, Zenon
  <2>8. s \in Seq(Items) /\ Sorted(s) /\ Distinct(s)
    BY <2>5, Zenon
  <2>9. \A x : Has(s, x) <=> Has(q, x) \/ \E i \in 1 .. k - 1 : es[i] = x
    BY <2>5, Zenon
  <2>10. \A x, y : Follows(q, x, y) => Follows(s, x, y)
    BY <2>5, Zenon
  <2> HIDE DEF s, T
  <2>11. ~ Has(s, e)
    <3>1. k \in DOMAIN es /\ \A i \in 1 .. k - 1 : i \in DOMAIN es /\ i # k
      BY <1>2, <2>4
    <3> QED BY <2>9, <3>1, Zenon DEF Distinct
  <2>12. PICK p \in 1 .. Len(s) + 1 : Inserted(s, r[k], p, e)
    BY <2>6, <2>7, <2>8, <2>11, PushDoes, Zenon
  <2>13. r[k] \in Seq(Items) /\ Sorted(r[k])
    BY <2>6, <2>7, <2>8, PushSorts, PushIn, Zenon
  <2>14. /\ \A x : Has(r[k], x) <=> Has(s, x) \/ x = e
         /\ Distinct(r[k])
         /\ \A x, y : Follows(s, x, y) => Follows(r[k], x, y)
    BY <2>7, <2>8, <2>11, <2>12, InsertKeeps, Zenon
  <2>15. \A i : i \in 1 .. k <=> i \in 1 .. k - 1 \/ i = k
    BY <1>2, <2>4
  <2>16. \A x : Has(r[k], x) <=> Has(q, x) \/ \E i \in 1 .. k : es[i] = x
    BY <2>9, <2>14, <2>15, Zenon
  <2>17. Good(r[k], k)
    BY <2>10, <2>13, <2>14, <2>16, Zenon
  <2> HIDE DEF Good
  <2> QED BY <2>2, <2>17, Zenon
<1>4. Good(r[n], n)
  <2>1. n \in 0 .. n
    BY <1>2
  <2>2. n \notin T
    <3> HIDE DEF T
    <3> QED BY <1>3, Zenon
  <2> HIDE DEF Good
  <2> QED BY <2>1, <2>2, Zenon
<1> QED BY <1>1, <1>2, <1>4, Zenon DEF Has

-----------------------------------------------------------------------------
(* The invariant.                                                            *)

\* The type of a task's record.
TaskRecord == [pc : PCs, cur : Messages \cup {None}, notes : Seq(Jobs)]

\* Task p goes on, and only it.
Moved(p, pc, m, ns) ==
    /\ proc' \in [Procs -> TaskRecord]
    /\ proc'[p].pc = pc /\ proc'[p].cur = m /\ proc'[p].notes = ns
    /\ \A q \in Procs \ {p} : proc'[q] = proc[q]

\* A message is with the task that brought it, with one that popped it; an entry
\* is with a task that has taken it from the task manager.
Fresh(m) == proc[m].pc \in {"new", "queue", "start"}

Held(m) == \E p \in Procs : At(p, "got") /\ proc[p].cur = m

HeldOnce ==
    \A p, q \in Procs : At(p, "got") /\ At(q, "got") /\ proc[p].cur = proc[q].cur => p = q

Carried(e) == \E p \in Procs : Has(proc[p].notes, e)

\* What is queued of the line is its end.
LineKept ==
    \A k, l \in DOMAIN line :
        k < l /\ Has(queue, line[k]) => Follows(queue, line[k], line[l])

\* A finished job is at one place: only a task about to push holds notifications,
\* no two the same one.
NotesHeld ==
    /\ Distinct(finished)
    /\ \A p \in Procs : Distinct(proc[p].notes) /\ (At(p, "push") \/ proc[p].notes = <<>>)
    /\ \A p, q \in Procs, e \in Jobs : Has(proc[p].notes, e) /\ Has(proc[q].notes, e) => p = q
    /\ \A t \in Jobs : pushed[t] <= 1

\* Who popped something popped a message, and who queued its message is done.
Located ==
    /\ \A p \in Procs : At(p, "got") => proc[p].cur \in Messages
    /\ \A k \in DOMAIN line : ~ Fresh(line[k])

\* The inductive invariant.
QueueInv ==
    /\ TypeOK /\ Sorted(queue) /\ Distinct(queue) /\ LineKept
    /\ MessagesConserved /\ EntriesConserved /\ NotesHeld /\ Located /\ BusyHasTurn

-----------------------------------------------------------------------------

\* The tasks are those of the messages and the one that resumes.
LEMMA ProcsAre ==
  Resumer \in Procs /\ (\A m \in Messages : m \in Procs) /\ Resumer \notin Messages
  BY QueueAssumption, Zenon DEF Procs

\* What each kind of step does to the task that takes it.
LEMMA GotoMoves ==
  ASSUME TypeOK, NEW p \in Procs, NEW pc \in PCs, Goto(p, pc)
  PROVE  Moved(p, pc, proc[p].cur, proc[p].notes)
  BY Zenon DEF TypeOK, Goto, Moved, TaskRecord

LEMMA ServeMoves ==
  ASSUME TypeOK, NEW p \in Procs, NEW m \in Messages, Serve(p, m)
  PROVE  Moved(p, "got", m, proc[p].notes)
  BY Zenon DEF TypeOK, Serve, Moved, TaskRecord, PCs

LEMMA LeaveMoves ==
  ASSUME TypeOK, NEW p \in Procs, Leave(p)
  PROVE  Moved(p, "done", None, proc[p].notes)
  BY Zenon DEF TypeOK, Leave, Moved, TaskRecord, PCs

LEMMA DispatchMoves ==
  ASSUME TypeOK, NEW m \in Messages, dispatch_llm_call(m)
  PROVE  Moved(m, "llm", m, proc[m].notes)
  BY ProcsAre, Zenon DEF TypeOK, dispatch_llm_call, Moved, TaskRecord, PCs

LEMMA TakeMoves ==
  ASSUME TypeOK, NEW p \in Procs, TakeNotes(p)
  PROVE  Moved(p, "push", proc[p].cur, finished)
  BY Zenon DEF TypeOK, TakeNotes, Moved, TaskRecord, PCs

LEMMA PushMoves ==
  ASSUME TypeOK, NEW p \in Procs, PushNotes(p)
  PROVE  Moved(p, "drain", proc[p].cur, <<>>)
<1>1. <<>> \in Seq(Jobs)
  OBVIOUS
<1> QED BY <1>1, Zenon DEF TypeOK, PushNotes, Moved, TaskRecord, PCs

\* The conservation laws in terms of where things are.
LEMMA Conserved ==
  /\ MessagesConserved <=>
       /\ HeldOnce
       /\ \A m \in Messages :
            told[m] + One(Has(queue, m)) + One(Fresh(m)) + One(Held(m)) = 1
  /\ EntriesConserved <=>
       \A e \in Entries :
         pushed[e] = told[e] + One(Has(queue, e)) + One(Has(finished, e)) + One(Carried(e))
  BY Zenon DEF MessagesConserved, EntriesConserved, HeldOnce, Queued, Fresh, Held, Has, Carried

LEMMA ConservedThen ==
  /\ MessagesConserved' <=>
       /\ HeldOnce'
       /\ \A m \in Messages :
            told'[m] + One(Has(queue', m)) + One(Fresh(m)') + One(Held(m)') = 1
  /\ EntriesConserved' <=>
       \A e \in Entries :
         pushed'[e] = told'[e] + One(Has(queue', e)) + One(Has(finished', e)) + One(Carried(e)')
  BY Zenon DEF MessagesConserved, EntriesConserved, HeldOnce, Queued, Fresh, Held, Has, Carried

\* QueueOrdered says that the queue is sorted and that the line is kept.
LEMMA OrderedIs == QueueOrdered <=> Sorted(queue) /\ LineKept
  BY Zenon DEF QueueOrdered, Sorted, LineKept, Queued, Has, Follows

\* A step that neither begins nor ends a task's hold of a popped message.
LEMMA QuietMove ==
  ASSUME NEW p \in Procs, NEW pc, NEW m, NEW ns, Moved(p, pc, m, ns),
         ~ At(p, "got"), pc # "got"
  PROVE  /\ \A x : Held(x)' <=> Held(x)
         /\ HeldOnce => HeldOnce'
<1>1. \A q \in Procs : At(q, "got")' <=> At(q, "got")
  BY Zenon DEF Moved, At
<1>2. \A q \in Procs : At(q, "got") => proc'[q] = proc[q]
  BY Zenon DEF Moved, At
<1> QED BY <1>1, <1>2, Zenon DEF Held, HeldOnce

\* A message stays with the task that brought it, or not.
LEMMA FreshMove ==
  ASSUME NEW p \in Procs, NEW pc, NEW m, NEW ns, Moved(p, pc, m, ns),
         p \in Messages => (Fresh(p) <=> pc \in {"new", "queue", "start"})
  PROVE  \A x \in Messages : Fresh(x)' <=> Fresh(x)
  BY ProcsAre, Zenon DEF Moved, Fresh

\* A step in which no notifications are taken or pushed.
LEMMA SameNotes ==
  ASSUME NEW p \in Procs, NEW pc, NEW m, Moved(p, pc, m, proc[p].notes)
  PROVE  /\ \A q \in Procs : proc'[q].notes = proc[q].notes
         /\ \A e : Carried(e)' <=> Carried(e)
<1>1. \A q \in Procs : proc'[q].notes = proc[q].notes
  BY Zenon DEF Moved
<1> QED BY <1>1, Zenon DEF Carried

-----------------------------------------------------------------------------
\* The parts of the invariant under steps that do not touch what they are about.
LEMMA TypesKept ==
  ASSUME TypeOK, proc' \in [Procs -> TaskRecord], queue' \in Seq(Items), line' \in Seq(Messages),
         busy' \in BOOLEAN, stopped' \in BOOLEAN, finished' \in Seq(Jobs),
         told' \in [Items -> Nat], pushed' \in [Entries -> Nat], retries' \in 0 .. MaxRetries
  PROVE  TypeOK'
  BY Zenon DEF TypeOK, TaskRecord, Items

LEMMA MessagesKept ==
  ASSUME MessagesConserved, HeldOnce => HeldOnce',
         \A m \in Messages : /\ told'[m] = told[m] /\ (Has(queue', m) <=> Has(queue, m))
                             /\ (Fresh(m)' <=> Fresh(m)) /\ (Held(m)' <=> Held(m))
  PROVE  MessagesConserved'
<1>1. \A m \in Messages :
        told'[m] + One(Has(queue', m)) + One(Fresh(m)') + One(Held(m)') = 1
  BY Conserved, Zenon DEF One
<1> QED BY <1>1, Conserved, ConservedThen, Zenon

LEMMA EntriesKept ==
  ASSUME EntriesConserved,
         \A e \in Entries : /\ told'[e] = told[e] /\ pushed'[e] = pushed[e]
                            /\ (Has(queue', e) <=> Has(queue, e))
                            /\ (Has(finished', e) <=> Has(finished, e))
                            /\ (Carried(e)' <=> Carried(e))
  PROVE  EntriesConserved'
<1>1. \A e \in Entries : pushed'[e] = told'[e] + One(Has(queue', e)) + One(Has(finished', e))
                                     + One(Carried(e)')
  BY Conserved, Zenon DEF One
<1> QED BY <1>1, ConservedThen, Zenon

LEMMA NotesKept ==
  ASSUME NotesHeld, NEW p \in Procs, NEW pc, NEW m, Moved(p, pc, m, proc[p].notes),
         ~ At(p, "push"), finished' = finished, \A t \in Jobs : pushed'[t] = pushed[t]
  PROVE  NotesHeld'
<1>1. \A q \in Procs : proc'[q].notes = proc[q].notes
  BY SameNotes, Zenon
<1>2. \A q \in Procs : At(q, "push")' \/ proc'[q].notes = <<>>
  <2> TAKE q \in Procs
  <2>1. CASE q = p
    BY <1>1, <2>1, Zenon DEF NotesHeld
  <2>2. CASE q # p
    BY <1>1, <2>2, Zenon DEF NotesHeld, Moved, At
  <2> QED BY <2>1, <2>2, Zenon
<1> QED BY <1>1, <1>2, Zenon DEF NotesHeld

LEMMA LocatedKept ==
  ASSUME TypeOK, Located, NEW p \in Procs, NEW pc, NEW m, NEW ns, Moved(p, pc, m, ns),
         pc = "got" => m \in Messages, line' = line,
         \A x \in Messages : ~ Fresh(x) => ~ Fresh(x)'
  PROVE  Located'
<1>1. \A k \in DOMAIN line : line[k] \in Messages
  BY DEF TypeOK
<1>2. ASSUME NEW q \in Procs, At(q, "got")' PROVE proc'[q].cur \in Messages
  BY <1>2, Zenon DEF Located, Moved, At
<1>3. \A k \in DOMAIN line' : ~ Fresh(line[k])'
  BY <1>1, Zenon DEF Located, Fresh
<1> QED BY <1>2, <1>3, Zenon DEF Located

\* Messages may leave the queue, and what stays keeps its order.
LEMMA LineStays ==
  ASSUME TypeOK, LineKept, line' = line,
         \A x \in Messages : Has(queue', x) => Has(queue, x),
         \A x, y \in Messages : Has(queue', x) /\ Follows(queue, x, y) => Follows(queue', x, y)
  PROVE  LineKept'
<1>1. \A k \in DOMAIN line : line[k] \in Messages
  BY DEF TypeOK
<1> QED BY <1>1, Zenon DEF LineKept

\* A task that is not in an LLM call may move anywhere if the flag stays.
LEMMA FlagStays ==
  ASSUME BusyHasTurn, NEW p \in Procs, NEW pc, NEW m, NEW ns, Moved(p, pc, m, ns),
         ~ At(p, "llm"), busy' = busy
  PROVE  BusyHasTurn'
  BY Zenon DEF BusyHasTurn, At, Moved

\* A task that enters an LLM call is itself the witness.
LEMMA FlagSet ==
  ASSUME NEW p \in Procs, NEW m, NEW ns, Moved(p, "llm", m, ns)
  PROVE  BusyHasTurn'
  BY Zenon DEF BusyHasTurn, At, Moved

\* A step that changes none of what is queued, told or pushed.
LEMMA OnlyMoves ==
  ASSUME QueueInv, NEW p \in Procs, NEW pc, NEW m, Moved(p, pc, m, proc[p].notes),
         ~ At(p, "got"), pc # "got", ~ At(p, "push"),
         p \in Messages => (Fresh(p) <=> pc \in {"new", "queue", "start"}),
         UNCHANGED <<queue, finished, told, pushed, line>>,
         busy' \in BOOLEAN, stopped' \in BOOLEAN, retries' \in 0 .. MaxRetries, BusyHasTurn'
  PROVE  QueueInv'
<1> USE DEF QueueInv
<1>1. TypeOK'
  BY TypesKept, Zenon DEF TypeOK, Moved, Items
<1>2. Sorted(queue') /\ Distinct(queue')
  OBVIOUS
<1>3. LineKept'
  BY LineStays, Zenon
<1>4. /\ \A x : Held(x)' <=> Held(x)
      /\ HeldOnce => HeldOnce'
  BY QuietMove, Zenon
<1>5. \A x \in Messages : Fresh(x)' <=> Fresh(x)
  BY FreshMove, Zenon
<1>6. MessagesConserved'
  BY <1>4, <1>5, MessagesKept, Zenon
<1>7. EntriesConserved'
  BY SameNotes, EntriesKept, Zenon
<1>8. NotesHeld'
  BY NotesKept, Zenon
<1>9. Located'
  BY <1>5, LocatedKept, Zenon
<1> QED BY <1>1, <1>2, <1>3, <1>6, <1>7, <1>8, <1>9, Zenon

\* A message looks at the flag.
LEMMA CheckKeeps ==
  ASSUME QueueInv, NEW m \in Messages, Check(m)
  PROVE  QueueInv'
<1>1. PICK pc \in {"queue", "start"} : Goto(m, pc)
  BY Zenon DEF Check
<1>2. Moved(m, pc, proc[m].cur, proc[m].notes)
  BY <1>1, ProcsAre, GotoMoves, Zenon DEF QueueInv, PCs
<1>3. ~ At(m, "got") /\ ~ At(m, "push") /\ ~ At(m, "llm") /\ Fresh(m)
  BY Zenon DEF Check, At, Fresh
<1>4. BusyHasTurn'
  BY <1>2, <1>3, ProcsAre, FlagStays, Zenon DEF QueueInv, Check
<1> QED BY <1>2, <1>3, <1>4, ProcsAre, OnlyMoves, Zenon DEF Check, QueueInv, TypeOK

\* A turn ends: the flag is cleared, whichever way the task goes on.
LEMMA ClearKeeps ==
  ASSUME QueueInv, NEW p \in Procs, clear_busy_and_send(p)
  PROVE  QueueInv'
<1>1. ~ At(p, "got") /\ ~ At(p, "push") /\ At(p, "llm") /\ (p \in Messages => ~ Fresh(p))
  BY Zenon DEF clear_busy_and_send, At, Fresh
<1>2. busy' = FALSE /\ BusyHasTurn' /\ UNCHANGED <<queue, finished, told, pushed, line>>
  BY Zenon DEF clear_busy_and_send, BusyHasTurn
<1>3. CASE \E pc \in {"notes", "pop"} : Goto(p, pc) /\ UNCHANGED <<retries, stopped>>
  <2>1. PICK pc \in {"notes", "pop"} : Goto(p, pc) /\ UNCHANGED <<retries, stopped>>
    BY <1>3, Zenon
  <2>2. Moved(p, pc, proc[p].cur, proc[p].notes)
    BY <2>1, GotoMoves, Zenon DEF QueueInv, PCs
  <2> QED BY <1>1, <1>2, <2>1, <2>2, OnlyMoves, Zenon DEF QueueInv, TypeOK
<1>4. CASE Leave(p) /\ stopped' = TRUE /\ UNCHANGED retries
  <2>1. Moved(p, "done", None, proc[p].notes)
    BY <1>4, LeaveMoves, Zenon DEF QueueInv
  <2> QED BY <1>1, <1>2, <1>4, <2>1, OnlyMoves, Zenon DEF QueueInv, TypeOK
<1>5. CASE retries < MaxRetries /\ retries' = retries + 1 /\ UNCHANGED <<stopped, proc>>
  <2>1. retries' \in 0 .. MaxRetries
    BY <1>5, QueueAssumption DEF QueueInv, TypeOK
  <2>2. Moved(p, "llm", proc[p].cur, proc[p].notes)
    BY <1>1, <1>5, Zenon DEF Moved, QueueInv, TypeOK, TaskRecord, At
  <2> QED BY <1>1, <1>2, <1>5, <2>1, <2>2, OnlyMoves, Zenon DEF QueueInv, TypeOK
<1> QED BY <1>3, <1>4, <1>5, Zenon DEF clear_busy_and_send

\* A resumed session begins to drain.
LEMMA ResumeKeeps ==
  ASSUME QueueInv, Resume
  PROVE  QueueInv'
<1>1. Moved(Resumer, "drain", proc[Resumer].cur, proc[Resumer].notes)
  BY ProcsAre, GotoMoves, Zenon DEF QueueInv, Resume, PCs
<1>2. ~ At(Resumer, "got") /\ ~ At(Resumer, "push") /\ ~ At(Resumer, "llm")
  BY Zenon DEF Resume, At
<1>3. BusyHasTurn'
  BY <1>1, <1>2, ProcsAre, FlagStays, Zenon DEF QueueInv, Resume
<1> QED BY <1>1, <1>2, <1>3, ProcsAre, OnlyMoves, Zenon DEF Resume, QueueInv, TypeOK

-----------------------------------------------------------------------------
(* What is where.                                                            *)

\* A message is at one place.
LEMMA Exclusive ==
  ASSUME QueueInv, NEW m \in Messages
  PROVE  /\ told[m] \in Nat
         /\ Fresh(m) => told[m] = 0 /\ ~ Has(queue, m) /\ ~ Held(m)
         /\ Has(queue, m) => told[m] = 0 /\ ~ Fresh(m) /\ ~ Held(m)
         /\ Held(m) => told[m] = 0 /\ ~ Fresh(m) /\ ~ Has(queue, m)
<1>1. told[m] \in Nat
  BY Zenon DEF QueueInv, TypeOK
<1>2. told[m] + One(Has(queue, m)) + One(Fresh(m)) + One(Held(m)) = 1
  BY Conserved, Zenon DEF QueueInv
<1> QED BY <1>1, <1>2 DEF One

\* What has not been pushed is nowhere.
LEMMA Unpushed ==
  ASSUME QueueInv, NEW e \in Entries, pushed[e] = 0
  PROVE  told[e] = 0 /\ ~ Has(queue, e) /\ ~ Has(finished, e) /\ ~ Carried(e)
<1>1. told[e] \in Nat
  BY Zenon DEF QueueInv, TypeOK, Items
<1>2. pushed[e] = told[e] + One(Has(queue, e)) + One(Has(finished, e)) + One(Carried(e))
  BY Conserved, Zenon DEF QueueInv
<1> QED BY <1>1, <1>2 DEF One

\* A job has been pushed once at most, so it is at one place.
LEMMA JobOnce ==
  ASSUME QueueInv, NEW e \in Jobs
  PROVE  /\ Has(finished, e) => ~ Has(queue, e) /\ ~ Carried(e)
         /\ Carried(e) => ~ Has(queue, e) /\ ~ Has(finished, e)
<1>1. e \in Entries /\ told[e] \in Nat /\ pushed[e] <= 1
  BY Zenon DEF QueueInv, TypeOK, NotesHeld, Entries
<1>2. pushed[e] = told[e] + One(Has(queue, e)) + One(Has(finished, e)) + One(Carried(e))
  BY <1>1, Conserved, Zenon DEF QueueInv
<1>3. CASE Has(finished, e)
  BY <1>1, <1>2, <1>3 DEF One
<1>4. CASE Carried(e)
  BY <1>1, <1>2, <1>4 DEF One
<1> QED BY <1>3, <1>4, Zenon

\* Messages, announces, jobs and notices are different things.
LEMMA Kinds ==
  /\ \A m \in Messages : m \in Items /\ m \notin Entries /\ m \notin Announces /\ m # None
  /\ \A e \in Entries : e \in Items /\ e \notin Messages
  /\ \A t \in Jobs : t \in Entries /\ t \in Items /\ t \notin Announces \cup Notices
  /\ \A e \in Announces \cup Notices : e \in Entries /\ e \notin Jobs
  BY QueueAssumption, Zenon DEF Items, Entries

LEMMA JobsAreItems == ASSUME NEW s \in Seq(Jobs) PROVE s \in Seq(Items)
  BY Kinds

\* A message that found the session busy is queued: it goes behind everything,
\* as it does in the line.
LEMMA EnqueueKeeps ==
  ASSUME QueueInv, NEW m \in Messages, enqueue_pending(m)
  PROVE  QueueInv'
<1>1. TypeOK /\ queue \in Seq(Items) /\ line \in Seq(Messages)
  BY Zenon DEF QueueInv, TypeOK, Items
<1>2. /\ At(m, "queue") /\ queue' = push(queue, m) /\ line' = Append(line, m) /\ Goto(m, "done")
      /\ UNCHANGED <<busy, finished, told, pushed, retries, stopped>>
  BY Zenon DEF enqueue_pending
<1>3. Moved(m, "done", proc[m].cur, proc[m].notes)
  BY <1>1, <1>2, ProcsAre, GotoMoves, Zenon DEF PCs
<1>4. ~ At(m, "got") /\ ~ At(m, "push") /\ ~ At(m, "llm") /\ Fresh(m)
  BY <1>2, Zenon DEF At, Fresh
<1>5. told[m] = 0 /\ ~ Has(queue, m) /\ ~ Held(m)
  BY <1>4, Exclusive, Zenon
<1>6. queue' = Append(queue, m)
  <2>1. \A i \in DOMAIN queue : ~ Before(m, queue[i])
    BY <1>1, Ordering
  <2> QED BY <1>1, <1>2, <1>5, <2>1, Kinds, PushLast, Zenon
<1>7. /\ \A x : Has(queue', x) <=> Has(queue, x) \/ x = m
      /\ Distinct(queue')
      /\ \A x, y : Follows(queue, x, y) => Follows(queue', x, y)
  BY <1>1, <1>5, <1>6, Kinds, AppendInserts, InsertKeeps DEF QueueInv
<1>8. queue' \in Seq(Items) /\ Sorted(queue')
  BY <1>1, <1>2, Kinds, PushSorts, PushIn, Zenon DEF QueueInv
<1>9. \A x : Has(queue, x) => Follows(queue', x, m)
  <2> SUFFICES ASSUME NEW i \in DOMAIN queue PROVE Follows(queue', queue[i], m)
    BY Zenon DEF Has
  <2>1. Len(queue) \in Nat /\ DOMAIN queue = 1 .. Len(queue)
    BY <1>1, Length, Zenon
  <2>2. /\ DOMAIN queue' = 1 .. Len(queue) + 1 /\ queue'[i] = queue[i]
        /\ queue'[Len(queue) + 1] = m
    BY <1>1, <1>6, <2>1, Kinds
  <2>3. i \in DOMAIN queue' /\ Len(queue) + 1 \in DOMAIN queue' /\ i < Len(queue) + 1
    BY <2>1, <2>2
  <2> QED BY <2>2, <2>3, Zenon DEF Follows
<1>10. /\ Len(line) \in Nat /\ DOMAIN line = 1 .. Len(line) /\ DOMAIN line' = 1 .. Len(line) + 1
       /\ line' \in Seq(Messages) /\ line'[Len(line) + 1] = m
       /\ \A k \in DOMAIN line : line'[k] = line[k] /\ line[k] \in Messages
  BY <1>1, <1>2, Length
<1>11. \A k \in DOMAIN line : line[k] # m
  BY <1>4, Zenon DEF QueueInv, Located
<1>12. LineKept'
  <2> SUFFICES ASSUME NEW k \in DOMAIN line', NEW l \in DOMAIN line', k < l,
                      Has(queue', line'[k])
               PROVE  Follows(queue', line'[k], line'[l])
    BY Zenon DEF LineKept
  <2>1. k \in DOMAIN line /\ line'[k] = line[k] /\ Has(queue, line[k])
    <3>1. k \in DOMAIN line
      BY <1>10
    <3> QED BY <1>7, <1>10, <1>11, <3>1, Zenon
  <2>2. CASE l \in DOMAIN line
    BY <1>7, <1>10, <2>1, <2>2, Zenon DEF QueueInv, LineKept
  <2>3. CASE l = Len(line) + 1
    BY <1>9, <1>10, <2>1, <2>3, Zenon
  <2> QED BY <1>10, <2>2, <2>3
<1>13. TypeOK'
  BY <1>1, <1>2, <1>3, <1>8, <1>10, TypesKept, Zenon DEF TypeOK, Moved, Items
<1>14. /\ \A x : Held(x)' <=> Held(x)
       /\ HeldOnce'
  BY <1>3, <1>4, ProcsAre, QuietMove, Conserved, Zenon DEF QueueInv
<1>15. \A x \in Messages : Fresh(x)' <=> Fresh(x) /\ x # m
  BY <1>3, ProcsAre, Zenon DEF Moved, Fresh
<1>16. MessagesConserved'
  <2>1. ASSUME NEW x \in Messages
        PROVE  told'[x] + One(Has(queue', x)) + One(Fresh(x)') + One(Held(x)') = 1
    <3>1. told[x] + One(Has(queue, x)) + One(Fresh(x)) + One(Held(x)) = 1
      BY Conserved, Zenon DEF QueueInv
    <3>2. CASE x = m
      BY <1>2, <1>5, <1>7, <1>14, <1>15, <3>2 DEF One
    <3>3. CASE x # m
      BY <1>2, <1>7, <1>14, <1>15, <3>1, <3>3, Zenon DEF One
    <3> QED BY <3>2, <3>3, Zenon
  <2> QED BY <1>14, <2>1, ConservedThen, Zenon
<1>17. EntriesConserved'
  BY <1>2, <1>3, <1>7, Kinds, ProcsAre, SameNotes, EntriesKept, Zenon DEF QueueInv
<1>18. NotesHeld'
  BY <1>2, <1>3, <1>4, ProcsAre, NotesKept, Zenon DEF QueueInv
<1>19. Located'
  <2>1. \A q \in Procs : At(q, "got")' => proc'[q].cur \in Messages
    BY <1>3, Zenon DEF QueueInv, Located, Moved, At
  <2>2. ASSUME NEW k \in DOMAIN line' PROVE ~ Fresh(line[k])'
    <3>1. line'[k] \in Messages /\ (line'[k] = m \/ (k \in DOMAIN line /\ line'[k] = line[k]))
      BY <1>10
    <3>2. proc'[line'[k]].pc \notin {"new", "queue", "start"}
      BY <1>3, <3>1, ProcsAre, Zenon DEF QueueInv, Located, Moved, Fresh
    <3> QED BY <3>2, Zenon DEF Fresh
  <2> QED BY <2>1, <2>2, Zenon DEF Located
<1>20. BusyHasTurn'
  BY <1>2, <1>3, <1>4, ProcsAre, FlagStays, Zenon DEF QueueInv
<1> QED BY <1>7, <1>8, <1>12, <1>13, <1>16, <1>17, <1>18, <1>19, <1>20, Zenon DEF QueueInv

\* A message that found the session idle goes to the history and to the LLM.
LEMMA DispatchKeeps ==
  ASSUME QueueInv, NEW m \in Messages, dispatch_llm_call(m)
  PROVE  QueueInv'
<1>1. TypeOK /\ told \in [Items -> Nat]
  BY Zenon DEF QueueInv, TypeOK, Items
<1>2. /\ At(m, "start") /\ busy' = TRUE /\ told' = [told EXCEPT ![m] = @ + 1]
      /\ UNCHANGED <<queue, finished, pushed, line, retries, stopped>>
  BY Zenon DEF dispatch_llm_call
<1>3. Moved(m, "llm", m, proc[m].notes)
  BY <1>1, DispatchMoves, Zenon
<1>4. ~ At(m, "got") /\ ~ At(m, "push") /\ Fresh(m)
  BY <1>2, Zenon DEF At, Fresh
<1>5. told[m] = 0 /\ ~ Has(queue, m) /\ ~ Held(m)
  BY <1>4, Exclusive, Zenon
<1>6. /\ told' \in [Items -> Nat] /\ told'[m] = 1
      /\ \A x \in Items : x # m => told'[x] = told[x]
  BY <1>1, <1>2, <1>5, Kinds
<1>7. TypeOK'
  BY <1>1, <1>2, <1>3, <1>6, TypesKept, Zenon DEF TypeOK, Moved, Items
<1>8. /\ \A x : Held(x)' <=> Held(x)
      /\ HeldOnce'
  BY <1>3, <1>4, ProcsAre, QuietMove, Conserved, Zenon DEF QueueInv
<1>9. \A x \in Messages : Fresh(x)' <=> Fresh(x) /\ x # m
  BY <1>3, ProcsAre, Zenon DEF Moved, Fresh
<1>10. MessagesConserved'
  <2>1. ASSUME NEW x \in Messages
        PROVE  told'[x] + One(Has(queue', x)) + One(Fresh(x)') + One(Held(x)') = 1
    <3>1. told[x] + One(Has(queue, x)) + One(Fresh(x)) + One(Held(x)) = 1
      BY Conserved, Zenon DEF QueueInv
    <3>2. CASE x = m
      BY <1>2, <1>5, <1>6, <1>8, <1>9, <3>2 DEF One
    <3>3. CASE x # m
      BY <1>2, <1>6, <1>8, <1>9, <3>1, <3>3, Kinds, Zenon DEF One
    <3> QED BY <3>2, <3>3, Zenon
  <2> QED BY <1>8, <2>1, ConservedThen, Zenon
<1>11. EntriesConserved'
  BY <1>2, <1>3, <1>6, Kinds, ProcsAre, SameNotes, EntriesKept, Zenon DEF QueueInv
<1>12. NotesHeld'
  BY <1>2, <1>3, <1>4, ProcsAre, NotesKept, Zenon DEF QueueInv
<1>13. Located'
  BY <1>1, <1>2, <1>3, <1>9, ProcsAre, LocatedKept, Zenon DEF QueueInv
<1>14. BusyHasTurn'
  BY <1>3, ProcsAre, FlagSet, Zenon
<1>15. LineKept' /\ Sorted(queue') /\ Distinct(queue')
  BY <1>1, <1>2, LineStays, Zenon DEF QueueInv
<1> QED BY <1>7, <1>10, <1>11, <1>12, <1>13, <1>14, <1>15, Zenon DEF QueueInv

-----------------------------------------------------------------------------
(* The steps of a turn, and of those that push.                              *)

\* What the list of the task manager holds goes to the task that takes it.
LEMMA TakeKeeps ==
  ASSUME QueueInv, NEW p \in Procs, TakeNotes(p)
  PROVE  QueueInv'
<1>1. TypeOK /\ finished \in Seq(Jobs) /\ proc \in [Procs -> TaskRecord]
  BY Zenon DEF QueueInv, TypeOK, TaskRecord
<1>2. /\ At(p, "notes") /\ finished' = <<>>
      /\ UNCHANGED <<queue, busy, told, pushed, line, retries, stopped>>
  BY Zenon DEF TakeNotes
<1>3. Moved(p, "push", proc[p].cur, finished)
  BY <1>1, TakeMoves, Zenon
<1>4. /\ ~ At(p, "got") /\ ~ At(p, "push") /\ ~ At(p, "llm") /\ proc[p].notes = <<>>
      /\ p \in Messages => ~ Fresh(p)
  BY <1>2, Zenon DEF At, Fresh, QueueInv, NotesHeld
<1>5. TypeOK'
  <2>1. <<>> \in Seq(Jobs)
    OBVIOUS
  <2> QED BY <1>1, <1>2, <1>3, <2>1, TypesKept, Zenon DEF TypeOK, Moved, Items
<1>6. /\ \A x : Held(x)' <=> Held(x)
      /\ HeldOnce => HeldOnce'
  BY <1>3, <1>4, QuietMove, Zenon
<1>7. \A x \in Messages : Fresh(x)' <=> Fresh(x)
  BY <1>3, <1>4, FreshMove, Zenon
<1>8. MessagesConserved'
  BY <1>2, <1>6, <1>7, MessagesKept, Zenon DEF QueueInv
<1>9. \A x : ~ Has(<<>>, x)
  BY DEF Has
<1>10. \A x : Carried(x)' <=> Carried(x) \/ Has(finished, x)
  <2> TAKE x
  <2>1. \A q \in Procs : Has(proc'[q].notes, x) <=>
          IF q = p THEN Has(finished, x) ELSE Has(proc[q].notes, x)
    BY <1>3, Zenon DEF Moved
  <2>2. ~ Has(proc[p].notes, x)
    BY <1>4, <1>9, Zenon
  <2> QED BY <2>1, <2>2, Zenon DEF Carried
<1>11. \A x : Has(finished, x) => x \in Jobs
  BY <1>1 DEF Has
<1>12. EntriesConserved'
  <2>1. ASSUME NEW e \in Entries
        PROVE  pushed'[e] = told'[e] + One(Has(queue', e)) + One(Has(finished', e))
                            + One(Carried(e)')
    <3>1. pushed[e] = told[e] + One(Has(queue, e)) + One(Has(finished, e)) + One(Carried(e))
      BY Conserved, Zenon DEF QueueInv
    <3>2. ~ Has(finished', e) /\ (Has(finished, e) => ~ Carried(e))
      BY <1>2, <1>9, <1>11, JobOnce, Zenon
    <3>3. told[e] \in Nat
      BY <1>1, Kinds, Zenon DEF TypeOK, Items
    <3> QED BY <1>2, <1>10, <3>1, <3>2, <3>3 DEF One
  <2> QED BY <2>1, ConservedThen, Zenon
<1>13. NotesHeld'
  <2>1. Distinct(finished')
    BY <1>2 DEF Distinct
  <2>2. \A q \in Procs : Distinct(proc'[q].notes) /\ (At(q, "push")' \/ proc'[q].notes = <<>>)
    <3> TAKE q \in Procs
    <3>1. CASE q = p
      BY <1>3, <3>1, Zenon DEF Moved, At, QueueInv, NotesHeld
    <3>2. CASE q # p
      BY <1>3, <3>2, Zenon DEF Moved, At, QueueInv, NotesHeld
    <3> QED BY <3>1, <3>2, Zenon
  <2>3. ASSUME NEW q \in Procs, NEW r \in Procs, NEW e \in Jobs,
               Has(proc'[q].notes, e), Has(proc'[r].notes, e)
        PROVE  q = r
    <3>1. CASE Has(finished, e)
      <4>1. \A s \in Procs : ~ Has(proc[s].notes, e)
        BY <3>1, JobOnce, Zenon DEF Carried
      <4>2. \A s \in Procs : s # p => proc'[s] = proc[s]
        BY <1>3, Zenon DEF Moved
      <4> QED BY <2>3, <4>1, <4>2, Zenon
    <3>2. CASE ~ Has(finished, e)
      <4>1. q # p /\ r # p
        BY <1>3, <2>3, <3>2, Zenon DEF Moved
      <4>2. proc'[q] = proc[q] /\ proc'[r] = proc[r]
        BY <1>3, <4>1, Zenon DEF Moved
      <4> QED BY <2>3, <4>2, Zenon DEF QueueInv, NotesHeld
    <3> QED BY <3>1, <3>2, Zenon
  <2>4. \A t \in Jobs : pushed'[t] <= 1
    BY <1>2, Zenon DEF QueueInv, NotesHeld
  <2> QED BY <2>1, <2>2, <2>3, <2>4, Zenon DEF NotesHeld
<1>14. Located'
  BY <1>1, <1>2, <1>3, <1>7, LocatedKept, Zenon DEF QueueInv
<1>15. BusyHasTurn'
  BY <1>2, <1>3, <1>4, FlagStays, Zenon DEF QueueInv
<1>16. LineKept' /\ Sorted(queue') /\ Distinct(queue')
  BY <1>1, <1>2, LineStays, Zenon DEF QueueInv
<1> QED BY <1>5, <1>8, <1>12, <1>13, <1>14, <1>15, <1>16, Zenon DEF QueueInv

\* The notifications a task has taken go to the queue, which has none of them.
LEMMA PushNotesKeeps ==
  ASSUME QueueInv, NEW p \in Procs, PushNotes(p)
  PROVE  QueueInv'
<1> DEFINE ns == proc[p].notes
<1>1. /\ TypeOK /\ queue \in Seq(Items) /\ ns \in Seq(Jobs) /\ ns \in Seq(Items)
      /\ proc \in [Procs -> TaskRecord]
  BY JobsAreItems, Zenon DEF QueueInv, TypeOK, TaskRecord, Items
<1>2. /\ At(p, "push") /\ queue' = pushAll(queue, ns, DOMAIN ns)
      /\ UNCHANGED <<busy, finished, told, pushed, line, retries, stopped>>
  BY Zenon DEF PushNotes
<1>3. Moved(p, "drain", proc[p].cur, <<>>)
  BY <1>1, PushMoves, Zenon
<1> HIDE DEF ns
<1>4. ~ At(p, "got") /\ ~ At(p, "llm") /\ (p \in Messages => ~ Fresh(p))
  BY <1>2, Zenon DEF At, Fresh
<1>5. \A x : Has(ns, x) => x \in Jobs /\ Carried(x) /\ ~ Has(queue, x) /\ ~ Has(finished, x)
  <2> SUFFICES ASSUME NEW x, Has(ns, x)
               PROVE  x \in Jobs /\ Carried(x) /\ ~ Has(queue, x) /\ ~ Has(finished, x)
    OBVIOUS
  <2>1. x \in Jobs
    BY <1>1 DEF Has
  <2>2. Carried(x)
    BY Zenon DEF Carried, ns
  <2> QED BY <2>1, <2>2, JobOnce, Zenon
<1>6. Distinct(ns) /\ \A i \in DOMAIN ns : ~ Has(queue, ns[i])
  <2>1. Distinct(ns)
    BY Zenon DEF QueueInv, NotesHeld, ns
  <2>2. \A i \in DOMAIN ns : Has(ns, ns[i])
    BY Zenon DEF Has
  <2> QED BY <1>5, <2>1, <2>2, Zenon
<1>7. /\ queue' \in Seq(Items) /\ Sorted(queue') /\ Distinct(queue')
      /\ \A x : Has(queue', x) <=> Has(queue, x) \/ Has(ns, x)
      /\ \A x, y : Follows(queue, x, y) => Follows(queue', x, y)
  BY <1>1, <1>2, <1>6, PushedAll, Zenon DEF QueueInv
<1>8. TypeOK'
  BY <1>1, <1>2, <1>3, <1>7, TypesKept, Zenon DEF TypeOK, Moved, Items
<1>9. \A x \in Messages : Has(queue', x) <=> Has(queue, x)
  BY <1>5, <1>7, Kinds, Zenon
<1>10. LineKept'
  BY <1>1, <1>2, <1>7, <1>9, LineStays, Zenon DEF QueueInv
<1>11. /\ \A x : Held(x)' <=> Held(x)
       /\ HeldOnce => HeldOnce'
  BY <1>3, <1>4, QuietMove, Zenon
<1>12. \A x \in Messages : Fresh(x)' <=> Fresh(x)
  BY <1>3, <1>4, FreshMove, Zenon
<1>13. MessagesConserved'
  BY <1>2, <1>9, <1>11, <1>12, MessagesKept, Zenon DEF QueueInv
<1>14. \A x : ~ Has(<<>>, x)
  BY DEF Has
<1>15. \A q \in Procs : q # p => proc'[q] = proc[q]
  BY <1>3, Zenon DEF Moved
<1>16. proc'[p].notes = <<>>
  BY <1>3, Zenon DEF Moved
<1>17. ASSUME NEW x \in Entries PROVE Carried(x)' <=> Carried(x) /\ ~ Has(ns, x)
  <2>1. CASE Has(ns, x)
    <3>1. x \in Jobs /\ \A q \in Procs : Has(proc[q].notes, x) => q = p
      BY <1>5, <2>1, Zenon DEF QueueInv, NotesHeld, ns
    <3> QED BY <1>14, <1>15, <1>16, <2>1, <3>1, Zenon DEF Carried
  <2>2. CASE ~ Has(ns, x)
    BY <1>14, <1>15, <1>16, <2>2, Zenon DEF Carried, ns
  <2> QED BY <2>1, <2>2, Zenon
<1>18. EntriesConserved'
  <2>1. ASSUME NEW e \in Entries
        PROVE  pushed'[e] = told'[e] + One(Has(queue', e)) + One(Has(finished', e))
                            + One(Carried(e)')
    <3>1. pushed[e] = told[e] + One(Has(queue, e)) + One(Has(finished, e)) + One(Carried(e))
      BY Conserved, Zenon DEF QueueInv
    <3>2. told[e] \in Nat
      BY <1>1, Kinds, Zenon DEF TypeOK, Items
    <3> QED BY <1>2, <1>5, <1>7, <1>17, <3>1, <3>2 DEF One
  <2> QED BY <2>1, ConservedThen, Zenon
<1>19. NotesHeld'
  <2>1. \A q \in Procs : Distinct(proc'[q].notes) /\ (At(q, "push")' \/ proc'[q].notes = <<>>)
    <3> TAKE q \in Procs
    <3>1. CASE q = p
      BY <1>16, <3>1 DEF Distinct
    <3>2. CASE q # p
      BY <1>15, <3>2, Zenon DEF At, QueueInv, NotesHeld
    <3> QED BY <3>1, <3>2, Zenon
  <2>2. ASSUME NEW q \in Procs, NEW r \in Procs, NEW e \in Jobs,
               Has(proc'[q].notes, e), Has(proc'[r].notes, e)
        PROVE  q = r
    <3>1. q # p /\ r # p
      BY <1>14, <1>16, <2>2, Zenon
    <3> QED BY <1>15, <2>2, <3>1, Zenon DEF QueueInv, NotesHeld
  <2> QED BY <1>2, <2>1, <2>2, Zenon DEF QueueInv, NotesHeld
<1>20. Located'
  BY <1>1, <1>2, <1>3, <1>12, LocatedKept, Zenon DEF QueueInv
<1>21. BusyHasTurn'
  BY <1>2, <1>3, <1>4, FlagStays, Zenon DEF QueueInv
<1> QED BY <1>7, <1>8, <1>10, <1>13, <1>18, <1>19, <1>20, <1>21, Zenon DEF QueueInv

\* drain_announces keeps the user messages, in their order.
LEMMA DrainedIs ==
  ASSUME QueueInv
  PROVE  /\ Drained \in Seq(Items) /\ Sorted(Drained) /\ Distinct(Drained)
         /\ \A x : Has(Drained, x) <=> Has(queue, x) /\ x \in Messages
         /\ \A x, y \in Messages : Follows(queue, x, y) => Follows(Drained, x, y)
<1>1. queue \in Seq(Items) /\ Sorted(queue) /\ Distinct(queue) /\ Users \in SUBSET DOMAIN queue
  BY Zenon DEF QueueInv, TypeOK, Items, Users
<1>2. /\ Drained \in Seq(Items) /\ Sorted(Drained) /\ Distinct(Drained)
      /\ \A x : Has(Drained, x) <=> \E i \in Users : queue[i] = x
      /\ \A i, j \in Users : i < j => Follows(Drained, queue[i], queue[j])
  BY <1>1, Refilled, Zenon DEF Drained
<1>3. \A x : (\E i \in Users : queue[i] = x) <=> Has(queue, x) /\ x \in Messages
  BY Zenon DEF Users, IsUser, Has
<1>4. ASSUME NEW x \in Messages, NEW y \in Messages, Follows(queue, x, y)
      PROVE  Follows(Drained, x, y)
  <2>1. PICK i \in DOMAIN queue, j \in DOMAIN queue : i < j /\ queue[i] = x /\ queue[j] = y
    BY <1>4, Zenon DEF Follows
  <2>2. i \in Users /\ j \in Users
    BY <2>1, Zenon DEF Users, IsUser
  <2> QED BY <1>2, <2>1, <2>2, Zenon
<1> QED BY <1>2, <1>3, <1>4, Zenon

\* All entries leave the queue for the history.
LEMMA DrainKeeps ==
  ASSUME QueueInv, NEW p \in Procs, Drain(p)
  PROVE  QueueInv'
<1>1. TypeOK /\ told \in [Items -> Nat]
  BY Zenon DEF QueueInv, TypeOK, Items
<1>2. /\ At(p, "drain") /\ queue' = Drained
      /\ told' = [e \in DOMAIN told |-> IF e \in {x \in Entries : Queued(x)} THEN told[e] + 1
                                      ELSE told[e]]
      /\ UNCHANGED <<busy, finished, pushed, line, retries, stopped>>
  BY Zenon DEF Drain
<1>3. PICK pc \in {"pop", "drain"} : Moved(p, pc, proc[p].cur, proc[p].notes)
  <2>1. PICK pc \in {"pop", "drain"} : Goto(p, pc)
    BY Zenon DEF Drain
  <2> QED BY <1>1, <2>1, GotoMoves, Zenon DEF PCs
<1>4. ~ At(p, "got") /\ ~ At(p, "push") /\ ~ At(p, "llm") /\ (p \in Messages => ~ Fresh(p))
  BY <1>2, Zenon DEF At, Fresh
<1>5. /\ queue' \in Seq(Items) /\ Sorted(queue') /\ Distinct(queue')
      /\ \A x : Has(queue', x) <=> Has(queue, x) /\ x \in Messages
      /\ \A x, y \in Messages : Follows(queue, x, y) => Follows(queue', x, y)
  BY <1>2, DrainedIs, Zenon
<1>6. /\ told' \in [Items -> Nat]
      /\ \A x \in Entries : told'[x] = IF Has(queue, x) THEN told[x] + 1 ELSE told[x]
      /\ \A x \in Messages : told'[x] = told[x]
  <2>1. DOMAIN told = Items
    BY <1>1, Zenon
  <2>2. \A x \in Items :
          told'[x] = IF x \in Entries /\ Has(queue, x) THEN told[x] + 1 ELSE told[x]
    BY <1>2, <2>1, Zenon DEF Queued, Has
  <2>3. told' \in [Items -> Nat]
    BY <1>1, <1>2, <2>1
  <2> QED BY <2>2, <2>3, Kinds, Zenon
<1>7. TypeOK'
  BY <1>1, <1>2, <1>3, <1>5, <1>6, TypesKept, Zenon DEF TypeOK, Moved, Items
<1>8. LineKept'
  BY <1>1, <1>2, <1>5, LineStays, Zenon DEF QueueInv
<1>9. /\ \A x : Held(x)' <=> Held(x)
      /\ HeldOnce => HeldOnce'
  BY <1>3, <1>4, QuietMove, Zenon
<1>10. \A x \in Messages : Fresh(x)' <=> Fresh(x)
  BY <1>3, <1>4, FreshMove, Zenon
<1>11. MessagesConserved'
  BY <1>5, <1>6, <1>9, <1>10, MessagesKept, Zenon DEF QueueInv
<1>12. EntriesConserved'
  <2>1. ASSUME NEW e \in Entries
        PROVE  pushed'[e] = told'[e] + One(Has(queue', e)) + One(Has(finished', e))
                            + One(Carried(e)')
    <3>1. pushed[e] = told[e] + One(Has(queue, e)) + One(Has(finished, e)) + One(Carried(e))
      BY Conserved, Zenon DEF QueueInv
    <3>2. told[e] \in Nat /\ ~ Has(queue', e) /\ (Carried(e)' <=> Carried(e))
      BY <1>1, <1>3, <1>5, Kinds, SameNotes, Zenon
    <3> QED BY <1>2, <1>6, <3>1, <3>2 DEF One
  <2> QED BY <2>1, ConservedThen, Zenon
<1>13. NotesHeld'
  BY <1>2, <1>3, <1>4, NotesKept, Zenon DEF QueueInv
<1>14. Located'
  BY <1>1, <1>2, <1>3, <1>10, LocatedKept, Zenon DEF QueueInv
<1>15. BusyHasTurn'
  BY <1>2, <1>3, <1>4, FlagStays, Zenon DEF QueueInv
<1> QED BY <1>5, <1>7, <1>8, <1>11, <1>12, <1>13, <1>14, <1>15, Zenon DEF QueueInv

\* The first user message is the first of the indices of user messages.
LEMMA FirstUserIs ==
  ASSUME queue \in Seq(Items)
  PROVE  \/ FirstUser = 0 /\ Users = {}
         \/ FirstUser \in Users /\ FirstUser # 0 /\ \A i \in Users : FirstUser <= i
<1>1. Users \in SUBSET Nat /\ Users \subseteq 1 .. Len(queue)
  BY Length DEF Users
<1>2. CASE Users = {}
  BY <1>2, Zenon DEF FirstUser
<1>3. CASE Users # {}
  <2>1. First(Users) \in Users /\ \A i \in Users : First(Users) <= i
    BY <1>1, <1>3, FirstIs, Zenon
  <2>2. First(Users) # 0
    BY <1>1, <2>1
  <2> QED BY <1>3, <2>1, <2>2, Zenon DEF FirstUser
<1> QED BY <1>2, <1>3, Zenon

\* pop_pending takes the first user message and keeps the order of the others.
LEMMA PoppedIs ==
  ASSUME QueueInv
  PROVE  /\ Popped \in Seq(Items) /\ Sorted(Popped) /\ Distinct(Popped)
         /\ FirstUser = 0 => \A x : Has(Popped, x) <=> Has(queue, x)
         /\ FirstUser # 0 => /\ queue[FirstUser] \in Messages /\ Has(queue, queue[FirstUser])
                             /\ \A x : Has(Popped, x) <=> Has(queue, x) /\ x # queue[FirstUser]
         /\ \A x, y \in Messages :
              Has(Popped, x) /\ Follows(queue, x, y) => Follows(Popped, x, y)
<1> DEFINE kept == DOMAIN queue \ {FirstUser}
<1>1. /\ queue \in Seq(Items) /\ Sorted(queue) /\ Distinct(queue) /\ kept \in SUBSET DOMAIN queue
      /\ DOMAIN queue = 1 .. Len(queue) /\ Len(queue) \in Nat
  BY Length, Zenon DEF QueueInv, TypeOK, Items
<1>2. /\ Popped \in Seq(Items) /\ Sorted(Popped) /\ Distinct(Popped)
      /\ \A x : Has(Popped, x) <=> \E i \in kept : queue[i] = x
      /\ \A i, j \in kept : i < j => Follows(Popped, queue[i], queue[j])
  <2> HIDE DEF kept
  <2>1. Popped = pushAll(<<>>, queue, kept)
    BY Zenon DEF Popped, kept
  <2> QED BY <1>1, <2>1, Refilled, Zenon
<1>3. ASSUME FirstUser = 0 PROVE \A x : Has(Popped, x) <=> Has(queue, x)
  <2>1. kept = DOMAIN queue
    BY <1>1, <1>3
  <2> QED BY <1>2, <2>1, Zenon DEF Has
<1>4. ASSUME FirstUser # 0
      PROVE  /\ queue[FirstUser] \in Messages /\ Has(queue, queue[FirstUser])
             /\ \A x : Has(Popped, x) <=> Has(queue, x) /\ x # queue[FirstUser]
  <2>1. FirstUser \in DOMAIN queue /\ queue[FirstUser] \in Messages
    BY <1>1, <1>4, FirstUserIs, Zenon DEF Users, IsUser
  <2>2. \A i \in DOMAIN queue : i \in kept <=> queue[i] # queue[FirstUser]
    BY <1>1, <2>1, Zenon DEF Distinct
  <2> HIDE DEF kept
  <2>3. \A x : (\E i \in kept : queue[i] = x) <=> Has(queue, x) /\ x # queue[FirstUser]
    BY <1>1, <2>2, Zenon DEF Has
  <2> QED BY <1>2, <2>1, <2>3, Zenon DEF Has
<1>5. ASSUME NEW x \in Messages, NEW y \in Messages, Has(Popped, x), Follows(queue, x, y)
      PROVE  Follows(Popped, x, y)
  <2>1. PICK i \in DOMAIN queue, j \in DOMAIN queue : i < j /\ queue[i] = x /\ queue[j] = y
    BY <1>5, Zenon DEF Follows
  <2>2. i \in Users
    BY <2>1, Zenon DEF Users, IsUser
  <2>3. i # FirstUser
    <3>1. PICK k \in kept : queue[k] = x
      BY <1>2, <1>5, Zenon
    <3>2. k = i
      BY <1>1, <2>1, <3>1, Zenon DEF Distinct
    <3> QED BY <3>1, <3>2, Zenon
  <2>4. FirstUser <= i /\ FirstUser \in Nat
    BY <1>1, <2>2, FirstUserIs DEF Users
  <2>5. i \in kept /\ j \in kept
    BY <1>1, <2>1, <2>3, <2>4
  <2> QED BY <1>2, <2>1, <2>5, Zenon
<1> QED BY <1>2, <1>3, <1>4, <1>5, Zenon

\* A task takes the first user message, which no other task has.
LEMMA PopKeeps ==
  ASSUME QueueInv, NEW p \in Procs, Pop(p)
  PROVE  QueueInv'
<1> DEFINE m == queue[FirstUser]
<1>1. TypeOK
  BY Zenon DEF QueueInv
<1>2. /\ At(p, "pop") /\ queue' = Popped
      /\ UNCHANGED <<busy, finished, told, pushed, line, retries, stopped>>
  BY Zenon DEF Pop
<1>3. ~ At(p, "got") /\ ~ At(p, "push") /\ ~ At(p, "llm") /\ (p \in Messages => ~ Fresh(p))
  BY <1>2, Zenon DEF At, Fresh
<1>4. /\ queue' \in Seq(Items) /\ Sorted(queue') /\ Distinct(queue')
      /\ FirstUser = 0 => \A x : Has(queue', x) <=> Has(queue, x)
      /\ FirstUser # 0 => /\ m \in Messages /\ Has(queue, m)
                          /\ \A x : Has(queue', x) <=> Has(queue, x) /\ x # m
      /\ \A x, y \in Messages : Has(queue', x) /\ Follows(queue, x, y) => Follows(queue', x, y)
  BY <1>2, PoppedIs, Zenon
<1> HIDE DEF m
<1>5. CASE FirstUser = 0
  <2>1. Moved(p, "done", None, proc[p].notes)
    BY <1>1, <1>5, LeaveMoves, Zenon DEF Pop
  <2>2. TypeOK'
    BY <1>1, <1>2, <1>4, <2>1, TypesKept, Zenon DEF TypeOK, Moved, Items
  <2>3. LineKept'
    BY <1>1, <1>2, <1>4, <1>5, LineStays, Zenon DEF QueueInv
  <2>4. /\ \A x : Held(x)' <=> Held(x)
        /\ HeldOnce => HeldOnce'
    BY <1>3, <2>1, QuietMove, Zenon
  <2>5. \A x \in Messages : Fresh(x)' <=> Fresh(x)
    BY <1>3, <2>1, FreshMove, Zenon
  <2>6. MessagesConserved'
    BY <1>2, <1>4, <1>5, <2>4, <2>5, MessagesKept, Zenon DEF QueueInv
  <2>7. EntriesConserved'
    BY <1>2, <1>4, <1>5, <2>1, SameNotes, EntriesKept, Zenon DEF QueueInv
  <2>8. NotesHeld'
    BY <1>2, <1>3, <2>1, NotesKept, Zenon DEF QueueInv
  <2>9. Located'
    BY <1>1, <1>2, <2>1, <2>5, LocatedKept DEF QueueInv
  <2>10. BusyHasTurn'
    BY <1>2, <1>3, <2>1, FlagStays, Zenon DEF QueueInv
  <2> QED BY <1>4, <2>2, <2>3, <2>6, <2>7, <2>8, <2>9, <2>10, Zenon DEF QueueInv
<1>6. CASE FirstUser # 0
  <2>1. m \in Messages /\ Has(queue, m) /\ \A x : Has(queue', x) <=> Has(queue, x) /\ x # m
    BY <1>4, <1>6, Zenon
  <2>2. Moved(p, "got", m, proc[p].notes)
    BY <1>1, <1>6, <2>1, ServeMoves, Zenon DEF Pop, m
  <2>3. told[m] = 0 /\ ~ Fresh(m) /\ ~ Held(m)
    BY <2>1, Exclusive, Zenon
  <2>4. TypeOK'
    BY <1>1, <1>2, <1>4, <2>2, TypesKept, Zenon DEF TypeOK, Moved, Items
  <2>5. LineKept'
    BY <1>1, <1>2, <1>4, <2>1, LineStays, Zenon DEF QueueInv
  <2>6. \A x \in Messages : Fresh(x)' <=> Fresh(x)
    BY <1>3, <2>2, FreshMove, Zenon
  <2>7. \A q \in Procs : At(q, "got")' <=> At(q, "got") \/ q = p
    BY <2>2, Zenon DEF Moved, At
  <2>8. proc'[p].cur = m /\ \A q \in Procs : q # p => proc'[q] = proc[q]
    BY <2>2, Zenon DEF Moved
  <2>9. \A x : Held(x)' <=> Held(x) \/ x = m
    BY <1>3, <2>7, <2>8, Zenon DEF Held
  <2>10. HeldOnce'
    <3>1. \A q \in Procs : At(q, "got") => proc[q].cur # m
      BY <2>3, Zenon DEF Held
    <3>2. HeldOnce
      BY Conserved, Zenon DEF QueueInv
    <3> QED BY <1>3, <2>7, <2>8, <3>1, <3>2, Zenon DEF HeldOnce
  <2>11. MessagesConserved'
    <3>1. ASSUME NEW x \in Messages
          PROVE  told'[x] + One(Has(queue', x)) + One(Fresh(x)') + One(Held(x)') = 1
      <4>1. told[x] + One(Has(queue, x)) + One(Fresh(x)) + One(Held(x)) = 1
        BY Conserved, Zenon DEF QueueInv
      <4>2. CASE x = m
        BY <1>2, <2>1, <2>3, <2>6, <2>9, <4>2 DEF One
      <4>3. CASE x # m
        BY <1>2, <2>1, <2>6, <2>9, <4>1, <4>3, Zenon DEF One
      <4> QED BY <4>2, <4>3, Zenon
    <3> QED BY <2>10, <3>1, ConservedThen, Zenon
  <2>12. EntriesConserved'
    BY <1>2, <2>1, <2>2, Kinds, SameNotes, EntriesKept, Zenon DEF QueueInv
  <2>13. NotesHeld'
    BY <1>2, <1>3, <2>2, NotesKept, Zenon DEF QueueInv
  <2>14. Located'
    BY <1>1, <1>2, <2>1, <2>2, <2>6, LocatedKept, Zenon DEF QueueInv
  <2>15. BusyHasTurn'
    BY <1>2, <1>3, <2>2, FlagStays, Zenon DEF QueueInv
  <2> QED BY <1>4, <2>4, <2>5, <2>11, <2>12, <2>13, <2>14, <2>15, Zenon DEF QueueInv
<1> QED BY <1>5, <1>6, Zenon

\* The popped message goes to the history.
LEMMA AnswerKeeps ==
  ASSUME QueueInv, NEW p \in Procs, Answer(p)
  PROVE  QueueInv'
<1> DEFINE m == proc[p].cur
<1>1. TypeOK /\ told \in [Items -> Nat]
  BY Zenon DEF QueueInv, TypeOK, Items
<1>2. /\ At(p, "got") /\ busy' = TRUE /\ told' = [told EXCEPT ![m] = @ + 1]
      /\ UNCHANGED <<queue, finished, pushed, line, retries, stopped>>
  BY Zenon DEF Answer
<1>3. Moved(p, "llm", m, proc[p].notes)
  BY <1>1, GotoMoves, Zenon DEF Answer, PCs
<1>4. m \in Messages /\ Held(m)
  BY <1>2, Zenon DEF QueueInv, Located, Held
<1>5. ~ At(p, "push") /\ (p \in Messages => ~ Fresh(p))
  BY <1>2, Zenon DEF At, Fresh
<1>6. told[m] = 0 /\ ~ Has(queue, m) /\ ~ Fresh(m)
  BY <1>4, Exclusive, Zenon
<1>7. HeldOnce
  BY Conserved, Zenon DEF QueueInv
<1>8. /\ \A q \in Procs : At(q, "got")' <=> At(q, "got") /\ q # p
      /\ \A q \in Procs : q # p => proc'[q] = proc[q]
  BY <1>3, Zenon DEF Moved, At
<1>9. \A q \in Procs : At(q, "got") /\ q # p => proc[q].cur # m
  BY <1>2, <1>7, Zenon DEF HeldOnce
<1> HIDE DEF m
<1>10. /\ told' \in [Items -> Nat] /\ told'[m] = 1
       /\ \A x \in Items : x # m => told'[x] = told[x]
  BY <1>1, <1>2, <1>4, <1>6, Kinds
<1>11. \A x : Held(x)' <=> Held(x) /\ x # m
  BY <1>8, <1>9, Zenon DEF Held, m
<1>12. HeldOnce'
  BY <1>7, <1>8, Zenon DEF HeldOnce
<1>13. \A x \in Messages : Fresh(x)' <=> Fresh(x)
  BY <1>3, <1>5, FreshMove, Zenon
<1>14. TypeOK'
  BY <1>1, <1>2, <1>3, <1>10, TypesKept, Zenon DEF TypeOK, Moved, Items
<1>15. MessagesConserved'
  <2>1. ASSUME NEW x \in Messages
        PROVE  told'[x] + One(Has(queue', x)) + One(Fresh(x)') + One(Held(x)') = 1
    <3>1. told[x] + One(Has(queue, x)) + One(Fresh(x)) + One(Held(x)) = 1
      BY Conserved, Zenon DEF QueueInv
    <3>2. CASE x = m
      BY <1>2, <1>6, <1>10, <1>11, <1>13, <3>2 DEF One
    <3>3. CASE x # m
      BY <1>2, <1>10, <1>11, <1>13, <3>1, <3>3, Kinds, Zenon DEF One
    <3> QED BY <3>2, <3>3, Zenon
  <2> QED BY <1>12, <2>1, ConservedThen, Zenon
<1>16. EntriesConserved'
  BY <1>2, <1>3, <1>4, <1>10, Kinds, SameNotes, EntriesKept, Zenon DEF QueueInv
<1>17. NotesHeld'
  BY <1>2, <1>3, <1>5, NotesKept, Zenon DEF QueueInv
<1>18. Located'
  BY <1>1, <1>2, <1>3, <1>13, LocatedKept DEF QueueInv
<1>19. BusyHasTurn'
  BY <1>3, FlagSet, Zenon
<1>20. LineKept' /\ Sorted(queue') /\ Distinct(queue')
  BY <1>1, <1>2, LineStays, Zenon DEF QueueInv
<1> QED BY <1>14, <1>15, <1>16, <1>17, <1>18, <1>19, <1>20, Zenon DEF QueueInv

\* A step of none of the tasks.
LEMMA TasksStay ==
  ASSUME UNCHANGED proc
  PROVE  /\ \A x : (Held(x)' <=> Held(x)) /\ (Fresh(x)' <=> Fresh(x))
         /\ \A x : Carried(x)' <=> Carried(x)
         /\ HeldOnce' <=> HeldOnce
         /\ UNCHANGED line => (Located' <=> Located)
         /\ UNCHANGED busy => (BusyHasTurn' <=> BusyHasTurn)
  BY DEF Held, Fresh, Carried, HeldOnce, Located, BusyHasTurn, At

\* Nothing happens.
LEMMA UnchangedKeeps == ASSUME QueueInv, UNCHANGED vars PROVE QueueInv'
<1> USE DEF vars
<1>1. TypeOK'
  BY Zenon DEF QueueInv, TypeOK
<1>2. LineKept' /\ Sorted(queue') /\ Distinct(queue')
  BY Zenon DEF QueueInv, LineKept
<1>3. MessagesConserved'
  BY TasksStay, MessagesKept, Zenon DEF QueueInv
<1>4. EntriesConserved'
  BY TasksStay, EntriesKept, Zenon DEF QueueInv
<1>5. NotesHeld'
  BY Zenon DEF QueueInv, NotesHeld, At
<1>6. Located' /\ BusyHasTurn'
  BY TasksStay, Zenon DEF QueueInv
<1> QED BY <1>1, <1>2, <1>3, <1>4, <1>5, <1>6, Zenon DEF QueueInv

\* An announce or a notice is pushed, unless the announce is queued already.
LEMMA PushEntryKeeps ==
  ASSUME QueueInv, NEW e \in Announces \cup Notices, PushEntry(e)
  PROVE  QueueInv'
<1>1. /\ TypeOK /\ queue \in Seq(Items) /\ pushed \in [Entries -> Nat]
      /\ proc \in [Procs -> TaskRecord]
  BY Zenon DEF QueueInv, TypeOK, Items, TaskRecord
<1>2. /\ IF e \in Announces THEN Queued(e) \/ pushed[e] < MaxPushes ELSE pushed[e] = 0
      /\ queue' = push(queue, e)
      /\ pushed' = IF queue' = queue THEN pushed ELSE [pushed EXCEPT ![e] = @ + 1]
      /\ UNCHANGED <<busy, finished, told, line, retries, stopped, proc>>
  BY Zenon DEF PushEntry
<1>3. e \in Entries /\ e \in Items /\ e \notin Messages /\ e \notin Jobs
  BY Kinds, Zenon
<1>4. queue' \in Seq(Items) /\ Sorted(queue')
  BY <1>1, <1>2, <1>3, PushIn, PushSorts, Zenon DEF QueueInv
<1>5. CASE e \in Announces /\ Has(queue, e)
  <2>1. queue' = queue /\ pushed' = pushed
    BY <1>1, <1>2, <1>3, <1>5, PushDoes, Zenon
  <2> QED BY <1>2, <2>1, UnchangedKeeps, Zenon DEF vars
<1>6. CASE ~ (e \in Announces /\ Has(queue, e))
  <2>1. ~ Has(queue, e)
    BY <1>2, <1>3, <1>6, Unpushed, Zenon
  <2>2. PICK i \in 1 .. Len(queue) + 1 : Inserted(queue, queue', i, e)
    BY <1>1, <1>2, <1>3, <1>6, PushDoes, Zenon
  <2>3. /\ \A x : Has(queue', x) <=> Has(queue, x) \/ x = e
        /\ Distinct(queue')
        /\ \A x, y : Follows(queue, x, y) => Follows(queue', x, y)
    BY <1>1, <1>3, <2>1, <2>2, InsertKeeps, Zenon DEF QueueInv
  <2>4. queue' # queue
    BY <2>1, <2>3, Zenon
  <2>5. /\ pushed' \in [Entries -> Nat] /\ pushed'[e] = pushed[e] + 1
        /\ \A x \in Entries : x # e => pushed'[x] = pushed[x]
    BY <1>1, <1>2, <1>3, <2>4
  <2>6. TypeOK'
    BY <1>1, <1>2, <1>4, <2>5, TypesKept, Zenon DEF TypeOK, Items
  <2>7. LineKept'
    BY <1>1, <1>2, <1>3, <2>3, LineStays, Zenon DEF QueueInv
  <2>8. MessagesConserved'
    BY <1>2, <1>3, <2>3, TasksStay, MessagesKept, Zenon DEF QueueInv
  <2>9. EntriesConserved'
    <3>1. ASSUME NEW x \in Entries
          PROVE  pushed'[x] = told'[x] + One(Has(queue', x)) + One(Has(finished', x))
                              + One(Carried(x)')
      <4>1. pushed[x] = told[x] + One(Has(queue, x)) + One(Has(finished, x)) + One(Carried(x))
        BY Conserved, Zenon DEF QueueInv
      <4>2. told[x] \in Nat /\ (Carried(x)' <=> Carried(x))
        BY <1>1, <1>2, Kinds, TasksStay, Zenon DEF TypeOK, Items
      <4>3. CASE x = e
        BY <1>2, <2>1, <2>3, <2>5, <4>1, <4>2, <4>3 DEF One
      <4>4. CASE x # e
        BY <1>2, <2>3, <2>5, <4>1, <4>2, <4>4, Zenon DEF One
      <4> QED BY <4>3, <4>4, Zenon
    <3> QED BY <3>1, ConservedThen, Zenon
  <2>10. NotesHeld'
    BY <1>2, <1>3, <2>5, Kinds, Zenon DEF QueueInv, NotesHeld, At
  <2>11. Located' /\ BusyHasTurn'
    BY <1>2, TasksStay, Zenon DEF QueueInv
  <2> QED BY <1>4, <2>3, <2>6, <2>7, <2>8, <2>9, <2>10, <2>11, Zenon DEF QueueInv
<1> QED BY <1>5, <1>6, Zenon

\* A background task ends and is noted by the task manager.
LEMMA FinishKeeps ==
  ASSUME QueueInv, NEW t \in Jobs, TaskFinishes(t)
  PROVE  QueueInv'
<1>1. /\ TypeOK /\ finished \in Seq(Jobs) /\ finished \in Seq(Items)
      /\ pushed \in [Entries -> Nat] /\ proc \in [Procs -> TaskRecord]
  BY JobsAreItems, Zenon DEF QueueInv, TypeOK, Items, TaskRecord
<1>2. /\ pushed[t] = 0 /\ finished' = Append(finished, t) /\ pushed' = [pushed EXCEPT ![t] = 1]
      /\ UNCHANGED <<queue, busy, told, line, retries, stopped, proc>>
  BY Zenon DEF TaskFinishes
<1>3. t \in Entries /\ t \in Items
  BY Kinds, Zenon
<1>4. told[t] = 0 /\ ~ Has(queue, t) /\ ~ Has(finished, t) /\ ~ Carried(t)
  BY <1>2, <1>3, Unpushed, Zenon
<1>5. finished' \in Seq(Jobs)
  BY <1>1, <1>2
<1>6. (\A x : Has(finished', x) <=> Has(finished, x) \/ x = t) /\ Distinct(finished')
  BY <1>1, <1>2, <1>3, <1>4, AppendInserts, InsertKeeps DEF QueueInv, NotesHeld
<1>7. /\ pushed' \in [Entries -> Nat] /\ pushed'[t] = 1
      /\ \A x \in Entries : x # t => pushed'[x] = pushed[x]
  BY <1>1, <1>2, <1>3, Zenon
<1>8. TypeOK'
  BY <1>1, <1>2, <1>5, <1>7, TypesKept, Zenon DEF TypeOK, Items
<1>9. LineKept' /\ Sorted(queue') /\ Distinct(queue')
  BY <1>1, <1>2, LineStays, Zenon DEF QueueInv
<1>10. MessagesConserved'
  BY <1>2, TasksStay, MessagesKept, Zenon DEF QueueInv
<1>11. EntriesConserved'
  <2>1. ASSUME NEW x \in Entries
        PROVE  pushed'[x] = told'[x] + One(Has(queue', x)) + One(Has(finished', x))
                            + One(Carried(x)')
    <3>1. pushed[x] = told[x] + One(Has(queue, x)) + One(Has(finished, x)) + One(Carried(x))
      BY Conserved, Zenon DEF QueueInv
    <3>2. told[x] \in Nat /\ (Carried(x)' <=> Carried(x))
      BY <1>1, <1>2, Kinds, TasksStay, Zenon DEF TypeOK, Items
    <3>3. CASE x = t
      BY <1>2, <1>4, <1>6, <1>7, <3>2, <3>3 DEF One
    <3>4. CASE x # t
      BY <1>2, <1>6, <1>7, <3>1, <3>2, <3>4, Zenon DEF One
    <3> QED BY <3>3, <3>4, Zenon
  <2> QED BY <2>1, ConservedThen, Zenon
<1>12. NotesHeld'
  <2>1. \A x \in Jobs : pushed'[x] <= 1
    BY <1>7, Kinds DEF QueueInv, NotesHeld
  <2> QED BY <1>2, <1>6, <2>1, Zenon DEF QueueInv, NotesHeld, At
<1>13. Located' /\ BusyHasTurn'
  BY <1>2, TasksStay, Zenon DEF QueueInv
<1> QED BY <1>8, <1>9, <1>10, <1>11, <1>12, <1>13, Zenon DEF QueueInv

-----------------------------------------------------------------------------
\* The invariant holds at first, is kept, and so holds always.
LEMMA QueueBegins == Init => QueueInv
<1> SUFFICES ASSUME Init PROVE QueueInv
  OBVIOUS
<1> USE DEF Init
<1>1. <<>> \in Seq(Items) /\ <<>> \in Seq(Messages) /\ <<>> \in Seq(Jobs)
  OBVIOUS
<1>2. proc \in [Procs -> TaskRecord] /\ \A p \in Procs : proc[p].pc = "new" /\ proc[p].notes = <<>>
  BY <1>1, Zenon DEF TaskRecord, PCs
<1>3. TypeOK
  <2>1. told \in [Messages \cup Entries -> Nat] /\ pushed \in [Entries -> Nat]
    OBVIOUS
  <2>2. retries \in 0 .. MaxRetries
    BY QueueAssumption
  <2> QED BY <1>1, <1>2, <2>1, <2>2, Zenon DEF TypeOK, Items, TaskRecord
<1>4. \A x : ~ Has(<<>>, x)
  BY DEF Has
<1>5. Sorted(queue) /\ Distinct(queue) /\ LineKept
  BY DEF Sorted, Distinct, LineKept
<1>6. HeldOnce /\ \A x : ~ Held(x)
  BY <1>2, Zenon DEF HeldOnce, Held, At
<1>7. \A m \in Messages : Fresh(m)
  BY <1>2, ProcsAre, Zenon DEF Fresh
<1>8. MessagesConserved
  BY <1>4, <1>6, <1>7, Conserved DEF One, Items
<1>9. \A x : ~ Carried(x)
  BY <1>2, <1>4, Zenon DEF Carried
<1>10. EntriesConserved
  BY <1>4, <1>9, Conserved DEF One
<1>11. NotesHeld
  BY <1>2, <1>4 DEF NotesHeld, Distinct, Entries
<1>12. Located /\ BusyHasTurn
  BY <1>2 DEF Located, BusyHasTurn, At
<1> QED BY <1>3, <1>5, <1>8, <1>10, <1>11, <1>12, Zenon DEF QueueInv

LEMMA QueueStep == ASSUME QueueInv, [Next]_vars PROVE QueueInv'
<1>1. ASSUME NEW m \in Messages, Check(m) \/ Start(m) PROVE QueueInv'
  BY <1>1, CheckKeeps, EnqueueKeeps, DispatchKeeps, Zenon DEF Start
<1>2. ASSUME NEW p \in Procs, Handle(p) PROVE QueueInv'
  BY <1>2, ClearKeeps, TakeKeeps, PushNotesKeeps, DrainKeeps, PopKeeps, AnswerKeeps, Zenon
  DEF Handle
<1> QED
  BY <1>1, <1>2, ResumeKeeps, PushEntryKeeps, FinishKeeps, UnchangedKeeps, Zenon DEF Next

LEMMA QueueAlways == Spec => []QueueInv
<1>1. QueueInv /\ [Next]_vars => QueueInv'
  BY QueueStep, Zenon
<1> QED BY <1>1, QueueBegins, PTL DEF Spec

\* The variables keep their types; in particular a task that popped a message from
\* the queue has a user message, never an entry (pop_pending).
THEOREM QueueTypes == Spec => []TypeOK
<1>1. QueueInv => TypeOK
  BY Zenon DEF QueueInv
<1> QED BY <1>1, QueueAlways, PTL

\* Whatever is pushed, drained and popped by any number of tasks at a time, the
\* queue is in the order of the sort keys, and user messages stay in the order in
\* which they were queued (push, drain_announces, pop_pending).
THEOREM QueueStaysOrdered == Spec => []QueueOrdered
<1>1. QueueInv => QueueOrdered
  BY OrderedIs, Zenon DEF QueueInv
<1> QED BY <1>1, QueueAlways, PTL

\* No message or entry is lost or doubled on its way from the sender through the
\* queue to the history, for any numbers of messages, entries and tasks, although
\* drain_announces and pop_pending rebuild the queue and turns overlap.
THEOREM QueueLosesNothing == Spec => []NothingLost
<1>1. QueueInv => NothingLost
  BY Zenon DEF QueueInv, NothingLost, Distinct
<1> QED BY <1>1, QueueAlways, PTL

\* However many tasks handle messages of one session at a time, the flag that
\* dispatch_llm_call sets and clear_busy_and_send clears is up only while one of
\* them is in an LLM call: no message is queued behind a turn that is over.
THEOREM FlagHasTurn == Spec => []BusyHasTurn
<1>1. QueueInv => BusyHasTurn
  BY Zenon DEF QueueInv
<1> QED BY <1>1, QueueAlways, PTL
=============================================================================
