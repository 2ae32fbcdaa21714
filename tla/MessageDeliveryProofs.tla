----------------------- MODULE MessageDeliveryProofs ------------------------
(***************************************************************************)
(* Proofs about MessageDelivery, for any messages, requests and numbers of *)
(* Stops: types, the journal, the order of delivery, Stop and the wakeup.  *)
(***************************************************************************)
EXTENDS MessageDelivery, FiniteSetTheorems, SequenceTheorems, WellFoundedInduction, TLAPS

-----------------------------------------------------------------------------
(* Sequences.                                                              *)

\* x stands somewhere before y.
Precedes(s, x, y) == \E p, q \in 1..Len(s) : p < q /\ s[p] = x /\ s[q] = y

\* A set of naturals has a least element.
LEMMA HasMin ==
  ASSUME NEW I, I \subseteq Nat, I # {}
  PROVE  \E m \in I : \A i \in I : m <= i
<1> DEFINE R == OpToRel(<, Nat)
<1>1. IsWellFoundedOn(R, Nat)
  BY NatLessThanWellFounded
<1>2. \A x, y \in Nat : x < y => << x, y >> \in R
  BY DEF OpToRel
<1> HIDE DEF R
<1>3. PICK m \in I : \A y \in I : ~ (<< y, m >> \in R)
  BY <1>1, WFMin
<1>4. \A i \in I : ~ (i < m)
  <2> TAKE i \in I
  <2>1. i \in Nat /\ m \in Nat
    OBVIOUS
  <2>2. ~ (<< i, m >> \in R)
    BY <1>3
  <2> QED BY <1>2, <2>1, <2>2, Zenon
<1>5. \A i \in I : i \in Int /\ m \in Int
  OBVIOUS
<1> QED BY <1>4, <1>5

\* Removing an element keeps the others, in their order.
LEMMA RemoveFirstKeeps ==
  ASSUME NEW S, NEW s \in Seq(S), NEW e
  PROVE  /\ RemoveFirst(s, e) \in Seq(S)
         /\ \A i, j \in 1..Len(RemoveFirst(s, e)) : i < j =>
              \E p, q \in 1..Len(s) : p < q /\ s[p] = RemoveFirst(s, e)[i] /\ s[q] = RemoveFirst(s, e)[j]
         /\ \A i \in 1..Len(RemoveFirst(s, e)) : \E p \in 1..Len(s) : s[p] = RemoveFirst(s, e)[i]
         /\ \A p \in 1..Len(s) : s[p] # e => \E i \in 1..Len(RemoveFirst(s, e)) : RemoveFirst(s, e)[i] = s[p]
         /\ (\A i, j \in 1..Len(s) : i < j => ~(s[i] = e /\ s[j] = e)) =>
              \A i \in 1..Len(RemoveFirst(s, e)) : RemoveFirst(s, e)[i] # e
<1> DEFINE t == RemoveFirst(s, e)
           n == Len(s)
<1>1. CASE ~Contains(s, e)
  BY <1>1 DEF RemoveFirst, Contains
<1>2. CASE Contains(s, e)
  <2> DEFINE I == { i \in 1..n : s[i] = e }
             k == SelectInSeq(s, LAMBDA v : v = e)
  <2>1. t = SubSeq(s, 1, k - 1) \o SubSeq(s, k + 1, n)
    BY <1>2 DEF RemoveFirst, RemoveAt, Contains
  <2>2. k = Min(I)
    BY <1>2 DEF SelectInSeq, Contains
  <2>3. PICK m \in I : \A i \in I : m <= i
    <3>1. PICK i \in 1..n : s[i] = e
      BY <1>2 DEF Contains
    <3>2. i \in I /\ I \in SUBSET Nat
      BY <3>1
    <3> HIDE DEF I
    <3> QED BY <3>2, HasMin
  <2>4. k \in I
    BY <2>2, <2>3 DEF Min
  <2>5. k \in 1..n /\ s[k] = e /\ n \in Nat
    BY <2>4
  <2> HIDE DEF k, I
  <2>6. /\ SubSeq(s, 1, k - 1) \in Seq(S) /\ Len(SubSeq(s, 1, k - 1)) = k - 1
        /\ \A i \in 1..(k - 1) : SubSeq(s, 1, k - 1)[i] = s[i]
    BY <2>5, SubSeqProperties
  <2>7. /\ SubSeq(s, k + 1, n) \in Seq(S) /\ Len(SubSeq(s, k + 1, n)) = n - k
        /\ \A i \in 1..(n - k) : SubSeq(s, k + 1, n)[i] = s[k + i]
    BY <2>5, SubSeqProperties
  <2> HIDE DEF t, n
  <2> DEFINE a == SubSeq(s, 1, k - 1)
             b == SubSeq(s, k + 1, n)
  <2>a. t = a \o b /\ a \in Seq(S) /\ b \in Seq(S) /\ Len(a) = k - 1 /\ Len(b) = n - k
    BY <2>1, <2>6, <2>7
  <2>b. \A i \in 1..(k - 1) : a[i] = s[i]
    BY <2>6
  <2>c. \A i \in 1..(n - k) : b[i] = s[k + i]
    BY <2>7
  <2> HIDE DEF a, b
  <2>d. /\ a \o b \in Seq(S)
        /\ Len(a \o b) = Len(a) + Len(b)
        /\ \A i \in 1..(Len(a) + Len(b)) : (a \o b)[i] = IF i <= Len(a) THEN a[i] ELSE b[i - Len(a)]
    BY <2>a, ConcatProperties
  <2>8. t \in Seq(S) /\ Len(t) = n - 1
    BY <2>5, <2>a, <2>d
  <2>9. \A i \in 1..(n - 1) : t[i] = IF i < k THEN s[i] ELSE s[i + 1]
    <3> TAKE i \in 1..(n - 1)
    <3>1. t[i] = IF i <= k - 1 THEN a[i] ELSE b[i - (k - 1)]
      BY <2>5, <2>a, <2>d
    <3>2. CASE i < k
      BY <2>5, <2>b, <3>1, <3>2
    <3>3. CASE ~ (i < k)
      <4>1. i - (k - 1) \in 1..(n - k) /\ k + (i - (k - 1)) = i + 1
        BY <2>5, <3>3
      <4> QED BY <2>5, <2>c, <3>1, <3>3, <4>1
    <3> QED BY <3>2, <3>3
  <2>10. \A i, j \in 1..(n - 1) : i < j => \E p, q \in 1..n : p < q /\ s[p] = t[i] /\ s[q] = t[j]
    <3> SUFFICES ASSUME NEW i \in 1..(n - 1), NEW j \in 1..(n - 1), i < j
                 PROVE  \E p, q \in 1..n : p < q /\ s[p] = t[i] /\ s[q] = t[j]
      OBVIOUS
    <3> DEFINE p == IF i < k THEN i ELSE i + 1
               q == IF j < k THEN j ELSE j + 1
    <3>1. p \in 1..n /\ q \in 1..n /\ p < q
      BY <2>5
    <3>2. s[p] = t[i] /\ s[q] = t[j]
      BY <2>9
    <3> QED BY <3>1, <3>2
  <2>11. \A i \in 1..(n - 1) : \E p \in 1..n : s[p] = t[i]
    BY <2>5, <2>9
  <2>12. \A p \in 1..n : s[p] # e => \E i \in 1..(n - 1) : t[i] = s[p]
    <3> SUFFICES ASSUME NEW p \in 1..n, s[p] # e PROVE \E i \in 1..(n - 1) : t[i] = s[p]
      OBVIOUS
    <3>1. CASE p < k
      BY <2>5, <2>9, <3>1
    <3>2. CASE p > k
      <4>1. p - 1 \in 1..(n - 1) /\ ~(p - 1 < k) /\ p - 1 + 1 = p
        BY <2>5, <3>2
      <4> QED BY <2>9, <4>1
    <3> QED BY <2>5, <3>1, <3>2
  <2>13. (\A i, j \in 1..n : i < j => ~(s[i] = e /\ s[j] = e)) => \A i \in 1..(n - 1) : t[i] # e
    <3> SUFFICES ASSUME \A i, j \in 1..n : i < j => ~(s[i] = e /\ s[j] = e), NEW i \in 1..(n - 1)
                 PROVE  t[i] # e
      OBVIOUS
    <3>1. CASE i < k
      <4>1. i \in 1..n /\ t[i] = s[i]
        BY <2>5, <2>9, <3>1
      <4> QED BY <2>5, <3>1, <4>1
    <3>2. CASE ~(i < k)
      <4>1. i + 1 \in 1..n /\ k < i + 1 /\ t[i] = s[i + 1]
        BY <2>5, <2>9, <3>2
      <4> QED BY <2>5, <4>1
    <3> QED BY <3>1, <3>2
  <2> QED BY <1>2, <2>8, <2>10, <2>11, <2>12, <2>13 DEF t, n
<1> QED BY <1>1, <1>2

\* The same, said of what precedes what: what is removed once from a sequence without
\* repetition is not in it any more.
LEMMA RemoveFacts ==
  ASSUME NEW S, NEW s \in Seq(S), NEW e
  PROVE  /\ RemoveFirst(s, e) \in Seq(S)
         /\ \A x, y : Precedes(RemoveFirst(s, e), x, y) => Precedes(s, x, y)
         /\ \A x : Contains(RemoveFirst(s, e), x) => Contains(s, x)
         /\ \A x : x # e /\ Contains(s, x) => Contains(RemoveFirst(s, e), x)
         /\ ~Precedes(s, e, e) => ~Contains(RemoveFirst(s, e), e)
<1> DEFINE t == RemoveFirst(s, e)
<1>1. /\ t \in Seq(S)
      /\ \A i, j \in 1..Len(t) : i < j => \E p, q \in 1..Len(s) : p < q /\ s[p] = t[i] /\ s[q] = t[j]
      /\ \A i \in 1..Len(t) : \E p \in 1..Len(s) : s[p] = t[i]
      /\ \A p \in 1..Len(s) : s[p] # e => \E i \in 1..Len(t) : t[i] = s[p]
      /\ ~Precedes(s, e, e) => \A i \in 1..Len(t) : t[i] # e
  BY RemoveFirstKeeps DEF Precedes
<1> HIDE DEF t
<1>2. ASSUME NEW x, NEW y, Precedes(t, x, y) PROVE Precedes(s, x, y)
  <2>1. PICK i \in 1..Len(t), j \in 1..Len(t) : i < j /\ t[i] = x /\ t[j] = y
    BY <1>2 DEF Precedes
  <2>2. PICK p \in 1..Len(s), q \in 1..Len(s) : p < q /\ s[p] = t[i] /\ s[q] = t[j]
    BY <1>1, <2>1
  <2> QED BY <2>1, <2>2 DEF Precedes
<1>3. \A x : Contains(t, x) => Contains(s, x)
  BY <1>1 DEF Contains
<1>4. \A x : x # e /\ Contains(s, x) => Contains(t, x)
  BY <1>1 DEF Contains
<1>5. ~Precedes(s, e, e) => ~Contains(t, e)
  BY <1>1 DEF Contains
<1> QED BY <1>1, <1>2, <1>3, <1>4, <1>5 DEF t

LEMMA ConcatFacts ==
  ASSUME NEW S, NEW s \in Seq(S), NEW t \in Seq(S)
  PROVE  /\ s \o t \in Seq(S)
         /\ \A x : Contains(s \o t, x) <=> Contains(s, x) \/ Contains(t, x)
         /\ \A x, y : Precedes(s \o t, x, y) <=>
                        Precedes(s, x, y) \/ Precedes(t, x, y) \/ (Contains(s, x) /\ Contains(t, y))
<1> DEFINE u == s \o t
           n == Len(s)
           k == Len(t)
<1>1. /\ u \in Seq(S) /\ Len(u) = n + k /\ n \in Nat /\ k \in Nat
      /\ \A i \in 1..(n + k) : u[i] = IF i <= n THEN s[i] ELSE t[i - n]
  BY ConcatProperties
<1> HIDE DEF u, n, k
<1>2. \A i \in 1..n : i \in 1..(n + k) /\ u[i] = s[i]
  BY <1>1
<1>3. \A i \in 1..k : n + i \in 1..(n + k) /\ u[n + i] = t[i]
  <2> TAKE i \in 1..k
  <2>1. n + i \in 1..(n + k) /\ ~(n + i <= n) /\ (n + i) - n = i
    BY <1>1
  <2> QED BY <1>1, <2>1
<1>4. \A i \in 1..(n + k) : i \in 1..n \/ \E l \in 1..k : i = n + l
  <2> TAKE i \in 1..(n + k)
  <2>1. CASE i <= n
    BY <1>1, <2>1
  <2>2. CASE ~(i <= n)
    <3>1. i - n \in 1..k /\ i = n + (i - n)
      BY <1>1, <2>2
    <3> QED BY <3>1
  <2> QED BY <2>1, <2>2
<1>5. ASSUME NEW x PROVE Contains(u, x) <=> Contains(s, x) \/ Contains(t, x)
  <2>1. Contains(u, x) <=> \E i \in 1..(n + k) : u[i] = x
    BY <1>1 DEF Contains
  <2>2. Contains(s, x) <=> \E i \in 1..n : s[i] = x
    BY DEF Contains, n
  <2>3. Contains(t, x) <=> \E i \in 1..k : t[i] = x
    BY DEF Contains, k
  <2> QED BY <1>2, <1>3, <1>4, <2>1, <2>2, <2>3
<1>6. ASSUME NEW x, NEW y
      PROVE  Precedes(u, x, y) <=>
               Precedes(s, x, y) \/ Precedes(t, x, y) \/ (Contains(s, x) /\ Contains(t, y))
  <2>1. Precedes(u, x, y) <=> \E p, q \in 1..(n + k) : p < q /\ u[p] = x /\ u[q] = y
    BY <1>1 DEF Precedes
  <2>2. Precedes(s, x, y) <=> \E p, q \in 1..n : p < q /\ s[p] = x /\ s[q] = y
    BY DEF Precedes, n
  <2>3. Precedes(t, x, y) <=> \E p, q \in 1..k : p < q /\ t[p] = x /\ t[q] = y
    BY DEF Precedes, k
  <2>4. (Contains(s, x) /\ Contains(t, y)) <=> \E p \in 1..n, q \in 1..k : s[p] = x /\ t[q] = y
    BY DEF Contains, n, k
  <2>5. ASSUME Precedes(u, x, y)
        PROVE  Precedes(s, x, y) \/ Precedes(t, x, y) \/ (Contains(s, x) /\ Contains(t, y))
    <3>1. PICK p \in 1..(n + k), q \in 1..(n + k) : p < q /\ u[p] = x /\ u[q] = y
      BY <2>1, <2>5
    <3>2. CASE p \in 1..n /\ q \in 1..n
      BY <1>2, <2>2, <3>1, <3>2
    <3>3. CASE p \in 1..n /\ q \notin 1..n
      BY <1>2, <1>3, <1>4, <2>4, <3>1, <3>3
    <3>4. CASE p \notin 1..n
      <4>1. PICK i \in 1..k : p = n + i
        BY <1>4, <3>4
      <4>2. PICK l \in 1..k : q = n + l
        BY <1>1, <1>4, <3>1, <4>1
      <4>3. i < l
        BY <1>1, <3>1, <4>1, <4>2
      <4> QED BY <1>3, <2>3, <3>1, <4>1, <4>2, <4>3
    <3> QED BY <3>2, <3>3, <3>4
  <2>6. ASSUME Precedes(s, x, y) PROVE Precedes(u, x, y)
    BY <1>2, <2>1, <2>2, <2>6
  <2>7. ASSUME Precedes(t, x, y) PROVE Precedes(u, x, y)
    <3>1. PICK p \in 1..k, q \in 1..k : p < q /\ t[p] = x /\ t[q] = y
      BY <2>3, <2>7
    <3>2. n + p < n + q
      BY <1>1, <3>1
    <3> QED BY <1>3, <2>1, <3>1, <3>2
  <2>8. ASSUME Contains(s, x), Contains(t, y) PROVE Precedes(u, x, y)
    <3>1. PICK p \in 1..n, q \in 1..k : s[p] = x /\ t[q] = y
      BY <2>4, <2>8
    <3>2. p < n + q
      BY <1>1
    <3> QED BY <1>2, <1>3, <2>1, <3>1, <3>2
  <2> QED BY <2>5, <2>6, <2>7, <2>8
<1> QED BY <1>1, <1>5, <1>6 DEF u

LEMMA EmptyFacts ==
  /\ \A x : ~Contains(<< >>, x)
  /\ \A x, y : ~Precedes(<< >>, x, y)
  BY DEF Contains, Precedes

LEMMA SingleFacts ==
  ASSUME NEW e
  PROVE  /\ \A x : Contains(<< e >>, x) <=> x = e
         /\ \A x, y : ~Precedes(<< e >>, x, y)
  BY DEF Contains, Precedes

LEMMA AppendFacts ==
  ASSUME NEW S, NEW s \in Seq(S), NEW e \in S
  PROVE  /\ Append(s, e) \in Seq(S)
         /\ \A x : Contains(Append(s, e), x) <=> Contains(s, x) \/ x = e
         /\ \A x, y : Precedes(Append(s, e), x, y) <=> Precedes(s, x, y) \/ (Contains(s, x) /\ y = e)
<1>1. Append(s, e) = s \o << e >> /\ << e >> \in Seq(S)
  OBVIOUS
<1>2. /\ \A x : Contains(s \o << e >>, x) <=> Contains(s, x) \/ Contains(<< e >>, x)
      /\ \A x, y : Precedes(s \o << e >>, x, y) <=>
                     Precedes(s, x, y) \/ Precedes(<< e >>, x, y) \/ (Contains(s, x) /\ Contains(<< e >>, y))
  BY <1>1, ConcatFacts
<1> QED BY <1>1, <1>2, SingleFacts

LEMMA HeadFacts ==
  ASSUME NEW S, NEW s \in Seq(S), s # << >>
  PROVE  /\ Head(s) \in S /\ Contains(s, Head(s))
         /\ \A x : Contains(s, x) => x = Head(s) \/ Precedes(s, Head(s), x)
<1>1. Head(s) = s[1] /\ 1 \in 1..Len(s) /\ Head(s) \in S
  OBVIOUS
<1>2. Contains(s, Head(s))
  BY <1>1 DEF Contains
<1>3. ASSUME NEW x, Contains(s, x), x # Head(s) PROVE Precedes(s, Head(s), x)
  <2>1. PICK q \in 1..Len(s) : s[q] = x
    BY <1>3 DEF Contains
  <2>2. 1 < q
    BY <1>1, <1>3, <2>1
  <2> QED BY <1>1, <2>1, <2>2 DEF Precedes
<1> QED BY <1>1, <1>2, <1>3

\* An enumeration of a finite set holds each element once.
LEMMA EnumerationFacts ==
  ASSUME NEW S, NEW T \in SUBSET S, IsFiniteSet(T), NEW t \in SetToSeqs(T)
  PROVE  /\ t \in Seq(S)
         /\ \A x : Contains(t, x) <=> x \in T
         /\ \A x : ~Precedes(t, x, x)
<1> DEFINE n == Cardinality(T)
<1>1. n \in Nat
  BY FS_CardinalityType
<1>2. t \in [1..n -> T] /\ \A i, j \in 1..n : i # j => t[i] # t[j]
  BY DEF SetToSeqs
<1> HIDE DEF n
<1>3. t \in Seq(S) /\ Len(t) = n
  BY <1>1, <1>2
<1>4. t \in Injection(1..n, T)
  BY <1>2 DEF Injection, IsInjective
<1>5. IsFiniteSet(1..n) /\ Cardinality(1..n) = n
  BY <1>1, FS_Interval
<1>6. t \in Surjection(1..n, T)
  BY <1>4, <1>5, FS_Injection DEF n
<1>7. \A x \in T : \E i \in 1..n : t[i] = x
  BY <1>6 DEF Surjection
<1>8. \A x : Contains(t, x) <=> x \in T
  BY <1>2, <1>3, <1>7 DEF Contains
<1>9. \A x : ~Precedes(t, x, x)
  BY <1>1, <1>2, <1>3 DEF Precedes
<1> QED BY <1>3, <1>8, <1>9

-----------------------------------------------------------------------------
(* The invariants.                                                         *)

Live(r) == r.state \in { "queued", "submitting" }

\* The pending ids are those of the pending records, each once.
Listed(j) ==
    /\ \A x \in Msgs : ~Precedes(j.order, x, x)
    /\ \A x \in Msgs : Pending(j.rec[x]) <=> Contains(j.order, x)

\* p is where the running command waits, m the message it delivers.
AttemptInv(j, p, m) ==
    /\ \A x \in Msgs : j.rec[x].state = "submitting" => p \in { "sending", "answer" } /\ m = x
    /\ p \in { "sending", "answer" } => j.rec[m].state \in { "submitting", "failed", "cancelled" }
    /\ p = "sending" => j.rec[m].state = "submitting" \/ j.rec[m].why = "uncertain"
    /\ p = "replying" => j.rec[m].state \in { "queued", "cancelled" }

\* a is the order of admission, d the order of delivery.
AdmissionInv(j, p, m, a, d) ==
    /\ \A x \in Msgs : ~Precedes(a, x, x)
    /\ \A x \in Msgs : Contains(a, x) => j.rec[x].state # "none"
    /\ \A x \in Msgs : Live(j.rec[x]) => Contains(a, x)
    /\ p # "idle" => Contains(a, m)
    /\ \A x \in Msgs : Contains(d, x) => Contains(a, x)

OrderInv(j, p, m, a, d) ==
    /\ \A x, y \in Msgs : Live(j.rec[x]) /\ Live(j.rec[y]) /\ Precedes(j.order, x, y) => Precedes(a, x, y)
    /\ p \in { "loading", "sending" } =>
         \A y \in Msgs : j.rec[y].state = "queued" /\ y # m => Precedes(a, m, y)
    /\ \A x, y \in Msgs : Contains(d, x) /\ j.rec[y].state = "queued" => Precedes(a, x, y)
    /\ p = "sending" => \A x \in Msgs : Contains(d, x) => Precedes(a, x, m)
    /\ \A x, y \in Msgs : Precedes(d, x, y) => Precedes(a, x, y)

\* g are the steers that the provider gave back.
HonestInv(j, d, g) ==
    \A x \in Msgs :
      j.rec[x].state \in { "queued", "failed", "cancelled" } /\ j.rec[x].why \in { "waiting", "unsent" }
        => ~Contains(d, x) \/ x \in g

Sound(j, p, m, a, d, g) ==
    Listed(j) /\ AttemptInv(j, p, m) /\ AdmissionInv(j, p, m, a, d) /\ OrderInv(j, p, m, a, d) /\ HonestInv(j, d, g)

JournalInv == Sound(Journal, pc, attempt.msg, admitted, delivered, dropped)

Journals == [rec : [Msgs -> Record], order : Seq(Msgs)]

JournalOK == Journal \in Journals /\ rev \in Nat

\* The command that waits for its provider is one that delivers.
QueueOK ==
    /\ lock \in Seq(Command) /\ pc \in { "idle", "loading", "sending", "answer", "replying" }
    /\ attempt \in Command /\ timer \in { "off", "armed", "running" }
    /\ pc # "idle" => lock # << >> /\ Running.cmd \in { "queue", "drain" } /\ attempt.msg \in Msgs
    /\ \A i \in 1..Len(lock) : lock[i].cmd = "queue" => lock[i].msg \in Msgs

RestOK ==
    /\ posting \subseteq [msg : Msgs, rev : Nat] /\ posts \in [Msgs -> Nat]
    /\ row \in { "bound", "error", "ended" } /\ asleep \in { "no", "idle", "held" }
    /\ alive \in BOOLEAN /\ steering \in Steering
    /\ turn \in { "idle", "running" } /\ behind \subseteq Msgs
    /\ delivered \in Seq(Msgs) /\ dropped \subseteq Msgs /\ admitted \in Seq(Msgs)
    /\ bar \subseteq Msgs

Typed == JournalOK /\ QueueOK /\ RestOK

DrivenInv ==
    /\ pc = "idle" /\ Ready(Journal) => timer # "off"
    /\ timer = "running" => \E i \in 1..Len(lock) : lock[i].cmd = "drain"

StopInv ==
    /\ \A x \in bar : ~Live(rec[x])
    /\ \A q \in posting : q.rev <= rev /\ (q.msg \in bar => q.rev # rev)
    /\ \A i \in 1..Len(lock) : lock[i].cmd = "queue" =>
         lock[i].rev <= rev /\ (lock[i].msg \in bar => lock[i].rev # rev)
    /\ pc \in { "loading", "sending" } /\ attempt.msg \in bar => \E i \in 1..Len(lock) : lock[i].cmd = "stop"

-----------------------------------------------------------------------------
(* Types.                                                                  *)

LEMMA EntryType ==
  /\ \A state \in States, why \in Reasons : Entry(state, why) \in Record
  /\ \A r \in Record, state \in States : [r EXCEPT !.state = state] \in Record
  /\ \A r \in Record, refused \in BOOLEAN : [r EXCEPT !.refused = refused] \in Record
  BY DEF Entry, Record

LEMMA PutType ==
  ASSUME NEW j \in Journals, NEW m \in Msgs, NEW r \in Record
  PROVE  Put(j, m, r) \in Journals
<1>1. RemoveFirst(j.order, m) \in Seq(Msgs)
  BY RemoveFacts DEF Journals
<1>2. Append(j.order, m) \in Seq(Msgs)
  BY DEF Journals
<1>3. [j.rec EXCEPT ![m] = r] \in [Msgs -> Record]
  BY DEF Journals
<1> QED BY <1>1, <1>2, <1>3 DEF Put, Journals

LEMMA DeferredType ==
  ASSUME NEW j \in Journals, NEW m \in Msgs
  PROVE  Deferred(j, m) \in Journals
<1>1. j.rec[m] \in Record
  BY DEF Journals
<1>2. [j.rec[m] EXCEPT !.refused = FALSE] \in Record
  BY <1>1, EntryType
<1> QED BY <1>2, PutType DEF Deferred

LEMMA SaveType ==
  ASSUME NEW j \in Journals, Save(j)
  PROVE  Journal' = j /\ rec' \in [Msgs -> Record] /\ order' \in Seq(Msgs)
  BY DEF Save, Journal, Journals

\* What a command leaves at its end.
LEMMA EndsFacts ==
  ASSUME QueueOK, NEW j, lock # << >>, Ends(j)
  PROVE  /\ lock' \in Seq(Command) /\ pc' = "idle" /\ attempt' \in Command
         /\ timer' \in { "off", "armed", "running" } /\ QueueOK'
         /\ \A i \in 1..Len(lock') : lock'[i] = lock[i + 1] /\ i + 1 \in 1..Len(lock)
         /\ \A i \in 1..Len(lock) : i = 1 \/ (i - 1 \in 1..Len(lock') /\ lock'[i - 1] = lock[i])
<1>1. lock \in Seq(Command) /\ lock' = Tail(lock) /\ pc' = "idle" /\ timer \in { "off", "armed", "running" }
  BY DEF Ends, QueueOK
<1>2. /\ lock' \in Seq(Command) /\ Len(lock') = Len(lock) - 1 /\ Len(lock) \in Nat
      /\ \A i \in 1..Len(lock') : lock'[i] = lock[i + 1]
  BY <1>1, HeadTailProperties
<1>3. attempt' \in Command
  BY DEF Ends, Cmd, Command
<1>4. timer' \in { "off", "armed", "running" }
  BY <1>1 DEF Ends, Scheduled
<1>5. \A i \in 1..Len(lock') : i + 1 \in 1..Len(lock)
  BY <1>2
<1>6. \A i \in 1..Len(lock) : i = 1 \/ (i - 1 \in 1..Len(lock') /\ lock'[i - 1] = lock[i])
  <2> TAKE i \in 1..Len(lock)
  <2>1. CASE i # 1
    <3>1. i - 1 \in 1..Len(lock') /\ (i - 1) + 1 = i
      BY <1>2, <2>1
    <3> QED BY <1>2, <3>1
  <2> QED BY <2>1
<1>7. QueueOK'
  BY <1>1, <1>2, <1>3, <1>4, <1>5 DEF QueueOK
<1> QED BY <1>1, <1>2, <1>3, <1>4, <1>5, <1>6, <1>7

LEMMA CmdType ==
  \A cmd \in { "queue", "drain", "send", "stop", "release" }, m \in Msgs \cup {NoMsg}, at \in Nat :
    /\ Cmd(cmd, m, at) \in Command
    /\ Cmd(cmd, m, at).cmd = cmd /\ Cmd(cmd, m, at).msg = m /\ Cmd(cmd, m, at).rev = at
  BY DEF Cmd, Command

\* A command joins the line.
LEMMA JoinsFacts ==
  ASSUME QueueOK, NEW c \in Command, c.cmd = "queue" => c.msg \in Msgs,
         lock' = Append(lock, c), pc' = pc, attempt' = attempt, timer' \in { "off", "armed", "running" }
  PROVE  /\ QueueOK'
         /\ Len(lock') = Len(lock) + 1 /\ Len(lock) \in Nat /\ lock'[Len(lock')] = c
         /\ \A i \in 1..Len(lock) : lock'[i] = lock[i]
         /\ \A i \in 1..Len(lock') : i \in 1..Len(lock) \/ (i = Len(lock') /\ lock'[i] = c)
<1>1. lock \in Seq(Command) /\ lock' \in Seq(Command)
  BY DEF QueueOK
<1>2. /\ Len(lock') = Len(lock) + 1 /\ Len(lock) \in Nat /\ lock'[Len(lock')] = c
      /\ \A i \in 1..Len(lock) : lock'[i] = lock[i]
  BY <1>1
<1>3. \A i \in 1..Len(lock') : i \in 1..Len(lock) \/ (i = Len(lock') /\ lock'[i] = c)
  BY <1>2
<1>4. pc # "idle" => lock' # << >> /\ Head(lock') = Head(lock)
  BY <1>1, <1>2 DEF QueueOK
<1>5. QueueOK'
  BY <1>1, <1>2, <1>3, <1>4 DEF QueueOK, Running
<1> QED BY <1>2, <1>3, <1>5

\* What drainQueuedInputInternal() comes to before its first await.
LEMMA DrainCases ==
  ASSUME NEW j \in Journals, rev \in Nat, DrainBegins(j)
  PROVE  \/ Journal' = j /\ Ends(j)
         \/ /\ Ready(j) /\ Head(j.order) \in Msgs
            /\ \/ Journal' = Deferred(j, Head(j.order)) /\ Ends(Deferred(j, Head(j.order)))
               \/ /\ attempt' \in Command /\ attempt'.msg = Head(j.order) /\ attempt'.rev = rev
                  /\ UNCHANGED << lock, timer >>
                  /\ \/ Journal' = j /\ pc' = "loading"
                     \/ /\ Journal' = Put(j, Head(j.order), [j.rec[Head(j.order)] EXCEPT !.state = "submitting"])
                        /\ pc' = "sending"
<1> DEFINE m == Head(j.order)
           k == Put(j, m, [j.rec[m] EXCEPT !.state = "submitting"])
<1>1. CASE ~Ready(j)
  BY <1>1, SaveType DEF DrainBegins
<1>2. CASE Ready(j)
  <2>1. m \in Msgs
    BY <1>2 DEF Ready, Journals
  <2>2. Deferred(j, m) \in Journals
    BY <2>1, DeferredType
  <2>3. k \in Journals
    <3>1. j.rec[m] \in Record
      BY <2>1 DEF Journals
    <3>2. [j.rec[m] EXCEPT !.state = "submitting"] \in Record
      BY <3>1, EntryType DEF States
    <3> QED BY <2>1, <3>2, PutType
  <2>4. CASE row # "bound" \/ asleep = "held"
    <3>1. Save(Deferred(j, m)) /\ Ends(Deferred(j, m))
      BY <1>2, <2>4 DEF DrainBegins
    <3> QED BY <1>2, <2>1, <2>2, <3>1, SaveType
  <2>5. CASE ~(row # "bound" \/ asleep = "held")
    <3>1. attempt' = Cmd("drain", m, rev) /\ UNCHANGED << lock, timer >>
      BY <1>2, <2>5 DEF DrainBegins
    <3>2. attempt' \in Command /\ attempt'.msg = m /\ attempt'.rev = rev
      BY <2>1, <3>1, CmdType
    <3>3. (Save(j) /\ pc' = "loading") \/ (Save(k) /\ pc' = "sending")
      BY <1>2, <2>5 DEF DrainBegins, Submits
    <3> QED BY <1>2, <2>1, <2>3, <3>1, <3>2, <3>3, SaveType
  <2> QED BY <2>4, <2>5
<1> QED BY <1>1, <1>2

LEMMA SubmittingType ==
  ASSUME NEW j \in Journals, NEW m \in Msgs
  PROVE  Put(j, m, [j.rec[m] EXCEPT !.state = "submitting"]) \in Journals
<1>1. j.rec[m] \in Record
  BY DEF Journals
<1>2. [j.rec[m] EXCEPT !.state = "submitting"] \in Record
  BY <1>1, EntryType DEF States
<1> QED BY <1>2, PutType

LEMMA DrainType ==
  ASSUME QueueOK, NEW j \in Journals, rev \in Nat, lock # << >>, Running.cmd \in { "queue", "drain" }, DrainBegins(j)
  PROVE  Journal' \in Journals /\ QueueOK'
<1>1. CASE Journal' = j /\ Ends(j)
  BY <1>1, EndsFacts
<1>2. CASE Ready(j) /\ Head(j.order) \in Msgs /\ Journal' = Deferred(j, Head(j.order)) /\ Ends(Deferred(j, Head(j.order)))
  BY <1>2, EndsFacts, DeferredType
<1>3. CASE /\ Ready(j) /\ Head(j.order) \in Msgs
           /\ attempt' \in Command /\ attempt'.msg = Head(j.order) /\ attempt'.rev = rev
           /\ UNCHANGED << lock, timer >>
           /\ \/ Journal' = j /\ pc' = "loading"
              \/ /\ Journal' = Put(j, Head(j.order), [j.rec[Head(j.order)] EXCEPT !.state = "submitting"])
                 /\ pc' = "sending"
  <2>1. Journal' \in Journals
    BY <1>3, SubmittingType
  <2>2. QueueOK'
    BY <1>3 DEF QueueOK, Running
  <2> QED BY <2>1, <2>2
<1> QED BY <1>1, <1>2, <1>3, DrainCases

\* A command that is refused, or that has nothing to do, leaves the line.
LEMMA LeavesFacts ==
  ASSUME QueueOK, pc = "idle", lock # << >>, lock' = Tail(lock), UNCHANGED << pc, attempt, timer >>
  PROVE  /\ QueueOK'
         /\ \A i \in 1..Len(lock') : lock'[i] = lock[i + 1] /\ i + 1 \in 1..Len(lock)
         /\ \A i \in 1..Len(lock) : i = 1 \/ (i - 1 \in 1..Len(lock') /\ lock'[i - 1] = lock[i])
<1>1. /\ lock' \in Seq(Command) /\ Len(lock') = Len(lock) - 1 /\ Len(lock) \in Nat
      /\ \A i \in 1..Len(lock') : lock'[i] = lock[i + 1]
  BY HeadTailProperties DEF QueueOK
<1>2. \A i \in 1..Len(lock') : i + 1 \in 1..Len(lock)
  BY <1>1
<1>3. \A i \in 1..Len(lock) : i = 1 \/ (i - 1 \in 1..Len(lock') /\ lock'[i - 1] = lock[i])
  <2> TAKE i \in 1..Len(lock)
  <2>1. CASE i # 1
    <3>1. i - 1 \in 1..Len(lock') /\ (i - 1) + 1 = i
      BY <1>1, <2>1
    <3> QED BY <1>1, <3>1
  <2> QED BY <2>1
<1> QED BY <1>1, <1>2, <1>3 DEF QueueOK

LEMMA FailsCases ==
  ASSUME Journal \in Journals, attempt.msg \in Msgs, NEW r \in Record, Fails(r)
  PROVE  \E j \in Journals : /\ Journal' = j /\ Ends(j)
                             /\ j = IF Mine.state = "submitting" THEN Put(Journal, attempt.msg, r) ELSE Journal
<1> DEFINE j == IF Mine.state = "submitting" THEN Put(Journal, attempt.msg, r) ELSE Journal
<1>1. Save(j) /\ Ends(j)
  BY DEF Fails
<1>2. j \in Journals
  BY PutType
<1> HIDE DEF j
<1>3. Journal' = j
  BY <1>1, <1>2, SaveType
<1> QED BY <1>1, <1>2, <1>3 DEF j

LEMMA CancelAllType ==
  ASSUME Journal \in Journals, QueueOK, NEW b \in BOOLEAN
  PROVE  CancelAll(b) \in Journals
<1>1. \A m \in Msgs : rec[m] \in Record
  BY DEF Journals, Journal
<1>2. UnderWay \in Seq(Msgs)
  BY DEF UnderWay, QueueOK
<1>3. << >> \in Seq(Msgs)
  OBVIOUS
<1>4. [m \in Msgs |-> CancelAll(b).rec[m]] \in [Msgs -> Record] /\ CancelAll(b).rec = [m \in Msgs |-> CancelAll(b).rec[m]]
  <2>1. \A m \in Msgs : CancelAll(b).rec[m] \in Record
    BY <1>1 DEF CancelAll, Record, States, Reasons
  <2> QED BY <2>1 DEF CancelAll
<1>5. CancelAll(b).order \in Seq(Msgs)
  BY <1>2, <1>3 DEF CancelAll
<1> QED BY <1>4, <1>5 DEF CancelAll, Journals

LEMMA MarkCancelledType ==
  ASSUME Journal \in Journals, NEW steers \in SUBSET Msgs,
         NEW listed \in SetToSeqs({ m \in steers : rec[m].state # "cancelled" /\ ~Pending(rec[m]) })
  PROVE  MarkCancelled(steers, listed) \in Journals
<1>1. \A m \in Msgs : rec[m] \in Record
  BY DEF Journals, Journal
<1>2. Entry("failed", "unsent") \in Record
  BY EntryType DEF States, Reasons
<1>3. [m \in Msgs |-> IF m \in steers /\ rec[m].state # "cancelled" THEN Entry("failed", "unsent") ELSE rec[m]] \in [Msgs -> Record]
  BY <1>1, <1>2
<1>4. listed \in Seq(Msgs)
  <2> DEFINE T == { m \in steers : rec[m].state # "cancelled" /\ ~Pending(rec[m]) }
  <2>1. T \in SUBSET Msgs /\ IsFiniteSet(T)
    BY MsgAssumption, FS_Subset
  <2> HIDE DEF T
  <2> QED BY <2>1, EnumerationFacts DEF T
<1>5. order \o listed \in Seq(Msgs)
  BY <1>4, ConcatProperties DEF Journals, Journal
<1> QED BY <1>3, <1>5 DEF MarkCancelled, Journals

-----------------------------------------------------------------------------
(* Types are kept.                                                         *)

LEMMA TypeInit == Init => Typed
<1> SUFFICES ASSUME Init PROVE Typed
  OBVIOUS
<1>1. Entry("none", "waiting") \in Record
  BY EntryType DEF States, Reasons
<1>2. JournalOK
  BY <1>1 DEF Init, JournalOK, Journal, Journals
<1>3. QueueOK
  BY DEF Init, QueueOK, Cmd, Command
<1>4. RestOK
  BY DEF Init, RestOK
<1> QED BY <1>2, <1>3, <1>4 DEF Typed

\* Entries that a command writes.
LEMMA WrittenType ==
  /\ Entry("queued", "waiting") \in Record /\ Entry("cancelled", "unsent") \in Record
  /\ Entry("submitted", "sent") \in Record /\ Entry("failed", "uncertain") \in Record
  /\ Entry("failed", "unsent") \in Record
  /\ [Entry("queued", "waiting") EXCEPT !.refused = TRUE] \in Record
  /\ [Entry("failed", "unsent") EXCEPT !.refused = TRUE] \in Record
  BY EntryType DEF States, Reasons

\* The end of a command that leaves journal j.
LEMMA EndsType ==
  ASSUME Typed, NEW j \in Journals, Journal' = j, Ends(j), lock # << >>, UNCHANGED rev
  PROVE  JournalOK' /\ QueueOK'
  BY EndsFacts DEF Typed, JournalOK

LEMMA FailsType ==
  ASSUME Typed, pc # "idle", NEW r \in Record, Fails(r), UNCHANGED rev
  PROVE  JournalOK' /\ QueueOK'
<1>1. lock # << >> /\ attempt.msg \in Msgs /\ Journal \in Journals
  BY DEF Typed, QueueOK, JournalOK
<1>2. PICK j \in Journals : Journal' = j /\ Ends(j)
  BY <1>1, FailsCases
<1> QED BY <1>1, <1>2, EndsType

LEMMA DrainInputType == Typed /\ DrainInput => Typed'
<1> SUFFICES ASSUME Typed, DrainInput PROVE Typed'
  OBVIOUS
<1>1. RestOK'
  BY DEF DrainInput, Typed, RestOK, session, provider, requests
<1>2. Journal' \in Journals /\ QueueOK'
  BY DrainType DEF DrainInput, Begins, Typed, JournalOK
<1> QED BY <1>1, <1>2 DEF DrainInput, Typed, JournalOK

\* The journal in which queueInputInternal() looks for the head.
Taken(m, interrupted) ==
    IF rec[m].state # "none" THEN Journal
    ELSE Put(Journal, m, IF interrupted THEN Entry("cancelled", "unsent") ELSE Entry("queued", "waiting"))

LEMMA QueueInputCases ==
  ASSUME Typed, QueueInput
  PROVE  /\ pc = "idle" /\ lock # << >> /\ Running.cmd = "queue" /\ Running.msg \in Msgs
         /\ Taken(Running.msg, TRUE) \in Journals /\ Taken(Running.msg, FALSE) \in Journals
         /\ UNCHANGED << rev, session, provider, requests, bar >>
         /\ \/ /\ Journal' \in { Journal, Taken(Running.msg, TRUE) }
               /\ lock' = Tail(lock) /\ UNCHANGED << pc, attempt, timer, admitted >>
            \/ /\ Running.rev = rev /\ DrainBegins(Taken(Running.msg, FALSE))
               /\ admitted' = IF rec[Running.msg].state # "none" THEN admitted ELSE Append(admitted, Running.msg)
<1> DEFINE m == Running.msg
           known == rec[m].state # "none"
<1>1. pc = "idle" /\ lock # << >> /\ Running.cmd = "queue"
  BY DEF QueueInput, Begins
<1>2. m \in Msgs
  <2>1. 1 \in 1..Len(lock) /\ Running = lock[1]
    BY <1>1 DEF Typed, QueueOK, Running
  <2> QED BY <1>1, <2>1 DEF Typed, QueueOK
<1>3. \A b \in BOOLEAN : Taken(m, b) \in Journals
  BY <1>2, PutType, WrittenType DEF Taken, Typed, JournalOK
<1>4. UNCHANGED << rev, session, provider, requests, bar >>
  BY DEF QueueInput
<1>5. CASE ~known /\ row # "bound"
  <2>1. lock' = Tail(lock) /\ UNCHANGED << rec, order, pc, attempt, timer, admitted >>
    BY <1>5 DEF QueueInput
  <2> QED BY <1>1, <1>2, <1>3, <1>4, <2>1 DEF Journal
<1>6. CASE ~(~known /\ row # "bound") /\ Running.rev # rev
  <2>1. Save(Taken(m, TRUE)) /\ lock' = Tail(lock) /\ UNCHANGED << pc, attempt, timer, admitted >>
    BY <1>6 DEF QueueInput, Taken
  <2> QED BY <1>1, <1>2, <1>3, <1>4, <2>1, SaveType
<1>7. CASE ~(~known /\ row # "bound") /\ Running.rev = rev
  <2>1. DrainBegins(Taken(m, FALSE)) /\ admitted' = IF known THEN admitted ELSE Append(admitted, m)
    BY <1>7 DEF QueueInput, Taken
  <2> QED BY <1>1, <1>2, <1>3, <1>4, <1>7, <2>1
<1> QED BY <1>5, <1>6, <1>7

LEMMA QueueInputType == Typed /\ QueueInput => Typed'
<1> SUFFICES ASSUME Typed, QueueInput PROVE Typed'
  OBVIOUS
<1>1. /\ pc = "idle" /\ lock # << >> /\ Running.cmd = "queue" /\ Running.msg \in Msgs
      /\ Taken(Running.msg, TRUE) \in Journals /\ Taken(Running.msg, FALSE) \in Journals
      /\ UNCHANGED << rev, session, provider, requests, bar >>
      /\ \/ /\ Journal' \in { Journal, Taken(Running.msg, TRUE) }
            /\ lock' = Tail(lock) /\ UNCHANGED << pc, attempt, timer, admitted >>
         \/ /\ DrainBegins(Taken(Running.msg, FALSE))
            /\ admitted' \in { admitted, Append(admitted, Running.msg) }
  BY QueueInputCases
<1>2. RestOK'
  <2>1. admitted' \in { admitted, Append(admitted, Running.msg) }
    BY <1>1
  <2>2. admitted' \in Seq(Msgs)
    <3>1. admitted \in Seq(Msgs) /\ Running.msg \in Msgs
      BY <1>1 DEF Typed, RestOK
    <3>2. Append(admitted, Running.msg) \in Seq(Msgs)
      BY <3>1, AppendFacts
    <3> QED BY <2>1, <3>1, <3>2
  <2>3. UNCHANGED << session, provider, requests, bar >>
    BY <1>1
  <2> QED BY <2>2, <2>3 DEF Typed, RestOK, session, provider, requests
<1>3. JournalOK' /\ QueueOK'
  BY <1>1, LeavesFacts, DrainType DEF Typed, JournalOK
<1> QED BY <1>2, <1>3 DEF Typed

LEMMA ResumesCases ==
  ASSUME Typed, pc = "loading", NEW loaded \in BOOLEAN, Resumes(loaded)
  PROVE  /\ attempt.msg \in Msgs /\ lock # << >> /\ Journal \in Journals
         /\ \/ /\ loaded /\ StillOwned
               /\ Journal' = Put(Journal, attempt.msg, [rec[attempt.msg] EXCEPT !.state = "submitting"])
               /\ Journal' \in Journals /\ pc' = "sending" /\ UNCHANGED << lock, attempt, timer >>
            \/ /\ Journal' = Deferred(Journal, attempt.msg)
               /\ Journal' \in Journals /\ Ends(Deferred(Journal, attempt.msg))
<1> DEFINE m == attempt.msg
<1>1. m \in Msgs /\ lock # << >> /\ Journal \in Journals
  BY DEF Typed, QueueOK, JournalOK
<1>2. CASE loaded /\ StillOwned
  <2>1. /\ Save(Put(Journal, m, [Journal.rec[m] EXCEPT !.state = "submitting"]))
        /\ pc' = "sending" /\ UNCHANGED << lock, attempt, timer >>
    BY <1>2 DEF Resumes, Submits
  <2>2. Journal.rec = rec
    BY DEF Journal
  <2> QED BY <1>1, <1>2, <2>1, <2>2, SaveType, SubmittingType
<1>3. CASE ~(loaded /\ StillOwned)
  <2>1. Save(Deferred(Journal, m)) /\ Ends(Deferred(Journal, m))
    BY <1>3 DEF Resumes
  <2> QED BY <1>1, <2>1, SaveType, DeferredType
<1> QED BY <1>2, <1>3

LEMMA LoadEndsType == Typed /\ LoadEnds => Typed'
<1> SUFFICES ASSUME Typed, LoadEnds PROVE Typed'
  OBVIOUS
<1>1. RestOK'
  BY DEF LoadEnds, Typed, RestOK, provider, requests
<1>2. pc = "loading" /\ lock # << >> /\ UNCHANGED rev /\ (Resumes(TRUE) \/ Resumes(FALSE))
  BY DEF LoadEnds, Waits
<1>3. \/ Journal' \in Journals /\ pc' = "sending" /\ UNCHANGED << lock, attempt, timer >>
      \/ Journal' \in Journals /\ Ends(Deferred(Journal, attempt.msg))
  BY <1>2, ResumesCases
<1>4. QueueOK'
  <2>1. CASE pc' = "sending" /\ UNCHANGED << lock, attempt, timer >>
    BY <1>2, <2>1 DEF Typed, QueueOK, Running
  <2>2. CASE Ends(Deferred(Journal, attempt.msg))
    BY <1>2, <2>2, EndsFacts DEF Typed
  <2> QED BY <1>3, <2>1, <2>2
<1> QED BY <1>1, <1>2, <1>3, <1>4 DEF Typed, JournalOK

LEMMA AttemptTypes ==
  ASSUME Typed, Accepts \/ Submitted \/ Unconfirmed \/ NotSent \/ Rejected \/ Busy \/ Replied
  PROVE  Typed'
<1>0. pc # "idle" /\ lock # << >> /\ attempt.msg \in Msgs /\ Journal \in Journals
  BY DEF Accepts, Submitted, Unconfirmed, NotSent, Rejected, Busy, Replied, Waits, Typed, QueueOK, JournalOK
<1>1. CASE Accepts
  <2>1. RestOK'
    BY <1>0, <1>1 DEF Accepts, Typed, RestOK, session, requests
  <2>2. JournalOK'
    BY <1>1 DEF Accepts, Typed, JournalOK, Journal, journal
  <2>3. QueueOK'
    BY <1>0, <1>1 DEF Accepts, Typed, QueueOK, Running
  <2> QED BY <2>1, <2>2, <2>3 DEF Typed
<1>2. CASE Submitted
  <2>1. RestOK'
    BY <1>2 DEF Submitted, Typed, RestOK, session, provider, requests
  <2>2. LET j == Put(Journal, attempt.msg, Entry("submitted", "sent")) IN Save(j) /\ Ends(j) /\ j \in Journals
    BY <1>0, <1>2, PutType, WrittenType DEF Submitted
  <2>3. JournalOK' /\ QueueOK'
    BY <1>0, <1>2, <2>2, SaveType, EndsType DEF Submitted
  <2> QED BY <2>1, <2>3 DEF Typed
<1>3. CASE Unconfirmed \/ NotSent \/ Rejected
  <2>1. RestOK'
    BY <1>3 DEF Unconfirmed, NotSent, Rejected, Typed, RestOK, session, provider, requests
  <2>2. UNCHANGED rev /\ \E r \in Record : Fails(r)
    BY <1>3, WrittenType DEF Unconfirmed, NotSent, Rejected
  <2> QED BY <1>0, <2>1, <2>2, FailsType DEF Typed
<1>4. CASE Busy
  <2>1. RestOK'
    BY <1>4 DEF Busy, Typed, RestOK, session, provider, requests
  <2>2. UNCHANGED rev
    BY <1>4 DEF Busy
  <2>3. CASE Fails(Entry("queued", "waiting"))
    BY <1>0, <2>1, <2>2, <2>3, WrittenType, FailsType DEF Typed
  <2>4. CASE /\ Save(Put(Journal, attempt.msg, Entry("queued", "waiting")))
             /\ pc' = "replying" /\ UNCHANGED << lock, attempt, timer >>
    <3>1. JournalOK'
      BY <1>0, <2>2, <2>4, PutType, WrittenType, SaveType DEF Typed, JournalOK
    <3>2. QueueOK'
      BY <1>0, <2>4 DEF Typed, QueueOK, Running
    <3> QED BY <2>1, <3>1, <3>2 DEF Typed
  <2> QED BY <1>4, <2>3, <2>4 DEF Busy
<1>5. CASE Replied
  <2>1. RestOK'
    BY <1>5 DEF Replied, Typed, RestOK, session, requests
  <2>2. \E j \in { Journal, Put(Journal, attempt.msg, Entry("queued", "waiting")) } : Save(j) /\ Ends(j) /\ UNCHANGED rev
    BY <1>5 DEF Replied
  <2>3. JournalOK' /\ QueueOK'
    BY <1>0, <2>2, PutType, WrittenType, SaveType, EndsType
  <2> QED BY <2>1, <2>3 DEF Typed
<1> QED BY <1>1, <1>2, <1>3, <1>4, <1>5

\* The commands of a person, when they have the lock.
LEMMA PersonCommandTypes ==
  ASSUME Typed, StopRuns \/ SendDirectRuns \/ ReleaseRuns
  PROVE  Typed'
<1>0. lock # << >> /\ Journal \in Journals
  BY DEF StopRuns, SendDirectRuns, ReleaseRuns, Begins, Typed, JournalOK
<1>1. CASE StopRuns
  <2>1. RestOK'
    BY <1>1 DEF StopRuns, Typed, RestOK, session, requests
  <2>2. UNCHANGED rev /\ \E j \in Journals : Save(j) /\ Ends(j)
    <3>1. CASE \E steers \in SUBSET behind :
                 \E listed \in SetToSeqs({ m \in steers : rec[m].state # "cancelled" /\ ~Pending(rec[m]) }) :
                   Save(MarkCancelled(steers, listed)) /\ Ends(MarkCancelled(steers, listed))
      <4>1. behind \subseteq Msgs
        BY DEF Typed, RestOK
      <4> QED BY <1>0, <1>1, <3>1, <4>1, MarkCancelledType DEF StopRuns
    <3>2. CASE Save(Journal) /\ Ends(Journal)
      BY <1>0, <1>1, <3>2 DEF StopRuns
    <3> QED BY <1>1, <3>1, <3>2 DEF StopRuns
  <2> QED BY <1>0, <2>1, <2>2, SaveType, EndsType DEF Typed
<1>2. CASE SendDirectRuns
  <2>1. RestOK'
    BY <1>2 DEF SendDirectRuns, Typed, RestOK, session, requests
  <2>2. JournalOK' /\ QueueOK'
    BY <1>0, <1>2, SaveType, EndsType DEF SendDirectRuns
  <2> QED BY <2>1, <2>2 DEF Typed
<1>3. CASE ReleaseRuns
  <2>1. RestOK'
    BY <1>3 DEF ReleaseRuns, Typed, RestOK, session, requests
  <2>2. JournalOK' /\ QueueOK'
    BY <1>0, <1>3, SaveType, EndsType DEF ReleaseRuns
  <2> QED BY <2>1, <2>2 DEF Typed
<1> QED BY <1>1, <1>2, <1>3

\* What joins the line without touching the journal.
LEMMA JoinTypes ==
  ASSUME Typed, TimerFires \/ SendDirect \/ \E request \in posting : Admit(request)
  PROVE  Typed'
<1>1. CASE TimerFires
  <2>1. RestOK' /\ JournalOK'
    BY <1>1 DEF TimerFires, Typed, RestOK, JournalOK, Journal, journal, session, provider, requests
  <2>2. QueueOK'
    <3>1. Cmd("drain", NoMsg, 0) \in Command /\ Cmd("drain", NoMsg, 0).cmd = "drain"
      BY CmdType
    <3> QED BY <1>1, <3>1, JoinsFacts DEF TimerFires, Typed
  <2> QED BY <2>1, <2>2 DEF Typed
<1>2. CASE SendDirect
  <2>1. RestOK' /\ JournalOK'
    BY <1>2 DEF SendDirect, Typed, RestOK, JournalOK, Journal, session, provider, requests
  <2>2. QueueOK'
    <3>1. Cmd("send", NoMsg, 0) \in Command /\ Cmd("send", NoMsg, 0).cmd = "send"
      BY CmdType
    <3>2. timer' \in { "off", "armed", "running" }
      BY <1>2 DEF SendDirect, Typed, QueueOK
    <3> QED BY <1>2, <3>1, <3>2, JoinsFacts DEF SendDirect, Typed
  <2> QED BY <2>1, <2>2 DEF Typed
<1>3. ASSUME NEW request \in posting, Admit(request) PROVE Typed'
  <2>1. RestOK' /\ JournalOK'
    BY <1>3 DEF Admit, Typed, RestOK, JournalOK, Journal, journal, session, provider
  <2>2. QueueOK'
    <3>1. request.msg \in Msgs /\ request.rev \in Nat
      BY DEF Typed, RestOK
    <3>2. /\ Cmd("queue", request.msg, request.rev) \in Command
          /\ Cmd("queue", request.msg, request.rev).msg = request.msg
      BY <3>1, CmdType
    <3>3. timer' \in { "off", "armed", "running" }
      BY <1>3 DEF Admit, Typed, QueueOK
    <3> QED BY <1>3, <3>1, <3>2, <3>3, JoinsFacts DEF Admit, Typed
  <2> QED BY <2>1, <2>2 DEF Typed
<1> QED BY <1>1, <1>2, <1>3

\* What cancels everything that waits.
LEMMA CancelTypes ==
  ASSUME Typed, Stop \/ Release \/ Suspend
  PROVE  Typed' /\ \E b \in BOOLEAN : Journal' = CancelAll(b)
<1>1. CancelAll(TRUE) \in Journals /\ CancelAll(FALSE) \in Journals
  BY CancelAllType DEF Typed, JournalOK
<1>2. /\ Cmd("stop", NoMsg, 0) \in Command /\ Cmd("stop", NoMsg, 0).cmd = "stop"
      /\ Cmd("release", NoMsg, 0) \in Command /\ Cmd("release", NoMsg, 0).cmd = "release"
      /\ timer \in { "off", "armed", "running" }
  BY CmdType DEF Typed, QueueOK
<1>3. CASE Stop
  <2>1. RestOK'
    BY <1>3 DEF Stop, Typed, RestOK, session, provider, requests
  <2>2. JournalOK' /\ Journal' = CancelAll(TRUE)
    <3>1. Journal' = CancelAll(TRUE)
      BY <1>1, <1>3, SaveType DEF Stop
    <3>2. rev' \in Nat
      BY <1>3 DEF Stop, Typed, JournalOK
    <3> QED BY <1>1, <3>1, <3>2 DEF JournalOK
  <2>3. QueueOK'
    BY <1>2, <1>3, JoinsFacts DEF Stop, Typed
  <2> QED BY <2>1, <2>2, <2>3 DEF Typed
<1>4. CASE Release
  <2>1. RestOK'
    BY <1>4 DEF Release, Typed, RestOK, session, provider, requests
  <2>2. JournalOK' /\ Journal' = CancelAll(FALSE)
    BY <1>1, <1>4, SaveType DEF Release, Typed, JournalOK
  <2>3. QueueOK'
    BY <1>2, <1>4, JoinsFacts DEF Release, Typed
  <2> QED BY <2>1, <2>2, <2>3 DEF Typed
<1>5. CASE Suspend
  <2>1. RestOK'
    BY <1>5 DEF Suspend, Typed, RestOK, requests
  <2>2. JournalOK' /\ Journal' = CancelAll(FALSE)
    BY <1>1, <1>5, SaveType DEF Suspend, Typed, JournalOK
  <2>3. QueueOK'
    BY <1>5 DEF Suspend, Typed, QueueOK, queueVars, Running
  <2> QED BY <2>1, <2>2, <2>3 DEF Typed
<1> QED BY <1>3, <1>4, <1>5

LEMMA CancelType ==
  ASSUME Typed, NEW m \in Msgs, Cancel(m)
  PROVE  /\ Typed'
         /\ [rec[m] EXCEPT !.state = "cancelled"] \in Record
         /\ Journal' = Put(Journal, m, [rec[m] EXCEPT !.state = "cancelled"])
<1>1. [rec[m] EXCEPT !.state = "cancelled"] \in Record
  BY EntryType DEF States, Typed, JournalOK, Journal, Journals
<1>2. Put(Journal, m, [rec[m] EXCEPT !.state = "cancelled"]) \in Journals
  BY <1>1, PutType DEF Typed, JournalOK
<1>3. JournalOK' /\ Journal' = Put(Journal, m, [rec[m] EXCEPT !.state = "cancelled"])
  BY <1>2, SaveType DEF Cancel, Typed, JournalOK
<1>4. QueueOK'
  BY DEF Cancel, Typed, QueueOK, Scheduled, Running
<1>5. RestOK'
  BY DEF Cancel, Typed, RestOK, session, provider, requests
<1> QED BY <1>1, <1>3, <1>4, <1>5 DEF Typed

\* What a restart finds of a record.
Recovered ==
    [rec |-> [m \in Msgs |-> IF rec[m].state = "submitting" THEN Entry("failed", "uncertain") ELSE rec[m]],
     order |-> order]

LEMMA RestartType == Typed /\ Restart => Typed' /\ Journal' = Recovered
<1> SUFFICES ASSUME Typed, Restart PROVE Typed' /\ Journal' = Recovered
  OBVIOUS
<1>1. Recovered \in Journals
  <2>1. \A m \in Msgs : rec[m] \in Record
    BY DEF Typed, JournalOK, Journal, Journals
  <2>2. order \in Seq(Msgs)
    BY DEF Typed, JournalOK, Journal, Journals
  <2> QED BY <2>1, <2>2, WrittenType DEF Recovered, Journals
<1>2. Save(Recovered) /\ UNCHANGED rev
  BY DEF Restart, Recovered
<1>3. JournalOK' /\ Journal' = Recovered
  BY <1>1, <1>2, SaveType DEF Typed, JournalOK
<1>4. QueueOK'
  <2>1. lock' = << >> /\ pc' = "idle" /\ attempt' = Cmd("drain", NoMsg, 0) /\ timer' \in { "off", "armed" }
    BY DEF Restart, Scheduled
  <2>2. lock' \in Seq(Command) /\ Len(lock') = 0
    BY <2>1
  <2>3. attempt' \in Command
    BY <2>1, CmdType
  <2> QED BY <2>1, <2>2, <2>3 DEF QueueOK
<1>5. RestOK'
  BY DEF Restart, Typed, RestOK
<1> QED BY <1>3, <1>4, <1>5 DEF Typed

\* What leaves the journal and the line alone.
LEMMA AsideTypes ==
  ASSUME Typed, Sleep \/ Resume \/ ConnectionLost \/ TurnEnds \/ UNCHANGED vars \/ \E m \in Msgs : Post(m)
  PROVE  Typed' /\ UNCHANGED << rec, order, lock, pc, attempt, timer, admitted, delivered, dropped, rev >>
<1>1. UNCHANGED << journal, queueVars >> /\ UNCHANGED << admitted, delivered, dropped >>
  BY DEF Sleep, Resume, ConnectionLost, TurnEnds, Post, vars, provider
<1>2. JournalOK' /\ QueueOK'
  BY <1>1 DEF Typed, JournalOK, QueueOK, Journal, journal, queueVars, Running
<1>3. RestOK'
  <2>1. CASE Sleep \/ Resume \/ ConnectionLost \/ TurnEnds
    BY <2>1 DEF Sleep, Resume, ConnectionLost, TurnEnds, Typed, RestOK, session, provider, requests
  <2>2. CASE UNCHANGED vars
    BY <2>2 DEF vars, Typed, RestOK, session, provider, requests
  <2>3. ASSUME NEW m \in Msgs, Post(m) PROVE RestOK'
    <3>a. /\ posts' = [posts EXCEPT ![m] = @ + 1] /\ posting' = posting \cup { [msg |-> m, rev |-> rev] }
          /\ bar' = bar \ {m}
      BY <2>3 DEF Post
    <3>b. posts \in [Msgs -> Nat] /\ posting \subseteq [msg : Msgs, rev : Nat] /\ bar \subseteq Msgs /\ rev \in Nat
      BY DEF Typed, RestOK, JournalOK
    <3>1. posts' \in [Msgs -> Nat]
      BY <3>a, <3>b
    <3>2. posting' \subseteq [msg : Msgs, rev : Nat] /\ bar' \subseteq Msgs
      BY <3>a, <3>b
    <3> QED BY <2>3, <3>1, <3>2 DEF Post, Typed, RestOK, session, provider
  <2> QED BY <2>1, <2>2, <2>3
<1> QED BY <1>1, <1>2, <1>3 DEF Typed, journal, queueVars

LEMMA TypeStep == Typed /\ [Next]_vars => Typed'
  BY QueueInputType, DrainInputType, LoadEndsType, AttemptTypes, PersonCommandTypes, JoinTypes, CancelTypes,
     CancelType, RestartType, AsideTypes DEF Next, LockStep, PersonStep, SessionStep

\* Every variable of the model stays in its type.
THEOREM TypeCorrect == Spec => []TypeOK
<1>1. Typed => TypeOK
  BY DEF Typed, TypeOK, JournalOK, Journals, Journal, QueueOK, RestOK
<1> QED BY <1>1, TypeInit, TypeStep, PTL DEF Spec

-----------------------------------------------------------------------------
(* What the operators on the journal do to its records and its order.      *)

\* A record that is written keeps the others and their order; the pending ones stay listed.
LEMMA PutFacts ==
  ASSUME NEW j \in Journals, Listed(j), NEW x \in Msgs, NEW r \in Record
  PROVE  /\ Listed(Put(j, x, r))
         /\ \A y \in Msgs \ {x} : Put(j, x, r).rec[y] = j.rec[y]
         /\ Put(j, x, r).rec[x] = IF j.rec[x].state = "cancelled" THEN j.rec[x] ELSE r
         /\ \A y, z \in Msgs : Precedes(Put(j, x, r).order, y, z) =>
              Precedes(j.order, y, z) \/ (z = x /\ ~Pending(j.rec[x]))
         /\ ~Pending(j.rec[x]) /\ ~Pending(r) => Put(j, x, r).order = j.order
<1> DEFINE k == Put(j, x, r)
<1>0. j.rec \in [Msgs -> Record] /\ j.order \in Seq(Msgs)
  BY DEF Journals
<1>1. CASE j.rec[x].state = "cancelled"
  BY <1>1 DEF Put
<1>2. CASE j.rec[x].state # "cancelled" /\ ~Pending(r)
  <2>1. k.rec = [j.rec EXCEPT ![x] = r] /\ k.order = RemoveFirst(j.order, x)
    BY <1>2 DEF Put
  <2>2. k.rec[x] = r /\ \A y \in Msgs \ {x} : k.rec[y] = j.rec[y]
    BY <1>0, <2>1
  <2>3. /\ \A y, z : Precedes(k.order, y, z) => Precedes(j.order, y, z)
        /\ \A y : Contains(k.order, y) => Contains(j.order, y)
        /\ \A y : y # x /\ Contains(j.order, y) => Contains(k.order, y)
        /\ ~Precedes(j.order, x, x) => ~Contains(k.order, x)
    BY <1>0, <2>1, RemoveFacts
  <2>4. ~Pending(j.rec[x]) => k.order = j.order
    <3>1. ~Pending(j.rec[x]) => ~Contains(j.order, x)
      BY DEF Listed
    <3> QED BY <2>1, <3>1 DEF RemoveFirst, Contains
  <2> HIDE DEF k
  <2>5. Listed(k)
    BY <1>2, <2>2, <2>3 DEF Listed
  <2> QED BY <1>2, <2>2, <2>3, <2>4, <2>5 DEF k
<1>3. CASE j.rec[x].state # "cancelled" /\ Pending(r) /\ Contains(j.order, x)
  <2>1. k.rec = [j.rec EXCEPT ![x] = r] /\ k.order = j.order
    BY <1>3 DEF Put
  <2>2. k.rec[x] = r /\ \A y \in Msgs \ {x} : k.rec[y] = j.rec[y]
    BY <1>0, <2>1
  <2> HIDE DEF k
  <2>3. Listed(k)
    BY <1>3, <2>1, <2>2 DEF Listed
  <2> QED BY <1>3, <2>1, <2>2, <2>3 DEF k
<1>4. CASE j.rec[x].state # "cancelled" /\ Pending(r) /\ ~Contains(j.order, x)
  <2>1. k.rec = [j.rec EXCEPT ![x] = r] /\ k.order = Append(j.order, x)
    BY <1>4 DEF Put
  <2>2. k.rec[x] = r /\ \A y \in Msgs \ {x} : k.rec[y] = j.rec[y]
    BY <1>0, <2>1
  <2>3. /\ \A y : Contains(k.order, y) <=> Contains(j.order, y) \/ y = x
        /\ \A y, z : Precedes(k.order, y, z) <=> Precedes(j.order, y, z) \/ (Contains(j.order, y) /\ z = x)
    BY <1>0, <2>1, AppendFacts
  <2> HIDE DEF k
  <2>4. ~Pending(j.rec[x])
    BY <1>4 DEF Listed
  <2>5. Listed(k)
    BY <1>4, <2>2, <2>3 DEF Listed
  <2> QED BY <1>4, <2>2, <2>3, <2>4, <2>5 DEF k
<1> QED BY <1>1, <1>2, <1>3, <1>4

\* defer() changes no state, no reason and no place.
LEMMA DeferredFacts ==
  ASSUME NEW j \in Journals, Listed(j), NEW x \in Msgs
  PROVE  /\ Listed(Deferred(j, x))
         /\ \A y \in Msgs : /\ Deferred(j, x).rec[y].state = j.rec[y].state
                            /\ Deferred(j, x).rec[y].why = j.rec[y].why
         /\ \A y, z \in Msgs : Precedes(Deferred(j, x).order, y, z) => Precedes(j.order, y, z)
<1> DEFINE r == [j.rec[x] EXCEPT !.refused = FALSE]
           k == Put(j, x, r)
<1>1. CASE j.rec[x].state = "queued"
  <2>0. j.rec[x] \in Record
    BY DEF Journals
  <2>1. r \in Record /\ r.state = j.rec[x].state /\ r.why = j.rec[x].why
    BY <2>0 DEF Record
  <2>2. Pending(j.rec[x])
    BY <1>1 DEF Pending
  <2> HIDE DEF r
  <2>3. /\ Listed(k)
        /\ \A y \in Msgs \ {x} : k.rec[y] = j.rec[y]
        /\ k.rec[x] = IF j.rec[x].state = "cancelled" THEN j.rec[x] ELSE r
        /\ \A y, z \in Msgs : Precedes(k.order, y, z) => Precedes(j.order, y, z) \/ (z = x /\ ~Pending(j.rec[x]))
    BY <2>1, PutFacts
  <2>4. Deferred(j, x) = k
    BY <1>1 DEF Deferred, r
  <2> HIDE DEF k
  <2> QED BY <1>1, <2>1, <2>2, <2>3, <2>4
<1>2. CASE j.rec[x].state # "queued"
  BY <1>2 DEF Deferred
<1> QED BY <1>1, <1>2

\* Nothing is left that could be delivered; a message under way is the only one that may
\* stay listed.
LEMMA CancelAllFacts ==
  ASSUME Typed, Listed(Journal), AttemptInv(Journal, pc, attempt.msg), NEW b \in BOOLEAN
  PROVE  /\ Listed(CancelAll(b))
         /\ \A x \in Msgs :
              \/ ~Pending(rec[x]) /\ CancelAll(b).rec[x] = rec[x]
              \/ /\ Pending(rec[x]) /\ CancelAll(b).rec[x].state \in { "cancelled", "failed" }
                 /\ CancelAll(b).rec[x].why = IF rec[x].state = "submitting" THEN "uncertain" ELSE rec[x].why
                 /\ CancelAll(b).rec[x].state = "failed" => rec[x].state = "submitting" /\ ~b
<1> DEFINE k == CancelAll(b)
<1>0. Journal.rec = rec /\ Journal.order = order /\ \A x \in Msgs : rec[x] \in Record
  BY DEF Typed, JournalOK, Journals, Journal
<1>1. ASSUME NEW x \in Msgs
      PROVE  k.rec[x] = IF ~Pending(rec[x]) THEN rec[x]
                        ELSE IF rec[x].state # "submitting" THEN [rec[x] EXCEPT !.state = "cancelled"]
                        ELSE [rec[x] EXCEPT !.state = IF b THEN "cancelled" ELSE "failed", !.why = "uncertain"]
  BY DEF CancelAll
<1>2. k.order = IF b THEN << >> ELSE UnderWay
  BY DEF CancelAll
<1> HIDE DEF k
<1>3. ASSUME NEW x \in Msgs
      PROVE  \/ ~Pending(rec[x]) /\ k.rec[x] = rec[x]
             \/ /\ Pending(rec[x])
                /\ k.rec[x].state = IF rec[x].state = "submitting" /\ ~b THEN "failed" ELSE "cancelled"
                /\ k.rec[x].why = IF rec[x].state = "submitting" THEN "uncertain" ELSE rec[x].why
  BY <1>0, <1>1 DEF Record
<1>4. \A x \in Msgs : Pending(k.rec[x]) <=> rec[x].state = "submitting" /\ ~b
  <2> TAKE x \in Msgs
  <2>1. \/ ~Pending(rec[x]) /\ k.rec[x] = rec[x]
        \/ /\ Pending(rec[x])
           /\ k.rec[x].state = IF rec[x].state = "submitting" /\ ~b THEN "failed" ELSE "cancelled"
    BY <1>3
  <2> QED BY <2>1 DEF Pending
<1>5. CASE pc \in { "sending", "answer" } /\ rec[attempt.msg].state = "submitting"
  <2>1. UnderWay = << attempt.msg >>
    BY <1>5 DEF UnderWay
  <2>2. \A x \in Msgs : rec[x].state = "submitting" <=> x = attempt.msg
    BY <1>0, <1>5 DEF AttemptInv
  <2>3. Listed(k)
    BY <1>2, <1>4, <2>1, <2>2, SingleFacts, EmptyFacts DEF Listed
  <2> QED BY <1>3, <2>3 DEF k
<1>6. CASE ~(pc \in { "sending", "answer" } /\ rec[attempt.msg].state = "submitting")
  <2>1. UnderWay = << >>
    BY <1>6 DEF UnderWay
  <2>2. \A x \in Msgs : rec[x].state # "submitting"
    BY <1>0, <1>6 DEF AttemptInv
  <2>3. Listed(k)
    BY <1>2, <1>4, <2>1, <2>2, EmptyFacts DEF Listed
  <2> QED BY <1>3, <2>3 DEF k
<1> QED BY <1>5, <1>6

\* Steers that are given back become failed, those that were done with at the end.
LEMMA MarkCancelledFacts ==
  ASSUME Typed, Listed(Journal), NEW steers \in SUBSET Msgs,
         NEW listed \in SetToSeqs({ m \in steers : rec[m].state # "cancelled" /\ ~Pending(rec[m]) })
  PROVE  /\ Listed(MarkCancelled(steers, listed))
         /\ \A x \in Msgs : \/ MarkCancelled(steers, listed).rec[x] = rec[x]
                            \/ x \in steers /\ MarkCancelled(steers, listed).rec[x] = Entry("failed", "unsent")
         /\ \A y, z \in Msgs : Precedes(MarkCancelled(steers, listed).order, y, z) =>
              Precedes(order, y, z) \/ (z \in steers /\ MarkCancelled(steers, listed).rec[z].state = "failed")
         /\ order # << >> => Head(MarkCancelled(steers, listed).order) = Head(order)
         /\ order = << >> => MarkCancelled(steers, listed).order = listed
         /\ \A x \in Msgs : Contains(listed, x) => MarkCancelled(steers, listed).rec[x].state = "failed"
         /\ listed \in Seq(Msgs)
<1> DEFINE k == MarkCancelled(steers, listed)
           T == { m \in steers : rec[m].state # "cancelled" /\ ~Pending(rec[m]) }
<1>0. Journal.rec = rec /\ Journal.order = order /\ order \in Seq(Msgs)
  BY DEF Typed, JournalOK, Journals, Journal
<1>1. T \in SUBSET Msgs /\ IsFiniteSet(T)
  BY MsgAssumption, FS_Subset
<1>2. /\ listed \in Seq(Msgs)
      /\ \A x : Contains(listed, x) <=> x \in T
      /\ \A x : ~Precedes(listed, x, x)
  <2> HIDE DEF T
  <2>1. listed \in SetToSeqs(T)
    BY DEF T
  <2> QED BY <1>1, <2>1, EnumerationFacts
<1>3. k.order = order \o listed
      /\ \A x \in Msgs : k.rec[x] = IF x \in steers /\ rec[x].state # "cancelled" THEN Entry("failed", "unsent") ELSE rec[x]
  BY DEF MarkCancelled
<1>4. /\ \A x : Contains(k.order, x) <=> Contains(order, x) \/ Contains(listed, x)
      /\ \A x, y : Precedes(k.order, x, y) <=>
                     Precedes(order, x, y) \/ Precedes(listed, x, y) \/ (Contains(order, x) /\ Contains(listed, y))
  BY <1>0, <1>2, <1>3, ConcatFacts
<1>5. Entry("failed", "unsent").state = "failed" /\ Pending(Entry("failed", "unsent"))
  BY DEF Entry, Pending
<1>6. order # << >> => Head(k.order) = Head(order)
  BY <1>0, <1>2, <1>3
<1>7. order = << >> => k.order = listed
  BY <1>0, <1>2, <1>3
<1> HIDE DEF k
<1>8. \A x \in Msgs : x \in T => x \in steers /\ k.rec[x].state = "failed" /\ ~Contains(order, x)
  BY <1>0, <1>3, <1>5 DEF Listed
<1>9. \A x \in Msgs : Pending(k.rec[x]) <=> Contains(k.order, x)
  <2> TAKE x \in Msgs
  <2>1. Pending(rec[x]) <=> Contains(order, x)
    BY <1>0 DEF Listed
  <2>2. CASE x \in T
    BY <1>2, <1>3, <1>4, <1>5, <2>2
  <2>3. CASE x \notin T /\ x \in steers /\ rec[x].state # "cancelled"
    BY <1>2, <1>3, <1>4, <1>5, <2>1, <2>3
  <2>4. CASE ~(x \in steers /\ rec[x].state # "cancelled")
    BY <1>2, <1>3, <1>4, <2>1, <2>4
  <2> QED BY <2>2, <2>3, <2>4
<1>10. \A x \in Msgs : ~Precedes(k.order, x, x)
  BY <1>0, <1>2, <1>4, <1>8 DEF Listed
<1>11. \A x, y \in Msgs : Precedes(listed, x, y) => y \in T
  <2>1. \A x, y : Precedes(listed, x, y) => Contains(listed, y)
    BY DEF Precedes, Contains
  <2> QED BY <1>2, <2>1
<1>12. Listed(k)
  BY <1>9, <1>10 DEF Listed
<1> HIDE DEF T
<1> QED BY <1>2, <1>3, <1>4, <1>6, <1>7, <1>8, <1>11, <1>12 DEF k

LEMMA RecoveredFacts ==
  ASSUME Typed, Listed(Journal)
  PROVE  /\ Listed(Recovered) /\ Recovered.order = order
         /\ \A x \in Msgs : \/ rec[x].state # "submitting" /\ Recovered.rec[x] = rec[x]
                            \/ rec[x].state = "submitting" /\ Recovered.rec[x] = Entry("failed", "uncertain")
<1>1. Journal.rec = rec /\ Journal.order = order
  BY DEF Journal
<1>2. \A x \in Msgs : Recovered.rec[x] = IF rec[x].state = "submitting" THEN Entry("failed", "uncertain") ELSE rec[x]
  BY DEF Recovered
<1>3. Recovered.order = order
  BY DEF Recovered
<1>4. \A x \in Msgs : Pending(Recovered.rec[x]) <=> Pending(rec[x])
  BY <1>2 DEF Pending, Entry
<1>5. Listed(Recovered)
  BY <1>1, <1>3, <1>4 DEF Listed
<1> QED BY <1>2, <1>3, <1>5

-----------------------------------------------------------------------------
(* The order of admission and of delivery, kept by steps of three kinds.   *)

\* Nothing new is live, and no two live ones change places: the order of deliveries stays.
LEMMA Settles ==
  ASSUME NEW j \in Journals, NEW k \in Journals, NEW p, NEW m, NEW a, NEW d,
         AdmissionInv(j, p, m, a, d), OrderInv(j, p, m, a, d),
         NEW q, NEW n, q = "idle" \/ (q = p /\ n = m),
         \A x \in Msgs : /\ Live(k.rec[x]) => k.rec[x].state = j.rec[x].state
                         /\ k.rec[x].state = "none" => j.rec[x].state = "none",
         \A x, y \in Msgs : Live(k.rec[x]) /\ Live(k.rec[y]) /\ Precedes(k.order, x, y) => Precedes(j.order, x, y)
  PROVE  AdmissionInv(k, q, n, a, d) /\ OrderInv(k, q, n, a, d)
<1>1. \A x \in Msgs : /\ Live(k.rec[x]) => Live(j.rec[x])
                      /\ k.rec[x].state = "queued" => j.rec[x].state = "queued"
  BY DEF Live
<1>2. AdmissionInv(k, q, n, a, d)
  BY <1>1 DEF AdmissionInv
<1>3. OrderInv(k, q, n, a, d)
  BY <1>1 DEF OrderInv
<1> QED BY <1>2, <1>3

\* A message that was not delivered waits again.
LEMMA WaitsAgain ==
  ASSUME NEW j \in Journals, Listed(j), NEW m \in Msgs, NEW a, NEW d, NEW r \in Record, NEW q,
         AdmissionInv(j, "sending", m, a, d), OrderInv(j, "sending", m, a, d),
         j.rec[m].state = "submitting", r.state = "queued", q \in { "idle", "replying" }, NEW n, q = "idle" \/ n = m
  PROVE  AdmissionInv(Put(j, m, r), q, n, a, d) /\ OrderInv(Put(j, m, r), q, n, a, d)
<1> DEFINE k == Put(j, m, r)
<1>1. /\ \A y \in Msgs \ {m} : k.rec[y] = j.rec[y]
      /\ k.rec[m] = r
      /\ \A y, z \in Msgs : Precedes(k.order, y, z) => Precedes(j.order, y, z)
  <2>1. Pending(j.rec[m])
    BY DEF Pending
  <2> QED BY <2>1, PutFacts
<1> HIDE DEF k
<1>2. \A y \in Msgs : (Live(k.rec[y]) <=> Live(j.rec[y])) /\ (k.rec[y].state = "none" <=> j.rec[y].state = "none")
  <2> TAKE y \in Msgs
  <2>1. CASE y = m
    BY <1>1, <2>1 DEF Live
  <2>2. CASE y # m
    BY <1>1, <2>2
  <2> QED BY <2>1, <2>2
<1>3. AdmissionInv(k, q, n, a, d)
  BY <1>2 DEF AdmissionInv
<1>4. \A y \in Msgs : k.rec[y].state = "queued" => y = m \/ j.rec[y].state = "queued"
  BY <1>1
<1>5. OrderInv(k, q, n, a, d)
  BY <1>1, <1>2, <1>4 DEF OrderInv
<1> QED BY <1>3, <1>5 DEF k

\* The message that is handed to the transport precedes all others that wait.
LEMMA HandsOver ==
  ASSUME NEW j \in Journals, Listed(j), NEW p, NEW n, NEW m \in Msgs, NEW a, NEW d, NEW r \in Record,
         AdmissionInv(j, p, n, a, d), OrderInv(j, p, n, a, d),
         j.rec[m].state = "queued", r.state = "submitting",
         \A y \in Msgs : j.rec[y].state = "queued" /\ y # m => Precedes(a, m, y)
  PROVE  AdmissionInv(Put(j, m, r), "sending", m, a, d) /\ OrderInv(Put(j, m, r), "sending", m, a, d)
<1> DEFINE k == Put(j, m, r)
<1>1. /\ \A y \in Msgs \ {m} : k.rec[y] = j.rec[y]
      /\ k.rec[m] = r
      /\ \A y, z \in Msgs : Precedes(k.order, y, z) => Precedes(j.order, y, z)
  <2>1. Pending(j.rec[m])
    BY DEF Pending
  <2> QED BY <2>1, PutFacts
<1> HIDE DEF k
<1>2. \A y \in Msgs : (Live(k.rec[y]) <=> Live(j.rec[y])) /\ (k.rec[y].state = "none" <=> j.rec[y].state = "none")
  <2> TAKE y \in Msgs
  <2>1. CASE y = m
    BY <1>1, <2>1 DEF Live
  <2>2. CASE y # m
    BY <1>1, <2>2
  <2> QED BY <2>1, <2>2
<1>3. Live(j.rec[m])
  BY DEF Live
<1>4. AdmissionInv(k, "sending", m, a, d)
  BY <1>2, <1>3 DEF AdmissionInv
<1>5. \A y \in Msgs : k.rec[y].state = "queued" => y # m /\ j.rec[y].state = "queued"
  BY <1>1
<1>6. OrderInv(k, "sending", m, a, d)
  BY <1>1, <1>2, <1>5 DEF OrderInv
<1> QED BY <1>4, <1>6 DEF k

\* The head of the journal precedes every other message that waits.
LEMMA HeadPrecedes ==
  ASSUME NEW j \in Journals, Listed(j), NEW p, NEW n, NEW a, NEW d, OrderInv(j, p, n, a, d), Ready(j)
  PROVE  /\ Head(j.order) \in Msgs /\ j.rec[Head(j.order)].state = "queued"
         /\ \A y \in Msgs : j.rec[y].state = "queued" /\ y # Head(j.order) => Precedes(a, Head(j.order), y)
<1> DEFINE h == Head(j.order)
<1>1. j.order \in Seq(Msgs) /\ j.order # << >> /\ j.rec[h].state = "queued"
  BY DEF Journals, Ready
<1>2. h \in Msgs /\ \A x : Contains(j.order, x) => x = h \/ Precedes(j.order, h, x)
  BY <1>1, HeadFacts
<1> HIDE DEF h
<1>3. ASSUME NEW y \in Msgs, j.rec[y].state = "queued", y # h PROVE Precedes(a, h, y)
  <2>1. Contains(j.order, y)
    BY <1>3 DEF Listed, Pending
  <2>2. Live(j.rec[h]) /\ Live(j.rec[y])
    BY <1>1, <1>3 DEF Live
  <2> QED BY <1>2, <1>3, <2>1, <2>2 DEF OrderInv
<1> QED BY <1>1, <1>2, <1>3 DEF h

\* A message that is queued for the first time comes last.
LEMMA JoinsLast ==
  ASSUME NEW j \in Journals, Listed(j), NEW m \in Msgs, NEW n, NEW a \in Seq(Msgs), NEW d, NEW r \in Record,
         AdmissionInv(j, "idle", n, a, d), OrderInv(j, "idle", n, a, d),
         j.rec[m].state = "none", r.state = "queued"
  PROVE  /\ AdmissionInv(Put(j, m, r), "idle", n, Append(a, m), d)
         /\ OrderInv(Put(j, m, r), "idle", n, Append(a, m), d)
<1> DEFINE k == Put(j, m, r)
           b == Append(a, m)
<1>1. /\ \A y \in Msgs \ {m} : k.rec[y] = j.rec[y]
      /\ k.rec[m] = r
      /\ \A y, z \in Msgs : Precedes(k.order, y, z) => Precedes(j.order, y, z) \/ z = m
  BY PutFacts
<1>2. /\ \A x : Contains(b, x) <=> Contains(a, x) \/ x = m
      /\ \A x, y : Precedes(b, x, y) <=> Precedes(a, x, y) \/ (Contains(a, x) /\ y = m)
  BY AppendFacts
<1> HIDE DEF k, b
<1>3. ~Contains(a, m) /\ ~Contains(d, m)
  BY DEF AdmissionInv
<1>4. \A y \in Msgs \ {m} : (Live(k.rec[y]) <=> Live(j.rec[y])) /\ (k.rec[y].state = j.rec[y].state)
  BY <1>1
<1>5. AdmissionInv(k, "idle", n, b, d)
  <2>1. \A x \in Msgs : ~Precedes(b, x, x)
    BY <1>2, <1>3 DEF AdmissionInv
  <2>2. \A x \in Msgs : Contains(b, x) => k.rec[x].state # "none"
    BY <1>1, <1>2 DEF AdmissionInv
  <2>3. \A x \in Msgs : Live(k.rec[x]) => Contains(b, x)
    BY <1>2, <1>4 DEF AdmissionInv
  <2>4. \A x \in Msgs : Contains(d, x) => Contains(b, x)
    BY <1>2 DEF AdmissionInv
  <2> QED BY <2>1, <2>2, <2>3, <2>4 DEF AdmissionInv
<1>6. OrderInv(k, "idle", n, b, d)
  <2>1. ASSUME NEW x \in Msgs, NEW y \in Msgs, Live(k.rec[x]), Live(k.rec[y]), Precedes(k.order, x, y)
        PROVE  Precedes(b, x, y)
    <3>1. CASE x = m
      <4>1. ~Contains(j.order, m)
        BY DEF Listed, Pending
      <4>2. ~Precedes(j.order, m, y)
        BY <4>1 DEF Precedes, Contains
      <4>3. y = m
        BY <1>1, <2>1, <3>1, <4>2
      <4>4. ~Precedes(k.order, m, m)
        BY PutFacts DEF Listed, k
      <4> QED BY <2>1, <3>1, <4>3, <4>4
    <3>2. CASE x # m /\ y = m
      BY <1>2, <1>4, <2>1, <3>2 DEF AdmissionInv
    <3>3. CASE x # m /\ y # m
      BY <1>1, <1>2, <1>4, <2>1, <3>3 DEF OrderInv
    <3> QED BY <3>1, <3>2, <3>3
  <2>2. ASSUME NEW x \in Msgs, NEW y \in Msgs, Contains(d, x), k.rec[y].state = "queued"
        PROVE  Precedes(b, x, y)
    <3>1. CASE y = m
      BY <1>2, <2>2, <3>1 DEF AdmissionInv
    <3>2. CASE y # m
      BY <1>2, <1>4, <2>2, <3>2 DEF OrderInv
    <3> QED BY <3>1, <3>2
  <2>3. \A x, y \in Msgs : Precedes(d, x, y) => Precedes(b, x, y)
    BY <1>2 DEF OrderInv
  <2> QED BY <2>1, <2>2, <2>3 DEF OrderInv
<1> QED BY <1>5, <1>6 DEF k, b

-----------------------------------------------------------------------------
(* What the commands leave of the journal is sound.                        *)

\* A message that waits, or is not known, or is on its way, was not delivered.
LEMMA NotDelivered ==
  ASSUME NEW j, NEW p, NEW m, NEW a, NEW d, AdmissionInv(j, p, m, a, d), OrderInv(j, p, m, a, d)
  PROVE  /\ \A x \in Msgs : j.rec[x].state \in { "none", "queued" } => ~Contains(d, x)
         /\ p = "sending" /\ m \in Msgs => ~Contains(d, m)
  BY DEF AdmissionInv, OrderInv

LEMMA HonestWrite ==
  ASSUME NEW j \in Journals, Listed(j), NEW d, NEW g, HonestInv(j, d, g), NEW x \in Msgs, NEW r \in Record,
         \/ r.state \notin { "queued", "failed", "cancelled" }
         \/ r.why \notin { "waiting", "unsent" }
         \/ ~Contains(d, x)
         \/ x \in g
  PROVE  HonestInv(Put(j, x, r), d, g)
<1> DEFINE k == Put(j, x, r)
<1>1. /\ \A y \in Msgs \ {x} : k.rec[y] = j.rec[y]
      /\ k.rec[x] = IF j.rec[x].state = "cancelled" THEN j.rec[x] ELSE r
  BY PutFacts
<1> HIDE DEF k
<1>2. HonestInv(k, d, g)
  BY <1>1 DEF HonestInv
<1> QED BY <1>2 DEF k

\* The command ends, or waits for nothing of the provider, with the journal as it was.
LEMMA SoundAtEnd ==
  ASSUME NEW j \in Journals, NEW p, NEW m, NEW a, NEW d, NEW g, Sound(j, p, m, a, d, g),
         \A x \in Msgs : j.rec[x].state # "submitting", NEW n
  PROVE  Sound(j, "idle", n, a, d, g)
<1>1. AttemptInv(j, "idle", n)
  BY DEF AttemptInv
<1>2. AdmissionInv(j, "idle", n, a, d) /\ OrderInv(j, "idle", n, a, d)
  BY DEF Sound, AdmissionInv, OrderInv
<1> QED BY <1>1, <1>2 DEF Sound

LEMMA SoundDeferred ==
  ASSUME NEW j \in Journals, NEW p, NEW m, NEW a, NEW d, NEW g, Sound(j, p, m, a, d, g),
         \A x \in Msgs : j.rec[x].state # "submitting", NEW n, NEW y \in Msgs
  PROVE  Sound(Deferred(j, y), "idle", n, a, d, g)
<1> DEFINE k == Deferred(j, y)
<1>1. /\ k \in Journals /\ Listed(k)
      /\ \A x \in Msgs : k.rec[x].state = j.rec[x].state /\ k.rec[x].why = j.rec[x].why
      /\ \A x, z \in Msgs : Precedes(k.order, x, z) => Precedes(j.order, x, z)
  BY DeferredFacts, DeferredType DEF Sound
<1> HIDE DEF k
<1>2. AttemptInv(k, "idle", n)
  BY <1>1 DEF AttemptInv
<1>3. AdmissionInv(k, "idle", n, a, d) /\ OrderInv(k, "idle", n, a, d)
  <2>1. AdmissionInv(j, p, m, a, d) /\ OrderInv(j, p, m, a, d)
    BY DEF Sound
  <2> QED BY <1>1, <2>1, Settles
<1>4. HonestInv(k, d, g)
  BY <1>1 DEF Sound, HonestInv
<1> QED BY <1>1, <1>2, <1>3, <1>4 DEF Sound, k

\* A record that is neither live before nor after a write.
LEMMA SoundSettled ==
  ASSUME NEW j \in Journals, NEW p, NEW m, NEW a, NEW d, NEW g, Sound(j, p, m, a, d, g),
         NEW x \in Msgs, NEW r \in Record, r.state \in { "submitted", "failed", "cancelled" },
         \/ r.state = "submitted" \/ r.why \notin { "waiting", "unsent" } \/ ~Contains(d, x) \/ x \in g,
         NEW q, NEW n, q = "idle" \/ (q = p /\ n = m), AttemptInv(Put(j, x, r), q, n)
  PROVE  Sound(Put(j, x, r), q, n, a, d, g)
<1> DEFINE k == Put(j, x, r)
<1>1. /\ k \in Journals /\ Listed(k)
      /\ \A y \in Msgs \ {x} : k.rec[y] = j.rec[y]
      /\ k.rec[x] = IF j.rec[x].state = "cancelled" THEN j.rec[x] ELSE r
      /\ \A y, z \in Msgs : Precedes(k.order, y, z) => Precedes(j.order, y, z) \/ (z = x /\ ~Pending(j.rec[x]))
  BY PutFacts, PutType DEF Sound
<1>2. HonestInv(k, d, g)
  BY HonestWrite DEF Sound
<1> HIDE DEF k
<1>3. ~Live(k.rec[x]) /\ k.rec[x].state # "none"
  BY <1>1 DEF Live
<1>4. \A y \in Msgs : /\ Live(k.rec[y]) => k.rec[y].state = j.rec[y].state
                      /\ k.rec[y].state = "none" => j.rec[y].state = "none"
  BY <1>1, <1>3
<1>5. \A y, z \in Msgs : Live(k.rec[y]) /\ Live(k.rec[z]) /\ Precedes(k.order, y, z) => Precedes(j.order, y, z)
  BY <1>1, <1>3
<1>6. AdmissionInv(k, q, n, a, d) /\ OrderInv(k, q, n, a, d)
  <2>1. AdmissionInv(j, p, m, a, d) /\ OrderInv(j, p, m, a, d)
    BY DEF Sound
  <2> QED BY <1>1, <1>4, <1>5, <2>1, Settles
<1> QED BY <1>1, <1>2, <1>6 DEF Sound, k

\* The attempt is over with a message that does not wait.
LEMMA SoundAnswered ==
  ASSUME NEW j \in Journals, NEW p, NEW m \in Msgs, NEW a, NEW d, NEW g, Sound(j, p, m, a, d, g),
         NEW r \in Record, r.state \in { "submitted", "failed" },
         r.state = "submitted" \/ r.why = "uncertain" \/ p = "sending", NEW n
  PROVE  Sound(Put(j, m, r), "idle", n, a, d, g)
<1>1. /\ \A y \in Msgs \ {m} : Put(j, m, r).rec[y] = j.rec[y]
      /\ Put(j, m, r).rec[m] = IF j.rec[m].state = "cancelled" THEN j.rec[m] ELSE r
  BY PutFacts DEF Sound
<1>2. AttemptInv(Put(j, m, r), "idle", n)
  BY <1>1 DEF Sound, AttemptInv
<1>3. p = "sending" => ~Contains(d, m)
  BY NotDelivered DEF Sound
<1> QED BY <1>2, <1>3, SoundSettled

\* The attempt is over with a message that waits again.
LEMMA SoundAgain ==
  ASSUME NEW j \in Journals, NEW m \in Msgs, NEW a, NEW d, NEW g, Sound(j, "sending", m, a, d, g),
         j.rec[m].state = "submitting", NEW r \in Record, r.state = "queued",
         NEW q \in { "idle", "replying" }, NEW n, q = "idle" \/ n = m
  PROVE  Sound(Put(j, m, r), q, n, a, d, g)
<1> DEFINE k == Put(j, m, r)
<1>1. /\ Listed(k)
      /\ \A y \in Msgs \ {m} : k.rec[y] = j.rec[y]
      /\ k.rec[m] = r
  BY PutFacts DEF Sound
<1>2. HonestInv(k, d, g)
  BY HonestWrite, NotDelivered DEF Sound
<1>3. AdmissionInv(k, q, n, a, d) /\ OrderInv(k, q, n, a, d)
  BY WaitsAgain DEF Sound
<1> HIDE DEF k
<1>4. AttemptInv(k, q, n)
  BY <1>1 DEF Sound, AttemptInv
<1> QED BY <1>1, <1>2, <1>3, <1>4 DEF Sound, k

\* The message is handed to the transport.
LEMMA SoundHandedOver ==
  ASSUME NEW j \in Journals, NEW p \in { "idle", "loading" }, NEW n, NEW m \in Msgs, NEW a, NEW d, NEW g,
         Sound(j, p, n, a, d, g), j.rec[m].state = "queued",
         \A y \in Msgs : j.rec[y].state = "queued" /\ y # m => Precedes(a, m, y)
  PROVE  Sound(Put(j, m, [j.rec[m] EXCEPT !.state = "submitting"]), "sending", m, a, d, g)
<1> DEFINE r == [j.rec[m] EXCEPT !.state = "submitting"]
           k == Put(j, m, r)
<1>0. r \in Record /\ r.state = "submitting"
  <2>1. j.rec[m] \in Record
    BY DEF Journals
  <2> QED BY <2>1 DEF Record, States
<1> HIDE DEF r
<1>1. /\ Listed(k)
      /\ \A y \in Msgs \ {m} : k.rec[y] = j.rec[y]
      /\ k.rec[m] = r
  BY <1>0, PutFacts DEF Sound
<1>2. HonestInv(k, d, g)
  BY <1>0, HonestWrite DEF Sound
<1>3. AdmissionInv(k, "sending", m, a, d) /\ OrderInv(k, "sending", m, a, d)
  BY <1>0, HandsOver DEF Sound
<1> HIDE DEF k
<1>4. AttemptInv(k, "sending", m)
  BY <1>0, <1>1 DEF Sound, AttemptInv
<1> QED BY <1>1, <1>2, <1>3, <1>4 DEF Sound, k, r

\* A drain that begins on a sound journal with no attempt under way.
LEMMA DrainSound ==
  ASSUME Typed, NEW j \in Journals, NEW n, NEW a, Sound(j, "idle", n, a, delivered, dropped),
         DrainBegins(j), a = admitted', UNCHANGED << delivered, dropped >>
  PROVE  JournalInv'
<1>0. Sound(j, "idle", n, admitted', delivered', dropped') /\ rev \in Nat
  BY DEF Typed, JournalOK
<1>1. \A x \in Msgs : j.rec[x].state # "submitting"
  BY DEF Sound, AttemptInv
<1>2. CASE Journal' = j /\ Ends(j)
  <2>1. pc' = "idle"
    BY <1>2 DEF Ends
  <2> QED BY <1>0, <1>1, <1>2, <2>1, SoundAtEnd DEF JournalInv
<1>3. CASE /\ Ready(j) /\ Head(j.order) \in Msgs
           /\ Journal' = Deferred(j, Head(j.order)) /\ Ends(Deferred(j, Head(j.order)))
  <2>1. pc' = "idle"
    BY <1>3 DEF Ends
  <2> QED BY <1>0, <1>1, <1>3, <2>1, SoundDeferred DEF JournalInv
<1>4. CASE Ready(j) /\ attempt'.msg = Head(j.order) /\ Journal' = j /\ pc' = "loading"
  <2> DEFINE h == Head(j.order)
  <2>1. /\ h \in Msgs /\ j.rec[h].state = "queued"
        /\ \A y \in Msgs : j.rec[y].state = "queued" /\ y # h => Precedes(admitted', h, y)
    BY <1>0, <1>4, HeadPrecedes DEF Sound
  <2> HIDE DEF h
  <2>2. Contains(admitted', h)
    BY <1>0, <2>1 DEF Sound, AdmissionInv, Live
  <2>3. Sound(j, "loading", h, admitted', delivered', dropped')
    BY <1>0, <1>1, <2>1, <2>2 DEF Sound, AttemptInv, AdmissionInv, OrderInv
  <2> QED BY <1>4, <2>3 DEF JournalInv, h
<1>5. CASE /\ Ready(j) /\ attempt'.msg = Head(j.order) /\ pc' = "sending"
           /\ Journal' = Put(j, Head(j.order), [j.rec[Head(j.order)] EXCEPT !.state = "submitting"])
  <2> DEFINE h == Head(j.order)
  <2>1. /\ h \in Msgs /\ j.rec[h].state = "queued"
        /\ \A y \in Msgs : j.rec[y].state = "queued" /\ y # h => Precedes(admitted', h, y)
    BY <1>0, <1>5, HeadPrecedes DEF Sound
  <2>2. Sound(Put(j, h, [j.rec[h] EXCEPT !.state = "submitting"]), "sending", h, admitted', delivered', dropped')
    BY <1>0, <2>1, SoundHandedOver
  <2> QED BY <1>5, <2>2 DEF JournalInv
<1> QED BY <1>0, <1>2, <1>3, <1>4, <1>5, DrainCases

LEMMA JournalQueueInput ==
  ASSUME Typed, JournalInv, QueueInput
  PROVE  JournalInv'
<1> DEFINE m == Running.msg
<1>1. /\ pc = "idle" /\ m \in Msgs
      /\ Taken(m, TRUE) \in Journals /\ Taken(m, FALSE) \in Journals
      /\ UNCHANGED << delivered, dropped >>
      /\ \/ /\ Journal' \in { Journal, Taken(m, TRUE) }
            /\ UNCHANGED << pc, attempt, admitted >>
         \/ /\ DrainBegins(Taken(m, FALSE))
            /\ admitted' = IF rec[m].state # "none" THEN admitted ELSE Append(admitted, m)
  BY QueueInputCases DEF provider
<1>2. Journal \in Journals /\ Journal.rec = rec /\ admitted \in Seq(Msgs)
  BY DEF Typed, JournalOK, Journal, RestOK
<1>3. Sound(Journal, "idle", attempt.msg, admitted, delivered, dropped)
  BY <1>1 DEF JournalInv
<1> HIDE DEF m
<1>4. CASE Journal' = Journal /\ UNCHANGED << pc, attempt, admitted >>
  BY <1>1, <1>4 DEF JournalInv
<1>5. CASE Journal' = Taken(m, TRUE) /\ UNCHANGED << pc, attempt, admitted >>
  <2>1. CASE rec[m].state # "none"
    BY <1>1, <1>5, <2>1 DEF JournalInv, Taken
  <2>2. CASE rec[m].state = "none"
    <3> DEFINE r == Entry("cancelled", "unsent")
    <3>1. Taken(m, TRUE) = Put(Journal, m, r) /\ r \in Record /\ r.state = "cancelled"
      BY <2>2, WrittenType DEF Taken, Entry
    <3> HIDE DEF r
    <3>2. ~Contains(delivered, m)
      BY <1>1, <1>2, <1>3, <2>2, NotDelivered DEF Sound
    <3>3. AttemptInv(Put(Journal, m, r), "idle", attempt.msg)
      <4>1. /\ \A y \in Msgs \ {m} : Put(Journal, m, r).rec[y] = rec[y]
            /\ Put(Journal, m, r).rec[m] = IF rec[m].state = "cancelled" THEN rec[m] ELSE r
        BY <1>1, <1>2, <1>3, <3>1, PutFacts DEF Sound
      <4> QED BY <1>2, <1>3, <3>1, <4>1 DEF Sound, AttemptInv
    <3>4. Sound(Put(Journal, m, r), "idle", attempt.msg, admitted, delivered, dropped)
      BY <1>1, <1>2, <1>3, <3>1, <3>2, <3>3, SoundSettled
    <3> QED BY <1>1, <1>5, <3>1, <3>4 DEF JournalInv
  <2> QED BY <2>1, <2>2
<1>6. CASE /\ DrainBegins(Taken(m, FALSE))
           /\ admitted' = IF rec[m].state # "none" THEN admitted ELSE Append(admitted, m)
  <2>1. CASE rec[m].state # "none"
    <3>1. Taken(m, FALSE) = Journal /\ admitted' = admitted
      BY <1>6, <2>1 DEF Taken
    <3> QED BY <1>1, <1>2, <1>3, <1>6, <3>1, DrainSound
  <2>2. CASE rec[m].state = "none"
    <3> DEFINE r == Entry("queued", "waiting")
               k == Put(Journal, m, r)
    <3>1. Taken(m, FALSE) = k /\ r \in Record /\ r.state = "queued" /\ admitted' = Append(admitted, m)
      BY <1>6, <2>2, WrittenType DEF Taken, Entry
    <3> HIDE DEF r
    <3>2. ~Contains(delivered, m)
      BY <1>1, <1>2, <1>3, <2>2, NotDelivered DEF Sound
    <3>3. /\ AdmissionInv(k, "idle", attempt.msg, Append(admitted, m), delivered)
          /\ OrderInv(k, "idle", attempt.msg, Append(admitted, m), delivered)
      BY <1>1, <1>2, <1>3, <2>2, <3>1, JoinsLast DEF Sound
    <3>4. HonestInv(k, delivered, dropped)
      BY <1>1, <1>2, <1>3, <3>1, <3>2, HonestWrite DEF Sound
    <3>5. Listed(k) /\ AttemptInv(k, "idle", attempt.msg)
      <4>1. /\ Listed(k)
            /\ \A y \in Msgs \ {m} : k.rec[y] = rec[y]
            /\ k.rec[m] = IF rec[m].state = "cancelled" THEN rec[m] ELSE r
        BY <1>1, <1>2, <1>3, <3>1, PutFacts DEF Sound
      <4> HIDE DEF k
      <4> QED BY <1>2, <1>3, <3>1, <4>1 DEF Sound, AttemptInv
    <3> HIDE DEF k
    <3>6. Sound(k, "idle", attempt.msg, admitted', delivered, dropped)
      BY <3>1, <3>3, <3>4, <3>5 DEF Sound
    <3> QED BY <1>1, <1>6, <3>1, <3>6, DrainSound
  <2> QED BY <2>1, <2>2
<1> QED BY <1>1, <1>4, <1>5, <1>6

LEMMA JournalDrainInput ==
  ASSUME Typed, JournalInv, DrainInput
  PROVE  JournalInv'
<1>1. /\ pc = "idle" /\ DrainBegins(Journal) /\ UNCHANGED << delivered, dropped, admitted >>
      /\ Journal \in Journals
  BY DEF DrainInput, Begins, provider, Typed, JournalOK
<1> QED BY <1>1, DrainSound DEF JournalInv

LEMMA JournalLoadEnds ==
  ASSUME Typed, JournalInv, LoadEnds
  PROVE  JournalInv'
<1> DEFINE m == attempt.msg
<1>1. /\ pc = "loading" /\ UNCHANGED << admitted, delivered, dropped >>
      /\ \/ Resumes(TRUE)
         \/ Resumes(FALSE)
  BY DEF LoadEnds, Waits, provider
<1>2. /\ m \in Msgs /\ Journal \in Journals /\ Journal.rec = rec
      /\ \/ /\ StillOwned
            /\ Journal' = Put(Journal, m, [rec[m] EXCEPT !.state = "submitting"])
            /\ pc' = "sending" /\ UNCHANGED attempt
         \/ Journal' = Deferred(Journal, m) /\ Ends(Deferred(Journal, m))
  BY <1>1, ResumesCases DEF Journal
<1>3. Sound(Journal, "loading", m, admitted, delivered, dropped)
  BY <1>1 DEF JournalInv
<1> HIDE DEF m
<1>4. CASE /\ StillOwned
           /\ Journal' = Put(Journal, m, [rec[m] EXCEPT !.state = "submitting"])
           /\ pc' = "sending" /\ UNCHANGED attempt
  <2>1. rec[m].state = "queued"
    BY <1>4 DEF StillOwned, m
  <2>2. \A y \in Msgs : rec[y].state = "queued" /\ y # m => Precedes(admitted, m, y)
    BY <1>2, <1>3 DEF Sound, OrderInv
  <2>3. Sound(Put(Journal, m, [Journal.rec[m] EXCEPT !.state = "submitting"]), "sending", m, admitted, delivered, dropped)
    BY <1>2, <1>3, <2>1, <2>2, SoundHandedOver
  <2> QED BY <1>1, <1>2, <1>4, <2>3 DEF JournalInv, m
<1>5. CASE Journal' = Deferred(Journal, m) /\ Ends(Deferred(Journal, m))
  <2>1. pc' = "idle"
    BY <1>5 DEF Ends
  <2>2. \A x \in Msgs : Journal.rec[x].state # "submitting"
    BY <1>3 DEF Sound, AttemptInv
  <2> QED BY <1>1, <1>2, <1>3, <1>5, <2>1, <2>2, SoundDeferred DEF JournalInv
<1> QED BY <1>2, <1>4, <1>5

\* A submission failed: the record is written unless a Stop or a release took it over.
LEMMA JournalFails ==
  ASSUME Typed, JournalInv, pc \in { "sending", "answer" }, NEW r \in Record, Fails(r),
         UNCHANGED << admitted, delivered, dropped >>,
         \/ r.state = "failed" /\ (r.why = "uncertain" \/ pc = "sending")
         \/ r.state = "queued" /\ pc = "sending"
  PROVE  JournalInv'
<1> DEFINE m == attempt.msg
<1>1. m \in Msgs /\ Journal \in Journals /\ Journal.rec = rec /\ attempt.msg \in Msgs
  BY DEF Typed, QueueOK, JournalOK, Journal
<1>2. PICK j \in Journals : /\ Journal' = j /\ Ends(j)
                            /\ j = IF Mine.state = "submitting" THEN Put(Journal, m, r) ELSE Journal
  BY <1>1, FailsCases
<1>3. pc' = "idle"
  BY <1>2 DEF Ends
<1>4. Sound(Journal, pc, m, admitted, delivered, dropped)
  BY DEF JournalInv
<1>5. CASE rec[m].state # "submitting"
  <2>1. j = Journal
    BY <1>2, <1>5 DEF Mine
  <2>2. \A x \in Msgs : Journal.rec[x].state # "submitting"
    BY <1>1, <1>4, <1>5 DEF Sound, AttemptInv
  <2>3. Sound(Journal, "idle", attempt'.msg, admitted, delivered, dropped)
    BY <1>1, <1>4, <2>2, SoundAtEnd
  <2> QED BY <1>2, <1>3, <2>1, <2>3 DEF JournalInv
<1>6. CASE rec[m].state = "submitting"
  <2>1. j = Put(Journal, m, r)
    BY <1>2, <1>6 DEF Mine
  <2> HIDE DEF m
  <2>2. CASE r.state = "failed" /\ (r.why = "uncertain" \/ pc = "sending")
    <3>1. Sound(Put(Journal, m, r), "idle", attempt'.msg, admitted, delivered, dropped)
      BY <1>1, <1>4, <2>2, SoundAnswered
    <3> QED BY <1>2, <1>3, <2>1, <3>1 DEF JournalInv
  <2>3. CASE r.state = "queued" /\ pc = "sending"
    <3>1. Sound(Put(Journal, m, r), "idle", attempt'.msg, admitted, delivered, dropped)
      BY <1>1, <1>4, <1>6, <2>3, SoundAgain
    <3> QED BY <1>2, <1>3, <2>1, <3>1 DEF JournalInv
  <2> QED BY <2>2, <2>3
<1> QED BY <1>5, <1>6

LEMMA JournalAccepts ==
  ASSUME Typed, JournalInv, Accepts
  PROVE  JournalInv'
<1> DEFINE m == attempt.msg
           d == Append(delivered, m)
<1>1. /\ pc = "sending" /\ pc' = "answer" /\ attempt' = attempt /\ Journal' = Journal
      /\ delivered' = d /\ UNCHANGED << admitted, dropped >> /\ m \in Msgs /\ delivered \in Seq(Msgs)
      /\ Journal.rec = rec
  BY DEF Accepts, Waits, Journal, journal, Typed, QueueOK, RestOK
<1>2. Sound(Journal, "sending", m, admitted, delivered, dropped)
  BY <1>1 DEF JournalInv
<1>3. /\ \A x : Contains(d, x) <=> Contains(delivered, x) \/ x = m
      /\ \A x, y : Precedes(d, x, y) <=> Precedes(delivered, x, y) \/ (Contains(delivered, x) /\ y = m)
  BY <1>1, AppendFacts
<1> HIDE DEF m, d
<1>4. AttemptInv(Journal, "answer", m)
  BY <1>2 DEF Sound, AttemptInv
<1>5. AdmissionInv(Journal, "answer", m, admitted, d)
  BY <1>2, <1>3 DEF Sound, AdmissionInv
<1>6. OrderInv(Journal, "answer", m, admitted, d)
  <2>1. \A y \in Msgs : Journal.rec[y].state = "queued" => y # m
    BY <1>2 DEF Sound, AttemptInv
  <2>2. ASSUME NEW x \in Msgs, NEW y \in Msgs, Contains(d, x), Journal.rec[y].state = "queued"
        PROVE  Precedes(admitted, x, y)
    BY <1>2, <1>3, <2>1, <2>2 DEF Sound, OrderInv
  <2>3. ASSUME NEW x \in Msgs, NEW y \in Msgs, Precedes(d, x, y) PROVE Precedes(admitted, x, y)
    BY <1>2, <1>3, <2>3 DEF Sound, OrderInv
  <2>4. \A x, y \in Msgs : Live(Journal.rec[x]) /\ Live(Journal.rec[y]) /\ Precedes(Journal.order, x, y) => Precedes(admitted, x, y)
    BY <1>2 DEF Sound, OrderInv
  <2> QED BY <2>2, <2>3, <2>4 DEF OrderInv
<1>7. HonestInv(Journal, d, dropped)
  <2>1. Journal.rec[m].state = "submitting" \/ Journal.rec[m].why = "uncertain"
    BY <1>2 DEF Sound, AttemptInv
  <2> QED BY <1>2, <1>3, <2>1 DEF Sound, HonestInv
<1>8. Sound(Journal, "answer", m, admitted, d, dropped)
  BY <1>2, <1>4, <1>5, <1>6, <1>7 DEF Sound
<1> QED BY <1>1, <1>8 DEF JournalInv, m

LEMMA JournalSubmitted ==
  ASSUME Typed, JournalInv, Submitted
  PROVE  JournalInv'
<1> DEFINE r == Entry("submitted", "sent")
<1>1. pc = "answer" /\ attempt.msg \in Msgs /\ Journal \in Journals /\ r \in Record /\ r.state = "submitted"
  BY WrittenType DEF Submitted, Waits, Typed, QueueOK, JournalOK, Entry
<1>2. Save(Put(Journal, attempt.msg, r)) /\ Ends(Put(Journal, attempt.msg, r)) /\ UNCHANGED << admitted, delivered, dropped >>
  BY DEF Submitted, provider
<1> HIDE DEF r
<1>3. Journal' = Put(Journal, attempt.msg, r) /\ pc' = "idle"
  BY <1>1, <1>2, PutType, SaveType DEF Ends
<1>4. Sound(Put(Journal, attempt.msg, r), "idle", attempt'.msg, admitted, delivered, dropped)
  BY <1>1, SoundAnswered DEF JournalInv
<1> QED BY <1>2, <1>3, <1>4 DEF JournalInv

LEMMA JournalRefused ==
  ASSUME Typed, JournalInv, Unconfirmed \/ NotSent \/ Rejected
  PROVE  JournalInv'
<1>1. UNCHANGED << admitted, delivered, dropped >>
  BY DEF Unconfirmed, NotSent, Rejected, provider
<1>2. /\ Entry("failed", "uncertain").state = "failed" /\ Entry("failed", "uncertain").why = "uncertain"
      /\ Entry("failed", "unsent").state = "failed"
      /\ [Entry("queued", "waiting") EXCEPT !.refused = TRUE].state = "queued"
      /\ [Entry("failed", "unsent") EXCEPT !.refused = TRUE].state = "failed"
  BY DEF Entry
<1>3. CASE Unconfirmed
  <2>1. pc \in { "sending", "answer" } /\ Fails(Entry("failed", "uncertain"))
    BY <1>3 DEF Unconfirmed, Waits
  <2> QED BY <1>1, <1>2, <2>1, WrittenType, JournalFails
<1>4. CASE NotSent
  <2>1. /\ pc = "sending"
        /\ \/ Fails([Entry("queued", "waiting") EXCEPT !.refused = TRUE])
           \/ Fails([Entry("failed", "unsent") EXCEPT !.refused = TRUE])
    BY <1>4 DEF NotSent, Waits
  <2> QED BY <1>1, <1>2, <2>1, WrittenType, JournalFails
<1>5. CASE Rejected
  <2>1. pc = "sending" /\ Fails(Entry("failed", "unsent"))
    BY <1>5 DEF Rejected, Waits
  <2> QED BY <1>1, <1>2, <2>1, WrittenType, JournalFails
<1> QED BY <1>3, <1>4, <1>5

LEMMA JournalBusy ==
  ASSUME Typed, JournalInv, Busy
  PROVE  JournalInv'
<1> DEFINE r == Entry("queued", "waiting")
<1>1. /\ pc = "sending" /\ attempt.msg \in Msgs /\ Journal \in Journals /\ Journal.rec = rec
      /\ r \in Record /\ r.state = "queued" /\ UNCHANGED << admitted, delivered, dropped >>
  BY WrittenType DEF Busy, Waits, Typed, QueueOK, JournalOK, Entry, Journal, provider
<1> HIDE DEF r
<1>2. CASE Fails(r)
  BY <1>1, <1>2, JournalFails
<1>3. CASE Mine.state = "submitting" /\ Save(Put(Journal, attempt.msg, r)) /\ pc' = "replying" /\ attempt' = attempt
  <2>1. Journal' = Put(Journal, attempt.msg, r)
    BY <1>1, <1>3, PutType, SaveType
  <2>2. Sound(Put(Journal, attempt.msg, r), "replying", attempt.msg, admitted, delivered, dropped)
    BY <1>1, <1>3, SoundAgain DEF JournalInv, Mine
  <2> QED BY <1>1, <1>3, <2>1, <2>2 DEF JournalInv
<1> QED BY <1>2, <1>3 DEF Busy, r

LEMMA JournalReplied ==
  ASSUME Typed, JournalInv, Replied
  PROVE  JournalInv'
<1> DEFINE r == Entry("queued", "waiting")
           m == attempt.msg
<1>1. /\ pc = "replying" /\ m \in Msgs /\ Journal \in Journals /\ Journal.rec = rec
      /\ r \in Record /\ r.state = "queued" /\ r.why = "waiting" /\ UNCHANGED << admitted, delivered, dropped >>
      /\ attempt.msg \in Msgs
  BY WrittenType DEF Replied, Waits, Typed, QueueOK, JournalOK, Entry, Journal
<1>2. \E j \in { Journal, Put(Journal, m, r) } : Save(j) /\ Ends(j)
  BY DEF Replied
<1>3. Sound(Journal, "replying", m, admitted, delivered, dropped)
  BY <1>1 DEF JournalInv
<1> HIDE DEF r, m
<1>4. \A x \in Msgs : Journal.rec[x].state # "submitting"
  BY <1>3 DEF Sound, AttemptInv
<1>5. CASE Save(Journal) /\ Ends(Journal)
  <2>1. Journal' = Journal /\ pc' = "idle"
    BY <1>1, <1>5, SaveType DEF Ends
  <2>2. Sound(Journal, "idle", attempt'.msg, admitted, delivered, dropped)
    BY <1>1, <1>3, <1>4, SoundAtEnd
  <2> QED BY <1>1, <2>1, <2>2 DEF JournalInv
<1>6. CASE Save(Put(Journal, m, r)) /\ Ends(Put(Journal, m, r))
  <2> DEFINE k == Put(Journal, m, r)
  <2>1. k \in Journals /\ Journal' = k /\ pc' = "idle"
    BY <1>1, <1>6, PutType, SaveType DEF Ends
  <2>2. /\ Listed(k)
        /\ \A y \in Msgs \ {m} : k.rec[y] = Journal.rec[y]
        /\ k.rec[m] = IF Journal.rec[m].state = "cancelled" THEN Journal.rec[m] ELSE r
        /\ \A y, z \in Msgs : Precedes(k.order, y, z) => Precedes(Journal.order, y, z) \/ (z = m /\ ~Pending(Journal.rec[m]))
    BY <1>1, <1>3, PutFacts DEF Sound
  <2>3. Journal.rec[m].state \in { "queued", "cancelled" }
    BY <1>3 DEF Sound, AttemptInv
  <2>4. HonestInv(k, delivered, dropped)
    <3>1. CASE Journal.rec[m].state = "cancelled"
      <4>1. \A y \in Msgs : k.rec[y] = Journal.rec[y]
        BY <2>2, <3>1
      <4> HIDE DEF k
      <4> QED BY <1>3, <4>1 DEF Sound, HonestInv
    <3>2. CASE Journal.rec[m].state = "queued"
      <4>1. ~Contains(delivered, m)
        BY <1>1, <1>3, <3>2, NotDelivered DEF Sound
      <4> QED BY <1>1, <1>3, <4>1, HonestWrite DEF Sound
    <3> QED BY <2>3, <3>1, <3>2
  <2> HIDE DEF k
  <2>5. \A y \in Msgs : k.rec[y].state = Journal.rec[y].state
    BY <1>1, <2>2, <2>3
  <2>6. \A y, z \in Msgs : Live(k.rec[y]) /\ Live(k.rec[z]) /\ Precedes(k.order, y, z) => Precedes(Journal.order, y, z)
    <3>1. Journal.rec[m].state = "cancelled" => ~Live(k.rec[m])
      BY <1>1, <2>5 DEF Live
    <3>2. Journal.rec[m].state = "queued" => Pending(Journal.rec[m])
      BY DEF Pending
    <3> QED BY <2>2, <2>3, <3>1, <3>2
  <2>7. AdmissionInv(k, "idle", attempt'.msg, admitted, delivered) /\ OrderInv(k, "idle", attempt'.msg, admitted, delivered)
    <3>1. AdmissionInv(Journal, "replying", m, admitted, delivered) /\ OrderInv(Journal, "replying", m, admitted, delivered)
      BY <1>3 DEF Sound
    <3> QED BY <1>1, <2>1, <2>5, <2>6, <3>1, Settles
  <2>8. AttemptInv(k, "idle", attempt'.msg)
    BY <1>4, <2>5 DEF AttemptInv
  <2> QED BY <1>1, <2>1, <2>2, <2>4, <2>7, <2>8 DEF JournalInv, Sound
<1> QED BY <1>2, <1>5, <1>6

\* Stop, release and suspension cancel what waits, under the running command.
LEMMA JournalCancelAll ==
  ASSUME Typed, JournalInv, Stop \/ Release \/ Suspend
  PROVE  JournalInv'
<1> DEFINE m == attempt.msg
<1>1. pc' = pc /\ attempt' = attempt /\ UNCHANGED << admitted, delivered, dropped >>
  BY DEF Stop, Release, Suspend, queueVars, provider
<1>2. PICK b \in BOOLEAN : Journal' = CancelAll(b)
  BY CancelTypes
<1> DEFINE k == CancelAll(b)
<1>3. Journal \in Journals /\ Journal.rec = rec /\ k \in Journals /\ (pc # "idle" => m \in Msgs)
  BY CancelAllType DEF Typed, JournalOK, Journal, QueueOK
<1>4. Sound(Journal, pc, m, admitted, delivered, dropped)
  BY DEF JournalInv
<1>5. /\ Listed(k)
      /\ \A x \in Msgs :
           \/ ~Pending(rec[x]) /\ k.rec[x] = rec[x]
           \/ /\ Pending(rec[x]) /\ k.rec[x].state \in { "cancelled", "failed" }
              /\ k.rec[x].why = IF rec[x].state = "submitting" THEN "uncertain" ELSE rec[x].why
              /\ k.rec[x].state = "failed" => rec[x].state = "submitting" /\ ~b
  BY <1>4, CancelAllFacts DEF Sound
<1> HIDE DEF k, m
<1>6. \A x \in Msgs : ~Live(k.rec[x]) /\ (k.rec[x].state = "none" => rec[x].state = "none")
  BY <1>5 DEF Live, Pending
<1>7. AdmissionInv(k, pc, m, admitted, delivered) /\ OrderInv(k, pc, m, admitted, delivered)
  <2>1. AdmissionInv(Journal, pc, m, admitted, delivered) /\ OrderInv(Journal, pc, m, admitted, delivered)
    BY <1>4 DEF Sound
  <2> QED BY <1>3, <1>6, <2>1, Settles
<1>8. AttemptInv(k, pc, m)
  <2>0. AttemptInv(Journal, pc, m)
    BY <1>4 DEF Sound
  <2>1. \A x \in Msgs : k.rec[x].state # "submitting"
    BY <1>6 DEF Live
  <2>2. pc \in { "sending", "answer" } => k.rec[m].state \in { "failed", "cancelled" }
    BY <1>3, <1>5, <2>0 DEF AttemptInv, Pending
  <2>3. pc = "sending" => k.rec[m].why = "uncertain"
    BY <1>3, <1>5, <2>0 DEF AttemptInv, Pending
  <2>4. pc = "replying" => k.rec[m].state = "cancelled"
    BY <1>3, <1>5, <2>0 DEF AttemptInv, Pending
  <2> QED BY <2>1, <2>2, <2>3, <2>4 DEF AttemptInv
<1>9. HonestInv(k, delivered, dropped)
  <2>1. ASSUME NEW x \in Msgs, k.rec[x].state \in { "queued", "failed", "cancelled" }, k.rec[x].why \in { "waiting", "unsent" }
        PROVE  ~Contains(delivered, x) \/ x \in dropped
    <3>1. rec[x].state \in { "queued", "failed", "cancelled" } /\ rec[x].why \in { "waiting", "unsent" }
      BY <1>5, <2>1 DEF Pending
    <3> QED BY <1>3, <1>4, <3>1 DEF Sound, HonestInv
  <2> QED BY <2>1 DEF HonestInv
<1> QED BY <1>1, <1>2, <1>5, <1>7, <1>8, <1>9 DEF JournalInv, Sound, k, m

LEMMA JournalCancel ==
  ASSUME Typed, JournalInv, NEW x \in Msgs, Cancel(x)
  PROVE  JournalInv'
<1> DEFINE r == [rec[x] EXCEPT !.state = "cancelled"]
           m == attempt.msg
<1>1. /\ rec[x].state \in { "queued", "failed" }
      /\ pc' = pc /\ attempt' = attempt /\ UNCHANGED << admitted, delivered, dropped >>
  BY DEF Cancel, provider
<1>2. r \in Record /\ Journal' = Put(Journal, x, r) /\ Journal \in Journals /\ Journal.rec = rec
  BY CancelType DEF Typed, JournalOK, Journal
<1>3. r.state = "cancelled" /\ r.why = rec[x].why
  BY <1>2 DEF Journals, Record
<1>4. Sound(Journal, pc, m, admitted, delivered, dropped) /\ (pc # "idle" => m \in Msgs)
  BY DEF JournalInv, Typed, QueueOK
<1>5. r.why \notin { "waiting", "unsent" } \/ ~Contains(delivered, x) \/ x \in dropped
  BY <1>1, <1>2, <1>3, <1>4 DEF Sound, HonestInv
<1> HIDE DEF r, m
<1>6. AttemptInv(Put(Journal, x, r), pc, m)
  <2> DEFINE k == Put(Journal, x, r)
  <2>1. /\ \A y \in Msgs \ {x} : k.rec[y] = rec[y]
        /\ k.rec[x] = r
    BY <1>1, <1>2, <1>4, PutFacts DEF Sound
  <2>2. AttemptInv(Journal, pc, m)
    BY <1>4 DEF Sound
  <2> HIDE DEF k
  <2>3. \A y \in Msgs : k.rec[y].state = "submitting" => rec[y].state = "submitting"
    BY <1>3, <2>1
  <2>4. pc \in { "sending", "answer" } => k.rec[m].state \in { "submitting", "failed", "cancelled" }
    BY <1>2, <1>3, <1>4, <2>1, <2>2 DEF AttemptInv
  <2>5. pc = "sending" => k.rec[m].state = "submitting" \/ k.rec[m].why = "uncertain"
    <3>1. CASE m = x
      BY <1>1, <1>2, <1>3, <1>4, <2>1, <2>2, <3>1 DEF AttemptInv
    <3>2. CASE m # x
      BY <1>2, <1>4, <2>1, <2>2, <3>2 DEF AttemptInv
    <3> QED BY <3>1, <3>2
  <2>6. pc = "replying" => k.rec[m].state \in { "queued", "cancelled" }
    BY <1>2, <1>3, <1>4, <2>1, <2>2 DEF AttemptInv
  <2>7. \A y \in Msgs : k.rec[y].state = "submitting" => pc \in { "sending", "answer" } /\ m = y
    BY <1>2, <2>2, <2>3 DEF AttemptInv
  <2> QED BY <2>4, <2>5, <2>6, <2>7 DEF AttemptInv, k
<1>7. Sound(Put(Journal, x, r), pc, m, admitted, delivered, dropped)
  BY <1>2, <1>3, <1>4, <1>5, <1>6, SoundSettled
<1> QED BY <1>1, <1>2, <1>7 DEF JournalInv, m

LEMMA JournalStopRuns ==
  ASSUME Typed, JournalInv, StopRuns
  PROVE  JournalInv'
<1>1. pc = "idle" /\ pc' = "idle" /\ UNCHANGED << admitted, delivered >> /\ Journal \in Journals /\ Journal.rec = rec
      /\ Journal.order = order /\ behind \subseteq Msgs
  BY DEF StopRuns, Begins, Ends, Typed, JournalOK, RestOK, Journal
<1>2. Sound(Journal, "idle", attempt.msg, admitted, delivered, dropped)
  BY <1>1 DEF JournalInv
<1>3. CASE Save(Journal) /\ UNCHANGED dropped
  <2>1. Journal' = Journal
    BY <1>1, <1>3, SaveType
  <2>2. \A x \in Msgs : Journal.rec[x].state # "submitting"
    BY <1>2 DEF Sound, AttemptInv
  <2>3. Sound(Journal, "idle", attempt'.msg, admitted, delivered, dropped)
    BY <1>1, <1>2, <2>2, SoundAtEnd
  <2> QED BY <1>1, <1>3, <2>1, <2>3 DEF JournalInv
<1>4. ASSUME NEW steers \in SUBSET behind,
             NEW listed \in SetToSeqs({ x \in steers : rec[x].state # "cancelled" /\ ~Pending(rec[x]) }),
             dropped' = dropped \cup steers, Save(MarkCancelled(steers, listed))
      PROVE  JournalInv'
  <2> DEFINE k == MarkCancelled(steers, listed)
  <2>0. steers \in SUBSET Msgs
    BY <1>1, <1>4
  <2>1. k \in Journals /\ Journal' = k
    BY <1>1, <1>4, <2>0, MarkCancelledType, SaveType
  <2>2. /\ Listed(k)
        /\ \A x \in Msgs : k.rec[x] = rec[x] \/ (x \in steers /\ k.rec[x] = Entry("failed", "unsent"))
        /\ \A y, z \in Msgs : Precedes(k.order, y, z) => Precedes(order, y, z) \/ (z \in steers /\ k.rec[z].state = "failed")
    BY <1>1, <1>2, <1>4, <2>0, MarkCancelledFacts DEF Sound
  <2> HIDE DEF k
  <2>3. Entry("failed", "unsent").state = "failed"
    BY DEF Entry
  <2>4. \A x \in Msgs : /\ Live(k.rec[x]) => k.rec[x].state = rec[x].state
                        /\ k.rec[x].state = "none" => rec[x].state = "none"
    BY <2>2, <2>3 DEF Live
  <2>5. \A y, z \in Msgs : Live(k.rec[y]) /\ Live(k.rec[z]) /\ Precedes(k.order, y, z) => Precedes(order, y, z)
    BY <2>2 DEF Live
  <2>6. AdmissionInv(k, "idle", attempt'.msg, admitted, delivered) /\ OrderInv(k, "idle", attempt'.msg, admitted, delivered)
    <3>1. AdmissionInv(Journal, "idle", attempt.msg, admitted, delivered) /\ OrderInv(Journal, "idle", attempt.msg, admitted, delivered)
      BY <1>2 DEF Sound
    <3> QED BY <1>1, <2>1, <2>4, <2>5, <3>1, Settles
  <2>7. AttemptInv(k, "idle", attempt'.msg)
    <3>1. \A x \in Msgs : rec[x].state # "submitting"
      BY <1>1, <1>2 DEF Sound, AttemptInv
    <3> QED BY <2>2, <2>3, <3>1 DEF AttemptInv
  <2>8. HonestInv(k, delivered, dropped')
    BY <1>1, <1>2, <1>4, <2>2 DEF Sound, HonestInv
  <2> QED BY <1>1, <2>1, <2>2, <2>6, <2>7, <2>8 DEF JournalInv, Sound
<1>5. \/ Save(Journal) /\ UNCHANGED dropped
      \/ \E steers \in SUBSET behind :
           /\ dropped' = dropped \cup steers
           /\ \E listed \in SetToSeqs({ x \in steers : rec[x].state # "cancelled" /\ ~Pending(rec[x]) }) :
                Save(MarkCancelled(steers, listed))
  BY DEF StopRuns
<1> QED BY <1>3, <1>4, <1>5

LEMMA JournalRestart ==
  ASSUME Typed, JournalInv, Restart
  PROVE  JournalInv'
<1>1. pc' = "idle" /\ UNCHANGED << admitted, delivered, dropped >> /\ Journal \in Journals /\ Journal.rec = rec
      /\ Journal.order = order
  BY DEF Restart, Typed, JournalOK, Journal
<1>2. Sound(Journal, pc, attempt.msg, admitted, delivered, dropped)
  BY DEF JournalInv
<1>3. Journal' = Recovered /\ Recovered \in Journals
  BY RestartType DEF Typed, JournalOK
<1>4. /\ Listed(Recovered) /\ Recovered.order = order
      /\ \A x \in Msgs : \/ rec[x].state # "submitting" /\ Recovered.rec[x] = rec[x]
                         \/ rec[x].state = "submitting" /\ Recovered.rec[x] = Entry("failed", "uncertain")
  BY <1>2, RecoveredFacts DEF Sound
<1>5. Entry("failed", "uncertain").state = "failed" /\ Entry("failed", "uncertain").why = "uncertain"
  BY DEF Entry
<1>6. \A x \in Msgs : /\ Recovered.rec[x].state # "submitting"
                      /\ Live(Recovered.rec[x]) => Recovered.rec[x].state = rec[x].state
                      /\ Recovered.rec[x].state = "none" => rec[x].state = "none"
  BY <1>4, <1>5 DEF Live
<1>7. AdmissionInv(Recovered, "idle", attempt'.msg, admitted, delivered) /\ OrderInv(Recovered, "idle", attempt'.msg, admitted, delivered)
  <2>1. AdmissionInv(Journal, pc, attempt.msg, admitted, delivered) /\ OrderInv(Journal, pc, attempt.msg, admitted, delivered)
    BY <1>2 DEF Sound
  <2> QED BY <1>1, <1>3, <1>4, <1>6, <2>1, Settles
<1>8. AttemptInv(Recovered, "idle", attempt'.msg)
  BY <1>6 DEF AttemptInv
<1>9. HonestInv(Recovered, delivered, dropped)
  BY <1>1, <1>2, <1>4, <1>5 DEF Sound, HonestInv
<1> QED BY <1>1, <1>3, <1>4, <1>7, <1>8, <1>9 DEF JournalInv, Sound

LEMMA JournalInit == Init => JournalInv
<1> SUFFICES ASSUME Init PROVE JournalInv
  OBVIOUS
<1>1. /\ Journal.order = << >> /\ admitted = << >> /\ delivered = << >> /\ pc = "idle"
      /\ \A x \in Msgs : Journal.rec[x].state = "none"
  BY DEF Init, Journal, Entry
<1>2. \A x \in Msgs : ~Live(Journal.rec[x]) /\ ~Pending(Journal.rec[x])
  BY <1>1 DEF Live, Pending
<1>3. Listed(Journal)
  BY <1>1, <1>2, EmptyFacts DEF Listed
<1>4. AttemptInv(Journal, pc, attempt.msg)
  BY <1>1 DEF AttemptInv
<1>5. AdmissionInv(Journal, pc, attempt.msg, admitted, delivered)
  BY <1>1, <1>2, EmptyFacts DEF AdmissionInv
<1>6. OrderInv(Journal, pc, attempt.msg, admitted, delivered)
  BY <1>1, <1>2, EmptyFacts DEF OrderInv
<1>7. HonestInv(Journal, delivered, dropped)
  BY <1>1 DEF HonestInv
<1> QED BY <1>3, <1>4, <1>5, <1>6, <1>7 DEF JournalInv, Sound

LEMMA JournalStep ==
  ASSUME Typed, JournalInv, [Next]_vars
  PROVE  JournalInv'
<1>1. CASE QueueInput \/ DrainInput \/ LoadEnds
  BY <1>1, JournalQueueInput, JournalDrainInput, JournalLoadEnds
<1>2. CASE Accepts \/ Submitted \/ Unconfirmed \/ NotSent \/ Rejected \/ Busy \/ Replied
  BY <1>2, JournalAccepts, JournalSubmitted, JournalRefused, JournalBusy, JournalReplied
<1>3. CASE StopRuns
  BY <1>3, JournalStopRuns
<1>4. CASE SendDirectRuns \/ ReleaseRuns
  <2>1. /\ pc = "idle" /\ pc' = "idle" /\ UNCHANGED << admitted, delivered, dropped >> /\ Save(Journal)
        /\ Journal \in Journals
    BY <1>4 DEF SendDirectRuns, ReleaseRuns, Begins, Ends, Typed, JournalOK
  <2>2. Journal' = Journal
    BY <2>1, SaveType
  <2>3. Sound(Journal, "idle", attempt.msg, admitted, delivered, dropped)
    BY <2>1 DEF JournalInv
  <2>4. \A x \in Msgs : Journal.rec[x].state # "submitting"
    BY <2>3 DEF Sound, AttemptInv
  <2>5. Sound(Journal, "idle", attempt'.msg, admitted, delivered, dropped)
    BY <2>1, <2>3, <2>4, SoundAtEnd
  <2> QED BY <2>1, <2>2, <2>5 DEF JournalInv
<1>5. CASE Stop \/ Release \/ Suspend
  BY <1>5, JournalCancelAll
<1>6. CASE \E m \in Msgs : Cancel(m)
  BY <1>6, JournalCancel
<1>7. CASE Restart
  BY <1>7, JournalRestart
<1>8. CASE TimerFires \/ SendDirect \/ \E request \in posting : Admit(request)
  <2>1. UNCHANGED << rec, order, pc, attempt, admitted, delivered, dropped >>
    BY <1>8 DEF TimerFires, SendDirect, Admit, journal, provider
  <2> QED BY <2>1 DEF JournalInv, Journal
<1>9. CASE Sleep \/ Resume \/ ConnectionLost \/ TurnEnds \/ UNCHANGED vars \/ \E m \in Msgs : Post(m)
  <2>1. UNCHANGED << rec, order, pc, attempt, admitted, delivered, dropped >>
    BY <1>9, AsideTypes
  <2> QED BY <2>1 DEF JournalInv, Journal
<1> QED BY <1>1, <1>2, <1>3, <1>4, <1>5, <1>6, <1>7, <1>8, <1>9 DEF Next, LockStep, PersonStep, SessionStep

-----------------------------------------------------------------------------
(* No lost wakeup.                                                         *)

\* A command that delivers looks again for something to deliver.
LEMMA EndsDriven ==
  ASSUME QueueOK, DrivenInv, lock # << >>, Running.cmd \in { "queue", "drain" },
         NEW j \in Journals, Journal' = j, Ends(j)
  PROVE  DrivenInv'
<1>1. /\ timer' \in { "off", "armed", "running" } /\ pc' = "idle"
      /\ \A i \in 1..Len(lock) : i = 1 \/ (i - 1 \in 1..Len(lock') /\ lock'[i - 1] = lock[i])
  BY EndsFacts
<1>2. CASE Running.cmd = "drain"
  <2>1. timer' = Scheduled(j, "off")
    BY <1>2 DEF Ends
  <2>2. timer' # "running" /\ (Ready(j) => timer' # "off")
    BY <2>1 DEF Scheduled
  <2>3. Ready(Journal') => timer' # "off"
    BY <2>2
  <2> QED BY <2>2, <2>3 DEF DrivenInv
<1>3. CASE Running.cmd = "queue"
  <2>1. timer' = Scheduled(j, timer)
    BY <1>3 DEF Ends
  <2>2. (Ready(j) => timer' # "off") /\ (timer' = "running" => timer = "running")
    BY <2>1 DEF Scheduled
  <2>3. ASSUME timer' = "running" PROVE \E i \in 1..Len(lock') : lock'[i].cmd = "drain"
    <3>1. PICK i \in 1..Len(lock) : lock[i].cmd = "drain"
      BY <2>2, <2>3 DEF DrivenInv
    <3>2. i # 1
      BY <1>3, <3>1 DEF Running, QueueOK
    <3> QED BY <1>1, <3>1, <3>2
  <2>4. Ready(Journal') => timer' # "off"
    BY <2>2
  <2> QED BY <2>3, <2>4 DEF DrivenInv
<1> QED BY <1>2, <1>3

\* A command that does not deliver leaves the timer to whoever set it.
LEMMA LeavesDriven ==
  ASSUME QueueOK, DrivenInv, pc = "idle", lock # << >>, Running.cmd # "drain",
         lock' = Tail(lock), UNCHANGED timer, Ready(Journal') => Ready(Journal)
  PROVE  DrivenInv'
<1>1. /\ Len(lock') = Len(lock) - 1 /\ Len(lock) \in Nat
      /\ \A i \in 1..Len(lock') : lock'[i] = lock[i + 1]
  BY HeadTailProperties DEF QueueOK
<1>2. ASSUME timer' = "running" PROVE \E i \in 1..Len(lock') : lock'[i].cmd = "drain"
  <2>1. PICK i \in 1..Len(lock) : lock[i].cmd = "drain"
    BY <1>2 DEF DrivenInv
  <2>2. i # 1
    BY <2>1 DEF Running, QueueOK
  <2>3. i - 1 \in 1..Len(lock') /\ (i - 1) + 1 = i
    BY <1>1, <2>2
  <2> QED BY <1>1, <2>1, <2>3
<1>3. Ready(Journal') => timer' # "off"
  BY DEF DrivenInv
<1> QED BY <1>2, <1>3 DEF DrivenInv

\* A command that goes on.
LEMMA GoesOnDriven ==
  ASSUME DrivenInv, pc' # "idle", UNCHANGED << lock, timer >>
  PROVE  DrivenInv'
  BY DEF DrivenInv

LEMMA DrainDriven ==
  ASSUME Typed, DrivenInv, NEW j \in Journals, lock # << >>, Running.cmd \in { "queue", "drain" }, DrainBegins(j)
  PROVE  DrivenInv'
<1>1. QueueOK /\ rev \in Nat
  BY DEF Typed, JournalOK
<1>2. CASE Journal' = j /\ Ends(j)
  BY <1>1, <1>2, EndsDriven
<1>3. CASE Head(j.order) \in Msgs /\ Journal' = Deferred(j, Head(j.order)) /\ Ends(Deferred(j, Head(j.order)))
  BY <1>1, <1>3, EndsDriven, DeferredType
<1>4. CASE UNCHANGED << lock, timer >> /\ pc' \in { "loading", "sending" }
  BY <1>4, GoesOnDriven
<1> QED BY <1>1, <1>2, <1>3, <1>4, DrainCases

LEMMA QueueInputDriven ==
  ASSUME Typed, JournalInv, DrivenInv, QueueInput
  PROVE  DrivenInv'
<1> DEFINE m == Running.msg
<1>1. /\ pc = "idle" /\ lock # << >> /\ Running.cmd = "queue" /\ m \in Msgs
      /\ Taken(m, TRUE) \in Journals /\ Taken(m, FALSE) \in Journals
      /\ \/ /\ Journal' \in { Journal, Taken(m, TRUE) }
            /\ lock' = Tail(lock) /\ UNCHANGED timer
         \/ DrainBegins(Taken(m, FALSE))
  BY QueueInputCases
<1>2. CASE DrainBegins(Taken(m, FALSE))
  BY <1>1, <1>2, DrainDriven
<1>3. CASE Journal' \in { Journal, Taken(m, TRUE) } /\ lock' = Tail(lock) /\ UNCHANGED timer
  <2>0. Journal \in Journals /\ Journal.rec = rec /\ Journal.order = order
    BY DEF Typed, JournalOK, Journal
  <2>1. Ready(Taken(m, TRUE)) => Ready(Journal)
    <3>1. CASE rec[m].state # "none"
      BY <3>1 DEF Taken
    <3>2. CASE rec[m].state = "none"
      <4> DEFINE r == Entry("cancelled", "unsent")
                 k == Put(Journal, m, r)
      <4>1. Taken(m, TRUE) = k /\ r \in Record /\ ~Pending(r) /\ r.state = "cancelled" /\ ~Pending(rec[m])
        BY <3>2, WrittenType DEF Taken, Entry, Pending
      <4> HIDE DEF r
      <4>2. /\ \A y \in Msgs \ {m} : k.rec[y] = rec[y]
            /\ k.rec[m] = IF rec[m].state = "cancelled" THEN rec[m] ELSE r
            /\ k.order = order
        BY <1>1, <2>0, <4>1, PutFacts DEF JournalInv, Sound
      <4> HIDE DEF k
      <4>3. order # << >> => Head(order) \in Msgs
        BY <2>0 DEF Journals
      <4>4. Ready(k) => Ready(Journal)
        BY <2>0, <3>2, <4>1, <4>2, <4>3 DEF Ready
      <4> QED BY <4>1, <4>4
    <3> QED BY <3>1, <3>2
  <2>2. Ready(Journal') => Ready(Journal)
    <3>1. CASE Journal' = Journal
      BY <3>1
    <3>2. CASE Journal' = Taken(m, TRUE)
      BY <2>1, <3>2
    <3> QED BY <1>3, <3>1, <3>2
  <2> QED BY <1>1, <1>3, <2>2, LeavesDriven DEF Typed
<1> QED BY <1>1, <1>2, <1>3

LEMMA LockStepDriven ==
  ASSUME Typed, JournalInv, DrivenInv,
         \/ DrainInput \/ LoadEnds
         \/ Accepts \/ Submitted \/ Unconfirmed \/ NotSent \/ Rejected \/ Busy \/ Replied
  PROVE  DrivenInv'
<1>0. QueueOK /\ Journal \in Journals /\ JournalOK'
  BY TypeStep DEF Typed, JournalOK, Next, LockStep
<1>1. CASE DrainInput
  BY <1>0, <1>1, DrainDriven DEF DrainInput, Begins
<1>2. pc # "idle" => lock # << >> /\ Running.cmd \in { "queue", "drain" } /\ attempt.msg \in Msgs
  BY <1>0 DEF QueueOK
<1>3. CASE LoadEnds
  <2>1. pc = "loading" /\ (Resumes(TRUE) \/ Resumes(FALSE))
    BY <1>3 DEF LoadEnds, Waits
  <2>2. \/ pc' = "sending" /\ UNCHANGED << lock, timer >>
        \/ Journal' = Deferred(Journal, attempt.msg) /\ Ends(Deferred(Journal, attempt.msg))
    BY <2>1, ResumesCases
  <2>3. Deferred(Journal, attempt.msg) \in Journals
    BY <1>0, <1>2, <2>1, DeferredType
  <2> QED BY <1>0, <1>2, <2>1, <2>2, <2>3, GoesOnDriven, EndsDriven
<1>4. CASE Accepts
  BY <1>4, GoesOnDriven DEF Accepts
<1>5. CASE Submitted
  <2>1. pc = "answer" /\ Save(Put(Journal, attempt.msg, Entry("submitted", "sent"))) /\ Ends(Put(Journal, attempt.msg, Entry("submitted", "sent")))
    BY <1>5 DEF Submitted, Waits
  <2>2. Put(Journal, attempt.msg, Entry("submitted", "sent")) \in Journals
    BY <1>0, <1>2, <2>1, PutType, WrittenType
  <2> QED BY <1>0, <1>2, <2>1, <2>2, SaveType, EndsDriven
<1>6. ASSUME pc # "idle", NEW r \in Record, Fails(r) PROVE DrivenInv'
  <2>1. PICK j \in Journals : Journal' = j /\ Ends(j)
    BY <1>0, <1>2, <1>6, FailsCases
  <2> QED BY <1>0, <1>2, <1>6, <2>1, EndsDriven
<1>7. CASE Unconfirmed \/ NotSent \/ Rejected
  <2>1. pc # "idle" /\ \E r \in Record : Fails(r)
    BY <1>7, WrittenType DEF Unconfirmed, NotSent, Rejected, Waits
  <2> QED BY <1>6, <2>1
<1>8. CASE Busy
  <2>1. pc # "idle" /\ (Fails(Entry("queued", "waiting")) \/ (pc' = "replying" /\ UNCHANGED << lock, timer >>))
    BY <1>8 DEF Busy, Waits
  <2> QED BY <1>6, <2>1, WrittenType, GoesOnDriven
<1>9. CASE Replied
  <2>1. pc # "idle" /\ \E j \in { Journal, Put(Journal, attempt.msg, Entry("queued", "waiting")) } : Save(j) /\ Ends(j)
    BY <1>9 DEF Replied, Waits
  <2>2. Put(Journal, attempt.msg, Entry("queued", "waiting")) \in Journals
    BY <1>0, <1>2, <2>1, PutType, WrittenType
  <2> QED BY <1>0, <1>2, <2>1, <2>2, SaveType, EndsDriven
<1> QED BY <1>1, <1>3, <1>4, <1>5, <1>7, <1>8, <1>9

\* The head is one that no cancellation or Stop leaves ready by itself.
LEMMA NotReady ==
  ASSUME Typed, JournalInv, NEW b \in BOOLEAN
  PROVE  ~Ready(CancelAll(b))
<1>1. /\ Listed(CancelAll(b)) /\ CancelAll(b) \in Journals
      /\ \A x \in Msgs : \/ ~Pending(rec[x]) /\ CancelAll(b).rec[x] = rec[x]
                         \/ CancelAll(b).rec[x].state \in { "cancelled", "failed" }
  BY CancelAllFacts, CancelAllType DEF JournalInv, Sound, Typed, JournalOK
<1>2. \A x \in Msgs : CancelAll(b).rec[x].state # "queued"
  BY <1>1 DEF Pending
<1>3. CancelAll(b).order # << >> => Head(CancelAll(b).order) \in Msgs
  BY <1>1 DEF Journals
<1> QED BY <1>2, <1>3 DEF Ready

LEMMA StopRunsDriven ==
  ASSUME Typed, JournalInv, DrivenInv, StopRuns
  PROVE  DrivenInv'
<1>1. /\ pc = "idle" /\ lock # << >> /\ Running.cmd = "stop" /\ QueueOK /\ Journal \in Journals
      /\ Journal.rec = rec /\ Journal.order = order /\ behind \subseteq Msgs /\ order \in Seq(Msgs)
  BY DEF StopRuns, Begins, Typed, JournalOK, Journal, RestOK, Journals
<1>2. ASSUME NEW j, Ends(j) PROVE lock' = Tail(lock) /\ UNCHANGED timer
  BY <1>1, <1>2 DEF Ends
<1>3. CASE Save(Journal) /\ Ends(Journal)
  <2>1. Journal' = Journal
    BY <1>1, <1>3, SaveType
  <2> QED BY <1>1, <1>2, <1>3, <2>1, LeavesDriven
<1>4. ASSUME NEW steers \in SUBSET behind,
             NEW listed \in SetToSeqs({ x \in steers : rec[x].state # "cancelled" /\ ~Pending(rec[x]) }),
             Save(MarkCancelled(steers, listed)), Ends(MarkCancelled(steers, listed))
      PROVE  DrivenInv'
  <2> DEFINE k == MarkCancelled(steers, listed)
  <2>0. steers \in SUBSET Msgs
    BY <1>1, <1>4
  <2>1. k \in Journals /\ Journal' = k
    BY <1>1, <1>4, <2>0, MarkCancelledType, SaveType
  <2>2. /\ \A x \in Msgs : k.rec[x] = rec[x] \/ (x \in steers /\ k.rec[x] = Entry("failed", "unsent"))
        /\ order # << >> => Head(k.order) = Head(order)
        /\ order = << >> => k.order = listed
        /\ \A x \in Msgs : Contains(listed, x) => k.rec[x].state = "failed"
        /\ listed \in Seq(Msgs)
    BY <1>1, <1>4, <2>0, MarkCancelledFacts DEF JournalInv, Sound
  <2> HIDE DEF k
  <2>3. Entry("failed", "unsent").state = "failed"
    BY DEF Entry
  <2>4. CASE order = << >>
    <3>1. listed # << >> => Head(listed) \in Msgs /\ Contains(listed, Head(listed))
      BY <2>2, HeadFacts
    <3>2. ~Ready(k)
      BY <2>2, <2>4, <3>1 DEF Ready
    <3> QED BY <1>1, <1>2, <1>4, <2>1, <3>2, LeavesDriven
  <2>5. CASE order # << >>
    <3>1. Head(order) \in Msgs
      BY <1>1, <2>5
    <3>2. Ready(k) => Ready(Journal)
      BY <1>1, <2>2, <2>3, <2>5, <3>1 DEF Ready
    <3> QED BY <1>1, <1>2, <1>4, <2>1, <3>2, LeavesDriven
  <2> QED BY <2>4, <2>5
<1> QED BY <1>3, <1>4 DEF StopRuns

LEMMA DrivenStep ==
  ASSUME Typed, JournalInv, DrivenInv, [Next]_vars
  PROVE  DrivenInv'
<1>0. QueueOK /\ Journal \in Journals
  BY DEF Typed, JournalOK
<1>1. CASE QueueInput
  BY <1>1, QueueInputDriven
<1>2. CASE \/ DrainInput \/ LoadEnds
           \/ Accepts \/ Submitted \/ Unconfirmed \/ NotSent \/ Rejected \/ Busy \/ Replied
  BY <1>2, LockStepDriven
<1>3. CASE StopRuns
  BY <1>3, StopRunsDriven
<1>4. CASE SendDirectRuns \/ ReleaseRuns
  <2>1. /\ pc = "idle" /\ lock # << >> /\ Running.cmd \in { "send", "release" }
        /\ Save(Journal) /\ Ends(Journal)
    BY <1>4 DEF SendDirectRuns, ReleaseRuns, Begins
  <2>2. Journal' = Journal /\ lock' = Tail(lock) /\ UNCHANGED timer
    BY <1>0, <2>1, SaveType DEF Ends
  <2> QED BY <1>0, <2>1, <2>2, LeavesDriven
<1>5. CASE Stop \/ Release \/ Suspend
  <2>1. PICK b \in BOOLEAN : Journal' = CancelAll(b)
    BY <1>5, CancelTypes
  <2>2. ~Ready(Journal')
    BY <2>1, NotReady
  <2>3. timer' = timer /\ \E c \in Command : lock' = lock \/ lock' = Append(lock, c)
    BY <1>5, CmdType DEF Stop, Release, Suspend, queueVars
  <2>4. (\E i \in 1..Len(lock) : lock[i].cmd = "drain") => \E i \in 1..Len(lock') : lock'[i].cmd = "drain"
    <3>1. PICK c \in Command : lock' = lock \/ lock' = Append(lock, c)
      BY <2>3
    <3>2. CASE lock' = Append(lock, c)
      <4>1. Len(lock') = Len(lock) + 1 /\ Len(lock) \in Nat /\ \A i \in 1..Len(lock) : lock'[i] = lock[i]
        BY <1>0, <3>1, <3>2 DEF QueueOK
      <4> QED BY <4>1
    <3> QED BY <3>1, <3>2
  <2> QED BY <2>2, <2>3, <2>4 DEF DrivenInv
<1>6. ASSUME NEW m \in Msgs, Cancel(m) PROVE DrivenInv'
  <2> DEFINE k == Put(Journal, m, [rec[m] EXCEPT !.state = "cancelled"])
  <2>1. Journal' = k /\ timer' = Scheduled(k, timer) /\ UNCHANGED lock
    BY <1>6, CancelType DEF Cancel
  <2> HIDE DEF k
  <2>2. (Ready(k) => timer' # "off") /\ (timer' = "running" => timer = "running")
    BY <2>1 DEF Scheduled
  <2>3. Ready(Journal') => timer' # "off"
    BY <2>1, <2>2
  <2> QED BY <2>1, <2>2, <2>3 DEF DrivenInv
<1>7. CASE Restart
  <2>1. Journal' = Recovered /\ timer' = Scheduled(Recovered, "off")
    BY <1>7, RestartType DEF Restart, Recovered
  <2>2. timer' # "running" /\ (Ready(Recovered) => timer' # "off")
    BY <2>1 DEF Scheduled
  <2>3. Ready(Journal') => timer' # "off"
    BY <2>1, <2>2
  <2> QED BY <2>2, <2>3 DEF DrivenInv
<1>8. CASE TimerFires
  <2>1. timer' = "running" /\ lock' = Append(lock, Cmd("drain", NoMsg, 0))
    BY <1>8 DEF TimerFires
  <2>2. Cmd("drain", NoMsg, 0) \in Command /\ Cmd("drain", NoMsg, 0).cmd = "drain"
    BY CmdType
  <2>3. Len(lock') \in 1..Len(lock') /\ lock'[Len(lock')] = Cmd("drain", NoMsg, 0)
    BY <1>0, <2>1, <2>2 DEF QueueOK
  <2> QED BY <2>1, <2>2, <2>3 DEF DrivenInv
<1>9. CASE SendDirect \/ \E request \in posting : Admit(request)
  <2>1. UNCHANGED << rec, order, pc, timer >> /\ \E c \in Command : lock' = Append(lock, c)
    <3>1. CASE SendDirect
      BY <3>1, CmdType DEF SendDirect
    <3>2. ASSUME NEW request \in posting, Admit(request) PROVE UNCHANGED << rec, order, pc, timer >> /\ \E c \in Command : lock' = Append(lock, c)
      <4>1. request.msg \in Msgs /\ request.rev \in Nat
        BY DEF Typed, RestOK
      <4> QED BY <3>2, <4>1, CmdType DEF Admit, journal
    <3> QED BY <1>9, <3>1, <3>2
  <2>2. PICK c \in Command : lock' = Append(lock, c)
    BY <2>1
  <2>3. Len(lock') = Len(lock) + 1 /\ Len(lock) \in Nat /\ \A i \in 1..Len(lock) : lock'[i] = lock[i]
    BY <1>0, <2>2 DEF QueueOK
  <2>4. (\E i \in 1..Len(lock) : lock[i].cmd = "drain") => \E i \in 1..Len(lock') : lock'[i].cmd = "drain"
    BY <2>3
  <2>5. Ready(Journal') <=> Ready(Journal)
    BY <2>1 DEF Journal, Ready
  <2> QED BY <2>1, <2>4, <2>5 DEF DrivenInv
<1>10. CASE Sleep \/ Resume \/ ConnectionLost \/ TurnEnds \/ UNCHANGED vars \/ \E m \in Msgs : Post(m)
  <2>1. UNCHANGED << rec, order, pc, lock, timer >>
    BY <1>10, AsideTypes
  <2> QED BY <2>1 DEF DrivenInv, Journal, Ready
<1> QED BY <1>1, <1>2, <1>3, <1>4, <1>5, <1>6, <1>7, <1>8, <1>9, <1>10 DEF Next, LockStep, PersonStep, SessionStep

-----------------------------------------------------------------------------
(* Stop.                                                                   *)

\* A record that is written makes no other message live.
LEMMA PutLive ==
  ASSUME NEW j \in Journals, NEW x \in Msgs, NEW r \in Record, Live(r) => Live(j.rec[x]) \/ j.rec[x].state = "cancelled"
  PROVE  \A y \in Msgs : Live(Put(j, x, r).rec[y]) => Live(j.rec[y])
<1> DEFINE k == Put(j, x, r)
<1>1. j.rec \in [Msgs -> Record]
  BY DEF Journals
<1>2. \/ j.rec[x].state = "cancelled" /\ k.rec = j.rec
      \/ j.rec[x].state # "cancelled" /\ k.rec = [j.rec EXCEPT ![x] = r]
  BY DEF Put
<1> HIDE DEF k
<1>3. \A y \in Msgs : Live(k.rec[y]) => Live(j.rec[y])
  BY <1>1, <1>2
<1> QED BY <1>3 DEF k

LEMMA DeferredLive ==
  ASSUME NEW j \in Journals, NEW x \in Msgs
  PROVE  \A y \in Msgs : Live(Deferred(j, x).rec[y]) => Live(j.rec[y])
<1>1. CASE j.rec[x].state = "queued"
  <2>1. [j.rec[x] EXCEPT !.refused = FALSE] \in Record
    BY EntryType DEF Journals
  <2>2. Live(j.rec[x])
    BY <1>1 DEF Live
  <2> QED BY <1>1, <2>1, <2>2, PutLive DEF Deferred
<1>2. CASE j.rec[x].state # "queued"
  BY <1>2 DEF Deferred
<1> QED BY <1>1, <1>2

\* The command in the lock is over, and nothing that a Stop covers became live.
LEMMA EndsStop ==
  ASSUME QueueOK, StopInv, lock # << >>, lock' = Tail(lock), pc' = "idle", UNCHANGED << rev, posting, bar >>,
         \A x \in bar : Live(rec'[x]) => Live(rec[x])
  PROVE  StopInv'
<1>1. Len(lock') = Len(lock) - 1 /\ Len(lock) \in Nat /\ \A i \in 1..Len(lock') : lock'[i] = lock[i + 1]
  BY HeadTailProperties DEF QueueOK
<1>2. \A i \in 1..Len(lock') : i + 1 \in 1..Len(lock)
  BY <1>1
<1> QED BY <1>1, <1>2 DEF StopInv

\* The command in the lock goes on with the same message, or with one that no Stop covers.
LEMMA GoesOnStop ==
  ASSUME StopInv, UNCHANGED << lock, rev, posting, bar >>,
         \A x \in bar : Live(rec'[x]) => Live(rec[x]),
         \/ pc' \notin { "loading", "sending" }
         \/ pc \in { "loading", "sending" } /\ attempt' = attempt
         \/ attempt'.msg \notin bar
  PROVE  StopInv'
  BY DEF StopInv

LEMMA DrainStop ==
  ASSUME Typed, StopInv, NEW j \in Journals, lock # << >>, DrainBegins(j), UNCHANGED << rev, posting, bar >>,
         \A x \in bar : ~Live(j.rec[x])
  PROVE  StopInv'
<1>0. QueueOK /\ rev \in Nat /\ bar \subseteq Msgs /\ Journal'.rec = rec'
  BY DEF Typed, JournalOK, RestOK, Journal
<1>1. CASE Journal' = j /\ Ends(j)
  <2>1. \A x \in bar : ~Live(rec'[x])
    BY <1>0, <1>1
  <2> QED BY <1>0, <1>1, <2>1, EndsStop DEF Ends
<1>2. CASE Head(j.order) \in Msgs /\ Journal' = Deferred(j, Head(j.order)) /\ Ends(Deferred(j, Head(j.order)))
  <2>1. \A x \in bar : ~Live(rec'[x])
    <3>1. \A x \in Msgs : Live(Deferred(j, Head(j.order)).rec[x]) => Live(j.rec[x])
      BY <1>2, DeferredLive
    <3> QED BY <1>0, <1>2, <3>1
  <2> QED BY <1>0, <1>2, <2>1, EndsStop DEF Ends
<1>3. CASE /\ Ready(j) /\ Head(j.order) \in Msgs /\ attempt'.msg = Head(j.order) /\ UNCHANGED lock
           /\ \/ Journal' = j
              \/ Journal' = Put(j, Head(j.order), [j.rec[Head(j.order)] EXCEPT !.state = "submitting"])
  <2> DEFINE h == Head(j.order)
             r == [j.rec[h] EXCEPT !.state = "submitting"]
  <2>1. Live(j.rec[h])
    BY <1>3 DEF Ready, Live
  <2>2. h \notin bar
    BY <2>1
  <2>3. r \in Record
    BY <1>3, EntryType DEF Journals, States
  <2>4. \A x \in Msgs : Live(Put(j, h, r).rec[x]) => Live(j.rec[x])
    BY <1>3, <2>1, <2>3, PutLive
  <2>5. \A x \in bar : ~Live(rec'[x])
    BY <1>0, <1>3, <2>4
  <2> QED BY <1>3, <2>2, <2>5, GoesOnStop
<1> QED BY <1>0, <1>1, <1>2, <1>3, DrainCases

LEMMA QueueInputStop ==
  ASSUME Typed, JournalInv, StopInv, QueueInput
  PROVE  StopInv'
<1> DEFINE m == Running.msg
<1>1. /\ pc = "idle" /\ lock # << >> /\ Running.cmd = "queue" /\ m \in Msgs
      /\ Taken(m, TRUE) \in Journals /\ Taken(m, FALSE) \in Journals
      /\ UNCHANGED << rev, posting, bar >>
      /\ \/ /\ Journal' \in { Journal, Taken(m, TRUE) }
            /\ lock' = Tail(lock) /\ UNCHANGED pc
         \/ Running.rev = rev /\ DrainBegins(Taken(m, FALSE))
  BY QueueInputCases DEF requests
<1>2. QueueOK /\ Journal \in Journals /\ Journal.rec = rec /\ Journal'.rec = rec' /\ bar \subseteq Msgs
  BY DEF Typed, JournalOK, Journal, RestOK
<1>3. \A x \in bar : ~Live(rec[x])
  BY DEF StopInv
<1>4. CASE Journal' \in { Journal, Taken(m, TRUE) } /\ lock' = Tail(lock) /\ UNCHANGED pc
  <2>1. \A x \in Msgs : Live(Taken(m, TRUE).rec[x]) => Live(rec[x])
    <3>1. CASE rec[m].state # "none"
      BY <1>2, <3>1 DEF Taken
    <3>2. CASE rec[m].state = "none"
      <4> DEFINE r == Entry("cancelled", "unsent")
      <4>1. ~Live(r) /\ r \in Record
        BY WrittenType DEF Live, Entry
      <4>2. Taken(m, TRUE) = Put(Journal, m, r)
        BY <3>2 DEF Taken
      <4> HIDE DEF r
      <4>3. \A x \in Msgs : Live(Put(Journal, m, r).rec[x]) => Live(Journal.rec[x])
        BY <1>1, <1>2, <4>1, PutLive
      <4> QED BY <1>2, <4>2, <4>3
    <3> QED BY <3>1, <3>2
  <2>2. \A x \in bar : Live(rec'[x]) => Live(rec[x])
    BY <1>2, <1>4, <2>1
  <2> QED BY <1>1, <1>2, <1>4, <2>2, EndsStop
<1>5. CASE Running.rev = rev /\ DrainBegins(Taken(m, FALSE))
  <2>1. m \notin bar
    <3>1. 1 \in 1..Len(lock) /\ lock[1] = Running
      BY <1>1, <1>2 DEF QueueOK, Running
    <3> QED BY <1>1, <1>5, <3>1 DEF StopInv
  <2>2. \A x \in bar : ~Live(Taken(m, FALSE).rec[x])
    <3>1. CASE rec[m].state # "none"
      BY <1>2, <1>3, <3>1 DEF Taken
    <3>2. CASE rec[m].state = "none"
      <4> DEFINE r == Entry("queued", "waiting")
                 k == Put(Journal, m, r)
      <4>1. Taken(m, FALSE) = k /\ r \in Record
        BY <3>2, WrittenType DEF Taken
      <4>2. \A y \in Msgs \ {m} : k.rec[y] = rec[y]
        BY <1>1, <1>2, <4>1, PutFacts DEF JournalInv, Sound
      <4> HIDE DEF k
      <4> QED BY <1>2, <1>3, <2>1, <4>1, <4>2
    <3> QED BY <3>1, <3>2
  <2> QED BY <1>1, <1>5, <2>2, DrainStop
<1> QED BY <1>1, <1>4, <1>5

LEMMA LockStepStop ==
  ASSUME Typed, JournalInv, StopInv,
         \/ DrainInput \/ LoadEnds
         \/ Accepts \/ Submitted \/ Unconfirmed \/ NotSent \/ Rejected \/ Busy \/ Replied
  PROVE  StopInv'
<1> DEFINE m == attempt.msg
           again == Put(Journal, m, Entry("queued", "waiting"))
<1>0. /\ QueueOK /\ Journal \in Journals /\ Journal.rec = rec /\ Journal'.rec = rec' /\ bar \subseteq Msgs
      /\ pc # "idle" => lock # << >> /\ m \in Msgs
      /\ UNCHANGED << rev, posting, bar >>
  BY DEF Typed, JournalOK, Journal, RestOK, QueueOK, DrainInput, LoadEnds, Accepts, Submitted, Unconfirmed, NotSent,
         Rejected, Busy, Replied, requests, journal
<1>1. \A x \in bar : ~Live(rec[x])
  BY DEF StopInv
<1>a. Sound(Journal, pc, m, admitted, delivered, dropped)
  BY DEF JournalInv
<1>2. CASE DrainInput
  BY <1>0, <1>1, <1>2, DrainStop DEF DrainInput, Begins
<1>3. CASE LoadEnds
  <2>1. pc = "loading" /\ (Resumes(TRUE) \/ Resumes(FALSE))
    BY <1>3 DEF LoadEnds, Waits
  <2> DEFINE r == [rec[m] EXCEPT !.state = "submitting"]
  <2>2. \/ StillOwned /\ Journal' = Put(Journal, m, r) /\ UNCHANGED << lock, attempt >>
        \/ Journal' = Deferred(Journal, m) /\ Ends(Deferred(Journal, m))
    BY <2>1, ResumesCases
  <2>3. r \in Record
    BY <1>0, <2>1, EntryType DEF Journals, States
  <2> HIDE DEF r
  <2>4. CASE StillOwned /\ Journal' = Put(Journal, m, r) /\ UNCHANGED << lock, attempt >>
    <3>1. Live(rec[m])
      BY <2>4 DEF StillOwned, Live
    <3>2. \A x \in Msgs : Live(rec'[x]) => Live(rec[x])
      BY <1>0, <2>1, <2>3, <2>4, <3>1, PutLive
    <3> QED BY <1>0, <2>1, <2>4, <3>2, GoesOnStop
  <2>5. CASE Journal' = Deferred(Journal, m) /\ Ends(Deferred(Journal, m))
    <3>1. \A x \in Msgs : Live(rec'[x]) => Live(rec[x])
      BY <1>0, <2>1, <2>5, DeferredLive
    <3> QED BY <1>0, <2>1, <2>5, <3>1, EndsStop DEF Ends
  <2> QED BY <2>2, <2>4, <2>5
<1>4. CASE Accepts
  <2>1. UNCHANGED << lock, rec >> /\ pc' = "answer"
    BY <1>4 DEF Accepts, journal
  <2> QED BY <1>0, <2>1, GoesOnStop
<1>5. CASE Submitted
  <2> DEFINE r == Entry("submitted", "sent")
  <2>1. pc = "answer" /\ Save(Put(Journal, m, r)) /\ Ends(Put(Journal, m, r)) /\ ~Live(r) /\ r \in Record
    BY <1>5, WrittenType DEF Submitted, Waits, Live, Entry
  <2> HIDE DEF r
  <2>2. Journal' = Put(Journal, m, r)
    BY <1>0, <2>1, PutType, SaveType
  <2>3. \A x \in Msgs : Live(rec'[x]) => Live(rec[x])
    BY <1>0, <2>1, <2>2, PutLive
  <2> QED BY <1>0, <2>1, <2>3, EndsStop DEF Ends
<1>6. ASSUME pc # "idle", NEW r \in Record, Fails(r) PROVE StopInv'
  <2>1. PICK j \in Journals : /\ Journal' = j /\ Ends(j)
                              /\ j = IF Mine.state = "submitting" THEN Put(Journal, m, r) ELSE Journal
    BY <1>0, <1>6, FailsCases
  <2>2. \A x \in Msgs : Live(rec'[x]) => Live(rec[x])
    <3>1. CASE Mine.state = "submitting"
      <4>1. Live(rec[m])
        BY <3>1 DEF Live, Mine
      <4> QED BY <1>0, <1>6, <2>1, <3>1, <4>1, PutLive
    <3>2. CASE Mine.state # "submitting"
      BY <1>0, <2>1, <3>2
    <3> QED BY <3>1, <3>2
  <2> QED BY <1>0, <1>6, <2>1, <2>2, EndsStop DEF Ends
<1>7. CASE Unconfirmed \/ NotSent \/ Rejected
  <2>1. pc # "idle" /\ \E r \in Record : Fails(r)
    BY <1>7, WrittenType DEF Unconfirmed, NotSent, Rejected, Waits
  <2> QED BY <1>6, <2>1
<1>8. CASE Busy
  <2>1. \/ pc # "idle" /\ Fails(Entry("queued", "waiting"))
        \/ /\ pc = "sending" /\ Mine.state = "submitting" /\ Save(again)
           /\ pc' = "replying" /\ UNCHANGED << lock, attempt >>
    BY <1>8 DEF Busy, Waits
  <2>2. CASE /\ pc = "sending" /\ Mine.state = "submitting" /\ Save(again)
             /\ pc' = "replying" /\ UNCHANGED << lock, attempt >>
    <3>1. Live(rec[m]) /\ Journal' = again
      BY <1>0, <2>2, PutType, WrittenType, SaveType DEF Live, Mine
    <3>2. \A x \in Msgs : Live(rec'[x]) => Live(rec[x])
      BY <1>0, <2>2, <3>1, WrittenType, PutLive
    <3> QED BY <1>0, <2>2, <3>2, GoesOnStop
  <2> QED BY <1>6, <2>1, <2>2, WrittenType
<1>9. CASE Replied
  <2>1. pc = "replying" /\ \E j \in { Journal, again } : Save(j) /\ Ends(j)
    BY <1>9 DEF Replied, Waits
  <2>2. Live(rec[m]) \/ rec[m].state = "cancelled"
    BY <1>0, <1>a, <2>1 DEF Sound, AttemptInv, Live
  <2>3. again \in Journals
    BY <1>0, <2>1, PutType, WrittenType
  <2>4. \A x \in Msgs : Live(again.rec[x]) => Live(rec[x])
    BY <1>0, <2>1, <2>2, WrittenType, PutLive
  <2> HIDE DEF again
  <2>5. \A x \in Msgs : Live(rec'[x]) => Live(rec[x])
    BY <1>0, <2>1, <2>3, <2>4, SaveType
  <2> QED BY <1>0, <2>1, <2>5, EndsStop DEF Ends
<1> QED BY <1>2, <1>3, <1>4, <1>5, <1>7, <1>8, <1>9

LEMMA CommandRev == QueueOK => \A i \in 1..Len(lock) : lock[i].rev \in Nat
<1> SUFFICES ASSUME QueueOK, NEW i \in 1..Len(lock) PROVE lock[i].rev \in Nat
  OBVIOUS
<1>1. lock \in Seq(Command)
  BY DEF QueueOK
<1>2. lock[i] \in Command
  BY <1>1, ElementOfSeq
<1> QED BY <1>2 DEF Command

\* A step that adds at most one command to the line, none of them a queue command.
LEMMA JoinsStop ==
  ASSUME QueueOK, StopInv, NEW c \in Command, c.cmd # "queue", lock' = lock \/ lock' = Append(lock, c),
         UNCHANGED << pc, attempt, posting, bar >>, rev \in Nat, rev' \in { rev, rev + 1 },
         posting \subseteq [msg : Msgs, rev : Nat],
         \A x \in bar : Live(rec'[x]) => Live(rec[x])
  PROVE  StopInv'
<1>1. \A i \in 1..Len(lock) : lock[i].rev \in Nat
  BY CommandRev
<1>2. \A i \in 1..Len(lock) : i \in 1..Len(lock') /\ lock'[i] = lock[i]
  <2>1. CASE lock' = lock
    BY <2>1
  <2>2. CASE lock' = Append(lock, c)
    BY <2>2 DEF QueueOK
  <2> QED BY <2>1, <2>2
<1>3. \A i \in 1..Len(lock') : i \in 1..Len(lock) \/ lock'[i] = c
  BY DEF QueueOK
<1>4. \A i \in 1..Len(lock') : lock'[i].cmd = "queue" => i \in 1..Len(lock) /\ lock'[i] = lock[i]
  BY <1>2, <1>3
<1>5. \A q \in posting' : q.rev <= rev' /\ (q.msg \in bar' => q.rev # rev')
  BY DEF StopInv
<1>6. \A i \in 1..Len(lock') : lock'[i].cmd = "queue" =>
        lock'[i].rev <= rev' /\ (lock'[i].msg \in bar' => lock'[i].rev # rev')
  BY <1>1, <1>4 DEF StopInv
<1>7. pc' \in { "loading", "sending" } /\ attempt'.msg \in bar' => \E i \in 1..Len(lock') : lock'[i].cmd = "stop"
  BY <1>2 DEF StopInv
<1> QED BY <1>5, <1>6, <1>7 DEF StopInv

LEMMA StopItself ==
  ASSUME Typed, JournalInv, StopInv, Stop
  PROVE  StopInv'
<1>1. /\ rev' = rev + 1 /\ lock' = Append(lock, Cmd("stop", NoMsg, 0)) /\ UNCHANGED << pc, attempt, posting >>
      /\ rev \in Nat /\ posting \subseteq [msg : Msgs, rev : Nat] /\ lock \in Seq(Command) /\ bar \subseteq Msgs /\ bar' \subseteq Msgs
  BY DEF Stop, Typed, JournalOK, RestOK, QueueOK, requests
<1>2. Cmd("stop", NoMsg, 0) \in Command /\ Cmd("stop", NoMsg, 0).cmd = "stop"
  BY CmdType
<1>3. /\ Len(lock') = Len(lock) + 1 /\ Len(lock) \in Nat /\ lock'[Len(lock')].cmd = "stop"
      /\ \A i \in 1..Len(lock) : lock'[i] = lock[i] /\ lock[i].rev \in Nat
  <2> DEFINE c == Cmd("stop", NoMsg, 0)
  <2>1. lock' = Append(lock, c) /\ c \in Command /\ c.cmd = "stop"
    BY <1>1, <1>2
  <2> HIDE DEF c
  <2>2. Len(lock') = Len(lock) + 1 /\ Len(lock) \in Nat /\ lock'[Len(lock')] = c /\ \A i \in 1..Len(lock) : lock'[i] = lock[i]
    BY <1>1, <2>1
  <2> QED BY <2>1, <2>2, CommandRev DEF Typed
<1>4. \A x \in Msgs : ~Live(rec'[x])
  <2>1. PICK b \in BOOLEAN : Journal' = CancelAll(b)
    BY CancelTypes
  <2>2. \A x \in Msgs : \/ ~Pending(rec[x]) /\ CancelAll(b).rec[x] = rec[x]
                        \/ CancelAll(b).rec[x].state \in { "cancelled", "failed" }
    BY CancelAllFacts DEF JournalInv, Sound
  <2>3. \A x \in Msgs : ~Live(CancelAll(b).rec[x])
    BY <2>2 DEF Live, Pending
  <2> QED BY <2>1, <2>3 DEF Journal
<1>5. \A q \in posting' : q.rev <= rev' /\ q.rev # rev'
  BY <1>1 DEF StopInv
<1>6. \A i \in 1..Len(lock') : lock'[i].cmd = "queue" => lock'[i].rev <= rev' /\ lock'[i].rev # rev'
  <2> SUFFICES ASSUME NEW i \in 1..Len(lock'), lock'[i].cmd = "queue"
               PROVE  lock'[i].rev <= rev' /\ lock'[i].rev # rev'
    OBVIOUS
  <2>1. i \in 1..Len(lock)
    BY <1>3
  <2> QED BY <1>1, <1>3, <2>1 DEF StopInv
<1>7. Len(lock') \in 1..Len(lock')
  BY <1>3
<1> QED BY <1>1, <1>3, <1>4, <1>5, <1>6, <1>7 DEF StopInv

LEMMA AdmitStop ==
  ASSUME Typed, StopInv, NEW request \in posting, Admit(request)
  PROVE  StopInv'
<1> DEFINE c == Cmd("queue", request.msg, request.rev)
<1>1. /\ posting' = posting \ {request} /\ lock' = Append(lock, c) /\ UNCHANGED << pc, attempt, rev, rec, bar >>
      /\ lock \in Seq(Command) /\ request.msg \in Msgs /\ request.rev \in Nat
  BY DEF Admit, Typed, QueueOK, RestOK, journal
<1>2. c \in Command /\ c.msg = request.msg /\ c.rev = request.rev
  BY <1>1, CmdType
<1> HIDE DEF c
<1>3. /\ Len(lock') = Len(lock) + 1 /\ Len(lock) \in Nat /\ lock'[Len(lock')] = c
      /\ \A i \in 1..Len(lock) : lock'[i] = lock[i]
  BY <1>1, <1>2
<1>4. \A i \in 1..Len(lock') : i \in 1..Len(lock) \/ lock'[i] = c
  BY <1>3
<1>5. request.rev <= rev /\ (request.msg \in bar => request.rev # rev)
  BY DEF StopInv
<1>6. \A i \in 1..Len(lock') : lock'[i].cmd = "queue" =>
        lock'[i].rev <= rev' /\ (lock'[i].msg \in bar' => lock'[i].rev # rev')
  <2> TAKE i \in 1..Len(lock')
  <2>1. CASE lock'[i] = c
    BY <1>1, <1>2, <1>5, <2>1
  <2>2. CASE i \in 1..Len(lock)
    BY <1>1, <1>3, <2>2 DEF StopInv
  <2> QED BY <1>4, <2>1, <2>2
<1>7. (\E i \in 1..Len(lock) : lock[i].cmd = "stop") => \E i \in 1..Len(lock') : lock'[i].cmd = "stop"
  BY <1>3
<1> QED BY <1>1, <1>6, <1>7 DEF StopInv

LEMMA PostStop ==
  ASSUME Typed, StopInv, NEW m \in Msgs, Post(m)
  PROVE  StopInv'
<1>1. /\ posting' = posting \cup { [msg |-> m, rev |-> rev] } /\ bar' = bar \ {m}
      /\ UNCHANGED << lock, pc, attempt, rev, rec >> /\ rev \in Nat
  BY DEF Post, journal, queueVars, Typed, JournalOK
<1>2. \A q \in posting' : q.rev <= rev' /\ (q.msg \in bar' => q.rev # rev')
  BY <1>1 DEF StopInv
<1> QED BY <1>1, <1>2 DEF StopInv

LEMMA StopStep ==
  ASSUME Typed, JournalInv, StopInv, [Next]_vars
  PROVE  StopInv'
<1>0. /\ QueueOK /\ Journal \in Journals /\ Journal.rec = rec /\ Journal'.rec = rec' /\ rev \in Nat
      /\ posting \subseteq [msg : Msgs, rev : Nat] /\ bar \subseteq Msgs /\ behind \subseteq Msgs
  BY DEF Typed, JournalOK, Journal, RestOK
<1>c. /\ Cmd("drain", NoMsg, 0) \in Command /\ Cmd("drain", NoMsg, 0).cmd # "queue"
      /\ Cmd("send", NoMsg, 0) \in Command /\ Cmd("send", NoMsg, 0).cmd # "queue"
      /\ Cmd("release", NoMsg, 0) \in Command /\ Cmd("release", NoMsg, 0).cmd # "queue"
  BY CmdType
<1>1. CASE QueueInput
  BY <1>1, QueueInputStop
<1>2. CASE \/ DrainInput \/ LoadEnds
           \/ Accepts \/ Submitted \/ Unconfirmed \/ NotSent \/ Rejected \/ Busy \/ Replied
  BY <1>2, LockStepStop
<1>3. CASE StopRuns
  <2>1. /\ lock # << >> /\ UNCHANGED << rev, posting, bar >> /\ lock' = Tail(lock) /\ pc' = "idle"
        /\ Save(Journal) \/ \E steers \in SUBSET behind :
             \E listed \in SetToSeqs({ x \in steers : rec[x].state # "cancelled" /\ ~Pending(rec[x]) }) :
               Save(MarkCancelled(steers, listed))
    BY <1>3 DEF StopRuns, Begins, Ends, requests
  <2>2. CASE Save(Journal)
    <3>1. rec' = rec
      BY <2>2 DEF Save, Journal
    <3> QED BY <1>0, <2>1, <3>1, EndsStop
  <2>3. ASSUME NEW steers \in SUBSET behind,
               NEW listed \in SetToSeqs({ x \in steers : rec[x].state # "cancelled" /\ ~Pending(rec[x]) }),
               Save(MarkCancelled(steers, listed))
        PROVE  StopInv'
    <3>1. rec' = [x \in Msgs |-> IF x \in steers /\ rec[x].state # "cancelled" THEN Entry("failed", "unsent") ELSE rec[x]]
      BY <2>3 DEF Save, MarkCancelled
    <3>2. \A x \in Msgs : Live(rec'[x]) => Live(rec[x])
      BY <3>1 DEF Live, Entry
    <3> QED BY <1>0, <2>1, <3>2, EndsStop
  <2> QED BY <2>1, <2>2, <2>3
<1>4. CASE SendDirectRuns \/ ReleaseRuns
  <2>1. /\ lock # << >> /\ UNCHANGED << rev, posting, bar >> /\ lock' = Tail(lock) /\ pc' = "idle" /\ rec' = rec
    BY <1>4 DEF SendDirectRuns, ReleaseRuns, Begins, Ends, requests, Save, Journal
  <2> QED BY <1>0, <2>1, EndsStop
<1>5. CASE Stop
  BY <1>5, StopItself
<1>6. CASE Release \/ Suspend
  <2>1. PICK b \in BOOLEAN : Journal' = CancelAll(b)
    BY <1>6, CancelTypes
  <2>2. \A x \in Msgs : \/ ~Pending(rec[x]) /\ CancelAll(b).rec[x] = rec[x]
                        \/ CancelAll(b).rec[x].state \in { "cancelled", "failed" }
    BY CancelAllFacts DEF JournalInv, Sound
  <2>3. \A x \in Msgs : ~Live(CancelAll(b).rec[x])
    BY <2>2 DEF Live, Pending
  <2>4. \A x \in bar : ~Live(rec'[x])
    BY <1>0, <2>1, <2>3
  <2>5. UNCHANGED << rev, pc, attempt, posting, bar >> /\ (lock' = lock \/ lock' = Append(lock, Cmd("release", NoMsg, 0)))
    BY <1>6 DEF Release, Suspend, queueVars, requests
  <2> QED BY <1>0, <1>c, <2>4, <2>5, JoinsStop
<1>7. ASSUME NEW m \in Msgs, Cancel(m) PROVE StopInv'
  <2> DEFINE r == [rec[m] EXCEPT !.state = "cancelled"]
  <2>1. r \in Record /\ Journal' = Put(Journal, m, r) /\ UNCHANGED << lock, pc, attempt, rev, posting, bar >>
    BY <1>7, CancelType DEF Cancel, requests
  <2>2. ~Live(r)
    BY <1>0 DEF Journals, Record, Live
  <2> HIDE DEF r
  <2>3. \A x \in Msgs : Live(rec'[x]) => Live(rec[x])
    BY <1>0, <2>1, <2>2, PutLive
  <2> QED BY <1>0, <1>c, <2>1, <2>3, JoinsStop
<1>8. CASE Restart
  <2>1. /\ lock' = << >> /\ pc' = "idle" /\ posting' = {} /\ UNCHANGED << rev, bar >>
        /\ rec' = [m \in Msgs |-> IF rec[m].state = "submitting" THEN Entry("failed", "uncertain") ELSE rec[m]]
    BY <1>8 DEF Restart, Save
  <2>2. \A x \in Msgs : Live(rec'[x]) => Live(rec[x])
    BY <2>1 DEF Live, Entry
  <2>3. 1..Len(lock') = {}
    BY <2>1
  <2> QED BY <1>0, <2>1, <2>2, <2>3 DEF StopInv
<1>9. CASE TimerFires \/ SendDirect
  <2>1. /\ UNCHANGED << rec, pc, attempt, posting, bar >> /\ rev' \in { rev, rev + 1 }
        /\ lock' = Append(lock, Cmd("drain", NoMsg, 0)) \/ lock' = Append(lock, Cmd("send", NoMsg, 0))
    BY <1>9 DEF TimerFires, SendDirect, journal, requests
  <2> QED BY <1>0, <1>c, <2>1, JoinsStop
<1>10. ASSUME NEW request \in posting, Admit(request) PROVE StopInv'
  BY <1>10, AdmitStop
<1>11. ASSUME NEW m \in Msgs, Post(m) PROVE StopInv'
  BY <1>11, PostStop
<1>12. CASE Sleep \/ Resume \/ ConnectionLost \/ TurnEnds \/ UNCHANGED vars
  <2>1. UNCHANGED << rec, lock, pc, attempt, rev, posting, bar >>
    BY <1>12 DEF Sleep, Resume, ConnectionLost, TurnEnds, vars, journal, queueVars, requests
  <2> QED BY <2>1 DEF StopInv
<1> QED BY <1>1, <1>2, <1>3, <1>4, <1>5, <1>6, <1>7, <1>8, <1>9, <1>10, <1>11, <1>12
        DEF Next, LockStep, PersonStep, SessionStep

-----------------------------------------------------------------------------
(* The theorems.                                                           *)

IInv == Typed /\ JournalInv /\ DrivenInv /\ StopInv

LEMMA IInvInit == Init => IInv
<1> SUFFICES ASSUME Init PROVE IInv
  OBVIOUS
<1>1. Typed /\ JournalInv
  BY TypeInit, JournalInit
<1>2. DrivenInv
  BY DEF Init, DrivenInv, Ready, Journal
<1>3. StopInv
  <2>1. bar = {} /\ posting = {} /\ pc = "idle" /\ 1..Len(lock) = {}
    BY DEF Init
  <2> QED BY <2>1 DEF StopInv
<1> QED BY <1>1, <1>2, <1>3 DEF IInv

LEMMA IInvStep == IInv /\ [Next]_vars => IInv'
  BY TypeStep, JournalStep, DrivenStep, StopStep DEF IInv

LEMMA IInvAlways == Spec => []IInv
  BY IInvInit, IInvStep, PTL DEF Spec

\* The journal does not mislead: a message that it reports as waiting or as not sent never
\* reached the provider, except as a steer that the provider gave back.
THEOREM JournalIsHonest == Spec => []HonestJournal
<1>1. IInv => HonestJournal
  <2> SUFFICES ASSUME IInv,
                      NEW m \in Msgs,
                      rec[m].state \in { "queued", "failed", "cancelled" },
                      rec[m].why \in { "waiting", "unsent" }
               PROVE  m \notin Delivered \/ m \in dropped
    BY DEF HonestJournal
  <2>1. HonestInv(Journal, delivered, dropped) /\ Journal.rec = rec
    BY DEF IInv, JournalInv, Sound, Journal
  <2>2. ~Contains(delivered, m) \/ m \in dropped
    BY <2>1 DEF HonestInv
  <2> QED BY <2>2 DEF Contains, Delivered
<1> QED BY <1>1, IInvAlways, PTL

\* A message is delivered at most once, and messages are delivered in the order in which
\* they were queued, whatever is retried, steered, stopped, cancelled or restarted.
THEOREM DeliveryInOrder == Spec => []DeliveredOnceInOrder
<1>1. IInv => DeliveredOnceInOrder
  <2> SUFFICES ASSUME IInv, NEW i \in 1..Len(delivered), NEW j \in 1..Len(delivered), i < j
               PROVE  \E p, q \in 1..Len(admitted) : p < q /\ admitted[p] = delivered[i] /\ admitted[q] = delivered[j]
    BY DEF DeliveredOnceInOrder
  <2>1. delivered[i] \in Msgs /\ delivered[j] \in Msgs
    BY DEF IInv, Typed, RestOK
  <2>2. Precedes(delivered, delivered[i], delivered[j])
    BY DEF Precedes
  <2>3. Precedes(admitted, delivered[i], delivered[j])
    BY <2>1, <2>2 DEF IInv, JournalInv, Sound, OrderInv
  <2> QED BY <2>3 DEF Precedes
<1> QED BY <1>1, IInvAlways, PTL

\* No lost wakeup: a queued message at the head has a command or a timer that will try it.
THEOREM HeadIsAlwaysDriven == Spec => []HeadIsDriven
<1>1. IInv => HeadIsDriven
  <2> SUFFICES ASSUME IInv, Ready(Journal)
               PROVE  timer # "off" \/ \E i \in 1..Len(lock) : lock[i].cmd \in { "queue", "drain" }
    BY DEF HeadIsDriven
  <2>1. CASE pc = "idle"
    BY <2>1 DEF IInv, DrivenInv
  <2>2. CASE pc # "idle"
    <3>1. lock \in Seq(Command) /\ lock # << >> /\ Head(lock).cmd \in { "queue", "drain" }
      BY <2>2 DEF IInv, Typed, QueueOK, Running
    <3>2. 1 \in 1..Len(lock) /\ lock[1] = Head(lock)
      BY <3>1
    <3> QED BY <3>1, <3>2
  <2> QED BY <2>1, <2>2
<1> QED BY <1>1, IInvAlways, PTL

\* A message leaves in one step only: the provider accepts the message of the attempt.
LEMMA OnlyAccepts ==
  ASSUME Typed, [Next]_vars
  PROVE  \/ UNCHANGED delivered
         \/ Accepts
<1>1. CASE LockStep
  BY <1>1 DEF LockStep, QueueInput, DrainInput, LoadEnds, Submitted, Unconfirmed, NotSent, Rejected, Busy, Replied,
              StopRuns, SendDirectRuns, ReleaseRuns, provider
<1>2. CASE TimerFires \/ PersonStep
  BY <1>2 DEF TimerFires, PersonStep, Post, Cancel, Admit, Stop, SendDirect, Release, provider
<1>3. CASE SessionStep \/ UNCHANGED vars
  BY <1>3 DEF SessionStep, Suspend, Sleep, Resume, ConnectionLost, TurnEnds, Restart, vars, provider
<1> QED BY <1>1, <1>2, <1>3 DEF Next

\* Stop is final: a message requested before a Stop that has run is not delivered after it,
\* wherever it was when the person pressed Stop.
THEOREM NothingIsSentAfterStop == Spec => NothingAfterStop
<1>1. ASSUME IInv, [Next]_vars, NEW m \in bar, delivered' = Append(delivered, m)
      PROVE  \E i \in 1..Len(lock) : lock[i].cmd = "stop"
  <2>1. Typed /\ StopInv /\ delivered \in Seq(Msgs) /\ m \in Msgs
    BY <1>1 DEF IInv, Typed, RestOK
  <2>2. Len(delivered') = Len(delivered) + 1 /\ Len(delivered) \in Nat /\ delivered'[Len(delivered) + 1] = m
    BY <1>1, <2>1
  <2>3. Accepts
    BY <1>1, <2>1, <2>2, OnlyAccepts
  <2>4. lock # << >> /\ pc = "sending" /\ delivered' = Append(delivered, attempt.msg)
    BY <2>3 DEF Accepts, Waits
  <2>5. attempt.msg \in Msgs
    BY <2>1, <2>4 DEF Typed, QueueOK
  <2>6. delivered'[Len(delivered) + 1] = attempt.msg
    BY <2>1, <2>4, <2>5
  <2>7. attempt.msg \in bar
    BY <1>1, <2>2, <2>6
  <2> QED BY <2>1, <2>4, <2>7 DEF StopInv
<1>2. IInv /\ [Next]_vars =>
        [\A m \in bar : delivered' = Append(delivered, m) => \E i \in 1..Len(lock) : lock[i].cmd = "stop"]_vars
  BY <1>1
<1> QED BY <1>2, IInvAlways, PTL DEF Spec, NothingAfterStop

=============================================================================
