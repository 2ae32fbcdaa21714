------------------------- MODULE SessionHostProofs -------------------------
(***************************************************************************)
(* Proofs about SessionHost, for any number of connections, any cursor,    *)
(* any buffer size and any backlog limit:                                  *)
(*   - type correctness;                                                   *)
(*   - the replay buffer never has a hole;                                 *)
(*   - no client's stream has a silent hole, lines ascend, and the current *)
(*     client has been sent everything;                                    *)
(*   - the host leaves no child behind that it did not kill, and its       *)
(*     record names it only while it serves;                               *)
(*   - replacing a client is final for the child's input;                  *)
(*   - the host and its clients implement RelayContract: every client      *)
(*     reads one unbroken stretch of the provider's output and learns of   *)
(*     its end only after the last line before it.                         *)
(***************************************************************************)
EXTENDS SessionHost, SequenceTheorems, WellFoundedInduction, TLAPS

-----------------------------------------------------------------------------
(***************************************************************************)
(* The replay buffer: trimming and pushing keep it without holes, and the  *)
(* entries after a cursor are exactly the buffered lines after it.         *)
(***************************************************************************)

\* Shifting entries off the old end leaves a buffer of the same kind.
LEMMA DropFirstKeeps ==
  ASSUME NEW held \in Seq(Entry), NEW newest \in Nat, Contiguous(held, newest), NEW k \in 0..Len(held)
  PROVE  /\ DropFirst(held, k) \in Seq(Entry)
         /\ Len(DropFirst(held, k)) = Len(held) - k
         /\ \A i \in 1..(Len(held) - k) : DropFirst(held, k)[i] = held[i + k]
         /\ Contiguous(DropFirst(held, k), newest)
<1> DEFINE d == DropFirst(held, k)
<1>1. d \in Seq(Entry) /\ Len(d) = Len(held) - k
  BY DEF DropFirst
<1>2. \A i \in 1..(Len(held) - k) : d[i] = held[i + k]
  BY DEF DropFirst
<1>3. Contiguous(d, newest)
  <2> SUFFICES ASSUME NEW i \in 1..Len(d) PROVE d[i].seq = newest - Len(d) + i
    BY DEF Contiguous
  <2>1. i \in 1..(Len(held) - k) /\ i + k \in 1..Len(held)
    BY <1>1
  <2>2. d[i] = held[i + k]
    BY <1>2, <2>1
  <2>3. held[i + k].seq = newest - Len(held) + (i + k)
    BY <2>1 DEF Contiguous
  <2> HIDE DEF d
  <2> QED BY <1>1, <2>2, <2>3
<1> QED BY <1>1, <1>2, <1>3

\* trim(): whatever the clock says, no hole appears.
LEMMA TrimsKeep ==
  ASSUME NEW held \in Seq(Entry), NEW newest \in Nat, Contiguous(held, newest), NEW t \in Trims(held)
  PROVE  t \in Seq(Entry) /\ Contiguous(t, newest)
BY DropFirstKeeps DEF Trims

\* push(): the new line follows the buffered ones, or, above the byte budget, empties them.
LEMMA PushesKeep ==
  ASSUME NEW held \in Seq(Entry), NEW newest \in Nat, Contiguous(held, newest),
         NEW bytes \in Nat, NEW t \in Pushes(held, [seq |-> newest + 1, bytes |-> bytes])
  PROVE  t \in Seq(Entry) /\ Contiguous(t, newest + 1)
<1> DEFINE e == [seq |-> newest + 1, bytes |-> bytes]
<1>1. CASE e.bytes > MaxBytes
  <2>1. t = << >>
    BY <1>1 DEF Pushes
  <2> QED BY <2>1 DEF Contiguous
<1>2. CASE ~ (e.bytes > MaxBytes)
  <2>1. t \in Trims(Append(held, e))
    BY <1>2 DEF Pushes
  <2>2. e \in Entry
    BY DEF Entry
  <2>3. Append(held, e) \in Seq(Entry) /\ Contiguous(Append(held, e), newest + 1)
    BY <2>2 DEF Contiguous
  <2>4. newest + 1 \in Nat
    OBVIOUS
  <2> HIDE DEF e
  <2> QED BY <2>1, <2>3, <2>4, TrimsKeep
<1> QED BY <1>1, <1>2

\* since(): the entries after the cursor are the newest lines of the buffer, they follow
\* each other up to the newest line, and they begin at the cursor unless there is a gap.
LEMMA EntriesAfterCursor ==
  ASSUME NEW held \in Seq(Entry), NEW newest \in Nat, Contiguous(held, newest),
         NEW sinceSeq \in Nat
  PROVE  LET e == EntriesAfter(held, newest, sinceSeq)
         IN  /\ e \in Seq(Entry)
             /\ \A i \in 1..Len(e) : e[i].seq = newest - Len(e) + i
             /\ sinceSeq >= newest => Len(e) = 0
             /\ sinceSeq < newest =>
                  newest - Len(e) = IF HasGap(held, newest, sinceSeq)
                                       THEN FirstSeq(held, newest) - 1 ELSE sinceSeq
<1> DEFINE e == EntriesAfter(held, newest, sinceSeq)
<1>1. CASE sinceSeq >= newest
  BY <1>1 DEF EntriesAfter
<1>2. CASE sinceSeq < newest
  <2> DEFINE Splits(n) == \A i \in 1..Len(held) : (held[i].seq > sinceSeq) <=> (i > n)
             m == IF sinceSeq + Len(held) <= newest THEN 0 ELSE sinceSeq + Len(held) - newest
             n == CHOOSE n \in 0..Len(held) : Splits(n)
  <2>1. m \in 0..Len(held) /\ Splits(m)
    BY <1>2 DEF Contiguous
  <2>2. n \in 0..Len(held) /\ Splits(n)
    BY <2>1
  <2>3. n = m
    <3>1. CASE n < m
      <4>1. m \in 1..Len(held) /\ m > n /\ ~ (m > m)
        BY <3>1, <2>1, <2>2
      <4> QED BY <4>1, <2>1, <2>2
    <3>2. CASE n > m
      <4>1. n \in 1..Len(held) /\ n > m /\ ~ (n > n)
        BY <3>2, <2>1, <2>2
      <4> QED BY <4>1, <2>1, <2>2
    <3> QED BY <3>1, <3>2, <2>1, <2>2
  <2>4. e = DropFirst(held, m)
    <3>1. e = IF sinceSeq >= newest THEN << >> ELSE DropFirst(held, n)
      BY Zenon DEF EntriesAfter
    <3>2. ~ (sinceSeq >= newest)
      BY <1>2
    <3> HIDE DEF e, n, m
    <3> QED BY <3>1, <3>2, <2>3
  <2>5. e \in Seq(Entry) /\ Len(e) = Len(held) - m /\ Contiguous(e, newest)
    BY <2>1, <2>4, DropFirstKeeps
  <2>6. newest - Len(e) = IF HasGap(held, newest, sinceSeq) THEN FirstSeq(held, newest) - 1 ELSE sinceSeq
    <3>1. FirstSeq(held, newest) = newest - Len(held) + 1
      BY DEF FirstSeq, Contiguous
    <3>2. HasGap(held, newest, sinceSeq) <=> sinceSeq + 1 < newest - Len(held) + 1
      BY <1>2, <3>1 DEF HasGap
    <3>3. Len(e) = Len(held) - m
      BY <2>5
    <3> HIDE DEF e
    <3> QED BY <3>1, <3>2, <3>3, <2>1
  <2>7. sinceSeq < newest
    BY <1>2
  <2>8. \A i \in 1..Len(e) : e[i].seq = newest - Len(e) + i
    BY <2>5 DEF Contiguous
  <2> HIDE DEF e
  <2>9. ~ (sinceSeq >= newest)
    BY <2>7
  <2> QED BY <2>5, <2>6, <2>7, <2>8, <2>9 DEF e
<1> QED BY <1>1, <1>2

-----------------------------------------------------------------------------
(***************************************************************************)
(* Facts about one client's message sequence.                              *)
(***************************************************************************)

\* A stream begins among the lines printed so far, and its lines come after its beginning.
Within(msgs, cursor, last) ==
    /\ StreamStart(msgs, cursor) \in 0..last
    /\ \A i \in LinesOf(msgs) : msgs[i].seq \in (StreamStart(msgs, cursor) + 1)..last

\* Everything the stream invariant says of a sequence.
GoodStream(msgs, cursor, last) ==
    /\ Greeted(msgs) /\ msgs[1].seq \in 0..last
    /\ Unbroken(msgs, cursor) /\ Ascending(msgs) /\ Within(msgs, cursor, last)

\* Messages that end nothing and carry no line leave the stream as it was.
LEMMA StreamPlusOther ==
  ASSUME NEW s \in Seq(Msg), NEW t \in Seq(Msg), NEW a \in Nat \cup {LiveOnly}, NEW n \in Nat,
         Greeted(s), \A i \in 1..Len(t) : t[i].type \notin { "line", "gap" }
  PROVE  /\ GoodStream(s, a, n) => GoodStream(s \o t, a, n)
         /\ CompleteTo(s, a, n) => CompleteTo(s \o t, a, n)
<1> DEFINE u == s \o t
<1>1. u \in Seq(Msg) /\ Len(u) = Len(s) + Len(t) /\ Len(s) \in Nat /\ Len(t) \in Nat
  OBVIOUS
<1>2. \A i \in 1..Len(s) : u[i] = s[i]
  OBVIOUS
<1>3. \A i \in (Len(s) + 1)..Len(u) : u[i].type \notin { "line", "gap" }
  <2> SUFFICES ASSUME NEW i \in (Len(s) + 1)..Len(u) PROVE u[i].type \notin { "line", "gap" }
    OBVIOUS
  <2>1. i - Len(s) \in 1..Len(t) /\ i \in 1..(Len(s) + Len(t)) /\ ~ (i <= Len(s))
    BY <1>1
  <2>2. u[i] = t[i - Len(s)]
    BY <2>1, ConcatProperties
  <2> HIDE DEF u
  <2> QED BY <2>1, <2>2
<1>4. Len(s) > 0 /\ u # << >> /\ u[1] = s[1]
  BY <1>1, <1>2 DEF Greeted
<1> HIDE DEF u
<1>5. LinesOf(u) = LinesOf(s)
  BY <1>1, <1>2, <1>3 DEF LinesOf
<1>6. Greeted(u)
  BY <1>4 DEF Greeted
<1>7. StreamStart(u, a) = StreamStart(s, a)
  <2>1. ToldGap(u) <=> ToldGap(s)
    BY <1>1, <1>2, <1>3, <1>4 DEF ToldGap
  <2>2. ToldGap(s) => u[2] = s[2]
    BY <1>1, <1>2 DEF ToldGap
  <2> QED BY <1>4, <2>1, <2>2 DEF StreamStart
<1>8. \A i \in LinesOf(s) : u[i] = s[i]
  BY <1>2 DEF LinesOf
<1>9. GoodStream(s, a, n) => GoodStream(u, a, n)
  <2> SUFFICES ASSUME GoodStream(s, a, n) PROVE GoodStream(u, a, n)
    OBVIOUS
  <2>1. u[1].seq \in 0..n
    BY <1>4 DEF GoodStream
  <2>2. Unbroken(u, a)
    <3>1. Unbroken(s, a)
      BY DEF GoodStream
    <3> QED BY <1>5, <1>7, <1>8, <3>1 DEF Unbroken
  <2>3. Ascending(u)
    BY <1>5, <1>8 DEF GoodStream, Ascending
  <2>4. Within(u, a, n)
    BY <1>5, <1>7, <1>8 DEF GoodStream, Within
  <2> QED BY <1>6, <2>1, <2>2, <2>3, <2>4 DEF GoodStream
<1>10. CompleteTo(s, a, n) => CompleteTo(u, a, n)
  BY <1>5, <1>7, <1>8 DEF CompleteTo
<1> QED BY <1>9, <1>10 DEF u

\* The stream of a client that was greeted starts at a number.
LEMMA StreamStartInt ==
  ASSUME NEW s \in Seq(Msg), NEW a \in Nat \cup {LiveOnly}, s # << >>
  PROVE  StreamStart(s, a) \in Int
<1>1. s[1] \in Msg
  OBVIOUS
<1>2. ToldGap(s) => s[2] \in Msg
  BY DEF ToldGap
<1>3. \A m \in Msg : m.seq \in Nat
  BY DEF Msg
<1> QED BY <1>1, <1>2, <1>3 DEF StreamStart, LiveOnly

\* A later line count only widens what is below it.
LEMMA StreamLater ==
  ASSUME NEW s, NEW a, NEW n \in Nat, GoodStream(s, a, n)
  PROVE  GoodStream(s, a, n + 1)
BY DEF GoodStream, Within

\* The next line, sent to a client that has been sent all before it.
LEMMA StreamPlusLine ==
  ASSUME NEW s \in Seq(Msg), NEW a \in Nat \cup {LiveOnly}, NEW n \in Nat,
         GoodStream(s, a, n), CompleteTo(s, a, n)
  PROVE  /\ GoodStream(s \o << M("line", n + 1) >>, a, n + 1)
         /\ CompleteTo(s \o << M("line", n + 1) >>, a, n + 1)
<1> DEFINE u == s \o << M("line", n + 1) >>
           k == Len(s) + 1
<1>0. M("line", n + 1) \in Msg /\ M("line", n + 1).type = "line" /\ M("line", n + 1).seq = n + 1
  BY DEF M, Msg
<1>1. u \in Seq(Msg) /\ Len(u) = k /\ Len(s) \in Nat
  BY <1>0
<1>2. \A i \in 1..Len(s) : u[i] = s[i]
  BY <1>0
<1>3. u[k].type = "line" /\ u[k].seq = n + 1
  BY <1>0
<1>4. Len(s) > 0 /\ u # << >> /\ u[1] = s[1]
  BY <1>1, <1>2 DEF GoodStream, Greeted
<1> HIDE DEF u
<1>5. LinesOf(u) = LinesOf(s) \cup {k}
  BY <1>1, <1>2, <1>3 DEF LinesOf
<1>6. Greeted(u) /\ u[1].seq \in 0..(n + 1)
  BY <1>4 DEF Greeted, GoodStream
<1>7. StreamStart(u, a) = StreamStart(s, a)
  <2>1. ToldGap(u) <=> ToldGap(s)
    BY <1>1, <1>2, <1>3, <1>4 DEF ToldGap
  <2>2. ToldGap(s) => u[2] = s[2]
    BY <1>1, <1>2 DEF ToldGap
  <2> QED BY <1>4, <2>1, <2>2 DEF StreamStart
<1>8. \A i \in LinesOf(s) : u[i] = s[i] /\ i \in Nat /\ i < k /\ u[i].seq \in 1..n
  BY <1>1, <1>2 DEF LinesOf, GoodStream, Within
<1>9. Within(u, a, n + 1)
  BY <1>3, <1>5, <1>7, <1>8 DEF GoodStream, Within
<1>10. Ascending(u)
  <2> SUFFICES ASSUME NEW i \in LinesOf(u), NEW j \in LinesOf(u), i < j PROVE u[i].seq < u[j].seq
    BY DEF Ascending
  <2> k \in Nat
    BY <1>1
  <2>1. i \in LinesOf(s)
    BY <1>5, <1>8
  <2>2. CASE j \in LinesOf(s)
    BY <1>8, <2>1, <2>2 DEF GoodStream, Ascending
  <2>3. CASE j = k
    <3>1. u[j].seq = n + 1
      BY <1>3, <2>3
    <3>2. u[i].seq \in 1..n
      BY <1>8, <2>1
    <3> QED BY <3>1, <3>2
  <2> QED BY <1>5, <2>2, <2>3
<1>11. Unbroken(u, a)
  <2> SUFFICES ASSUME NEW i \in LinesOf(u), NEW m \in (StreamStart(u, a) + 1)..(u[i].seq - 1)
               PROVE  \E j \in LinesOf(u) : j < i /\ u[j].seq = m
    BY DEF Unbroken
  <2>1. CASE i \in LinesOf(s)
    <3>1. m \in (StreamStart(s, a) + 1)..(s[i].seq - 1)
      BY <2>1, <1>7, <1>8
    <3>2. PICK j \in LinesOf(s) : j < i /\ s[j].seq = m
      BY <2>1, <3>1 DEF GoodStream, Unbroken
    <3> QED BY <3>2, <1>5, <1>8
  <2>2. CASE i = k
    <3>1. m \in (StreamStart(s, a) + 1)..n
      BY <2>2, <1>3, <1>7
    <3>2. PICK j \in LinesOf(s) : s[j].seq = m
      BY <3>1 DEF CompleteTo
    <3> QED BY <3>2, <2>2, <1>5, <1>8
  <2> QED BY <1>5, <2>1, <2>2
<1>12. CompleteTo(u, a, n + 1)
  <2> SUFFICES ASSUME NEW m \in (StreamStart(u, a) + 1)..(n + 1)
               PROVE  \E j \in LinesOf(u) : u[j].seq = m
    BY DEF CompleteTo
  <2>1. CASE m = n + 1
    BY <2>1, <1>3, <1>5
  <2>2. CASE m # n + 1
    <3>1. StreamStart(s, a) \in Int
      BY StreamStartInt DEF GoodStream, Greeted
    <3>2. m \in (StreamStart(s, a) + 1)..n
      BY <2>2, <1>7, <3>1
    <3> QED BY <3>2, <1>5, <1>8 DEF CompleteTo
  <2> QED BY <2>1, <2>2
<1> QED BY <1>6, <1>9, <1>10, <1>11, <1>12 DEF GoodStream, u

-----------------------------------------------------------------------------
(***************************************************************************)
(* What attach() writes.                                                   *)
(***************************************************************************)

\* The greeting is a welcome, perhaps a gap, q lines that end with the newest one, and
\* perhaps an exit; the lines start at the cursor or where the gap says.
GreetingShape(g, b, since, p, q, x) ==
    /\ g \in Seq(Msg) /\ Len(g) = p + q + x
    /\ p \in {1, 2} /\ q \in 0..lastSeq /\ x \in {0, 1}
    /\ g[1] = M("welcome", lastSeq)
    /\ p = 2 => g[2] = M("gap", FirstSeq(b, lastSeq))
    /\ \A i \in (p + 1)..(p + q) : g[i] = M("line", lastSeq - q + (i - p))
    /\ x = 1 => childExit /\ g[p + q + 1] = M("exit", 0)
    /\ (since = LiveOnly \/ since >= lastSeq) => q = 0
    /\ (since # LiveOnly /\ since < lastSeq) =>
         lastSeq - q = IF p = 2 THEN FirstSeq(b, lastSeq) - 1 ELSE since

LEMMA FirstSeqNat ==
  ASSUME NEW b \in Seq(Entry), NEW n \in Nat
  PROVE  FirstSeq(b, n) \in Nat
<1>1. CASE b = << >>
  BY <1>1 DEF FirstSeq
<1>2. CASE b # << >>
  <2>1. b[1] \in Entry
    BY <1>2
  <2> QED BY <2>1, <1>2 DEF FirstSeq, Entry
<1> QED BY <1>1, <1>2

LEMMA GreetingHasShape ==
  ASSUME NEW b \in Seq(Entry), lastSeq \in Nat, childExit \in BOOLEAN, Contiguous(b, lastSeq),
         NEW since \in Nat \cup {LiveOnly}
  PROVE  \E p \in {1, 2}, q \in 0..lastSeq, x \in {0, 1} :
           GreetingShape(Greeting(b, since), b, since, p, q, x)
<1> DEFINE w == << M("welcome", lastSeq) >>
           gap == since # LiveOnly /\ HasGap(b, lastSeq, since)
           G == IF gap THEN << M("gap", FirstSeq(b, lastSeq)) >> ELSE << >>
           L == IF since = LiveOnly THEN << >> ELSE Replayed(b, since)
           X == IF childExit THEN << M("exit", 0) >> ELSE << >>
           p == IF gap THEN 2 ELSE 1
           q == Len(L)
           x == IF childExit THEN 1 ELSE 0
<1>1. w \in Seq(Msg) /\ Len(w) = 1 /\ w[1] = M("welcome", lastSeq)
  BY DEF M, Msg
<1>2. G \in Seq(Msg) /\ Len(G) = p - 1 /\ (p = 2 => G[1] = M("gap", FirstSeq(b, lastSeq)))
  <2>1. M("gap", FirstSeq(b, lastSeq)) \in Msg
    BY FirstSeqNat DEF M, Msg
  <2>2. CASE gap
    BY <2>1, <2>2
  <2>3. CASE ~gap
    BY <2>3
  <2> QED BY <2>2, <2>3
<1>3. X \in Seq(Msg) /\ Len(X) = x /\ (x = 1 => childExit /\ X[1] = M("exit", 0))
  <2>1. M("exit", 0) \in Msg
    BY DEF M, Msg
  <2>2. CASE childExit
    BY <2>1, <2>2
  <2>3. CASE ~childExit
    BY <2>3
  <2> QED BY <2>2, <2>3
<1>4. /\ L \in Seq(Msg)
      /\ \A i \in 1..q : L[i] = M("line", lastSeq - q + i)
      /\ q \in 0..lastSeq
      /\ (since = LiveOnly \/ since >= lastSeq) => q = 0
      /\ (since # LiveOnly /\ since < lastSeq) =>
           lastSeq - q = IF p = 2 THEN FirstSeq(b, lastSeq) - 1 ELSE since
  <2>1. CASE since = LiveOnly
    BY <2>1
  <2>2. CASE since # LiveOnly
    <3> DEFINE e == EntriesAfter(b, lastSeq, since)
    <3>1. since \in Nat
      BY <2>2
    <3>2. /\ e \in Seq(Entry)
          /\ \A i \in 1..Len(e) : e[i].seq = lastSeq - Len(e) + i
          /\ since >= lastSeq => Len(e) = 0
          /\ since < lastSeq => lastSeq - Len(e) = IF gap THEN FirstSeq(b, lastSeq) - 1 ELSE since
      BY <2>2, <3>1, EntriesAfterCursor
    <3>3. L = [i \in 1..Len(e) |-> M("line", e[i].seq)]
      BY <2>2 DEF Replayed
    <3>4. Len(e) \in Nat /\ \A i \in 1..Len(e) : e[i] \in Entry
      BY <3>2
    <3> HIDE DEF e
    <3>5. \A i \in 1..Len(e) : M("line", e[i].seq) \in Msg
      BY <3>4 DEF M, Msg, Entry
    <3>6. L \in Seq(Msg) /\ Len(L) = Len(e)
      BY <3>3, <3>4, <3>5
    <3>7. \A i \in 1..q : L[i] = M("line", lastSeq - q + i)
      BY <3>2, <3>3, <3>6
    <3>8. q \in 0..lastSeq
      <4>1. CASE Len(e) = 0
        BY <4>1, <3>6
      <4>2. CASE Len(e) # 0
        <5>1. 1 \in 1..Len(e)
          BY <4>2, <3>4
        <5>2. e[1].seq \in Nat
          BY <5>1, <3>4 DEF Entry
        <5>3. e[1].seq = lastSeq - Len(e) + 1
          BY <5>1, <3>2
        <5>4. FirstSeq(b, lastSeq) \in Nat
          BY FirstSeqNat
        <5>5. CASE since >= lastSeq
          BY <5>5, <3>2, <4>2
        <5>6. CASE since < lastSeq /\ ~gap
          BY <5>6, <3>1, <3>2, <3>4, <3>6
        <5>7. CASE since < lastSeq /\ gap
          <6>1. b # << >> \/ FirstSeq(b, lastSeq) = lastSeq + 1
            BY DEF FirstSeq
          <6>2. lastSeq - Len(e) = FirstSeq(b, lastSeq) - 1
            BY <5>7, <3>2
          <6>3. FirstSeq(b, lastSeq) > since + 1
            BY <5>7, <3>1 DEF HasGap
          <6> QED BY <6>2, <6>3, <5>4, <3>1, <3>4, <3>6
        <5> QED BY <5>5, <5>6, <5>7, <3>1
      <4> QED BY <4>1, <4>2
    <3>9. (since = LiveOnly \/ since >= lastSeq) => q = 0
      BY <2>2, <3>2, <3>6
    <3>10. since < lastSeq => lastSeq - q = IF p = 2 THEN FirstSeq(b, lastSeq) - 1 ELSE since
      BY <3>2, <3>6
    <3> QED BY <3>6, <3>7, <3>8, <3>9, <3>10
  <2> QED BY <2>1, <2>2
<1> DEFINE g == Greeting(b, since)
<1>5. g = ((w \o G) \o L) \o X
  BY DEF Greeting
<1>6. p \in {1, 2} /\ x \in {0, 1}
  OBVIOUS
<1>7. Len(L) = q
  OBVIOUS
<1> DEFINE A == w \o G
           B == A \o L
<1> HIDE DEF w, G, L, X, p, q, x, g
<1>8. /\ A \in Seq(Msg) /\ Len(A) = p
      /\ A[1] = M("welcome", lastSeq)
      /\ p = 2 => A[2] = M("gap", FirstSeq(b, lastSeq))
  BY <1>1, <1>2, <1>6, ConcatProperties
<1> HIDE DEF A
<1>9. /\ B \in Seq(Msg) /\ Len(B) = p + q
      /\ \A i \in 1..(p + q) : B[i] = IF i <= p THEN A[i] ELSE L[i - p]
  BY <1>7, <1>8, <1>4, ConcatProperties
<1>10. g = B \o X
  BY <1>5 DEF A, B
<1> HIDE DEF B
<1>11. /\ g \in Seq(Msg) /\ Len(g) = p + q + x
       /\ \A i \in 1..(p + q + x) : g[i] = IF i <= p + q THEN B[i] ELSE X[i - (p + q)]
  BY <1>9, <1>10, <1>3, <1>4, <1>6, ConcatProperties
<1>12. g[1] = M("welcome", lastSeq) /\ (p = 2 => g[2] = M("gap", FirstSeq(b, lastSeq)))
  <2>1. \A i \in 1..p : g[i] = A[i]
    BY <1>4, <1>6, <1>9, <1>11
  <2> QED BY <2>1, <1>6, <1>8
<1>13. \A i \in (p + 1)..(p + q) : g[i] = M("line", lastSeq - q + (i - p))
  <2> SUFFICES ASSUME NEW i \in (p + 1)..(p + q) PROVE g[i] = M("line", lastSeq - q + (i - p))
    OBVIOUS
  <2>1. i - p \in 1..q /\ i \in 1..(p + q) /\ i \in 1..(p + q + x) /\ ~ (i <= p) /\ i <= p + q
    BY <1>4, <1>6
  <2>2. g[i] = L[i - p]
    BY <2>1, <1>9, <1>11
  <2> QED BY <2>1, <2>2, <1>4
<1>14. x = 1 => g[p + q + 1] = M("exit", 0)
  <2>1. x = 1 => p + q + 1 \in 1..(p + q + x) /\ ~ (p + q + 1 <= p + q) /\ (p + q + 1) - (p + q) = 1
    BY <1>4, <1>6
  <2> QED BY <2>1, <1>3, <1>11
<1>15. GreetingShape(g, b, since, p, q, x)
  BY <1>3, <1>4, <1>6, <1>11, <1>12, <1>13, <1>14 DEF GreetingShape
<1> QED BY <1>15, <1>4, <1>6 DEF g

\* However much of the greeting fits into the backlog, the client's stream is good; with
\* all of it, the client has been sent everything up to the newest line.
LEMMA GreetingPrefixGood ==
  ASSUME NEW b \in Seq(Entry), lastSeq \in Nat, childExit \in BOOLEAN, Contiguous(b, lastSeq),
         NEW since \in Nat \cup {LiveOnly},
         NEW k \in 1..Len(Greeting(b, since))
  PROVE  /\ GoodStream(SubSeq(Greeting(b, since), 1, k), since, lastSeq)
         /\ k = Len(Greeting(b, since)) =>
              CompleteTo(SubSeq(Greeting(b, since), 1, k), since, lastSeq)
<1> DEFINE g == Greeting(b, since)
           s == SubSeq(g, 1, k)
<1>1. PICK p \in {1, 2}, q \in 0..lastSeq, x \in {0, 1} : GreetingShape(g, b, since, p, q, x)
  BY GreetingHasShape
<1>2. /\ g \in Seq(Msg) /\ Len(g) = p + q + x
      /\ g[1] = M("welcome", lastSeq)
      /\ p = 2 => g[2] = M("gap", FirstSeq(b, lastSeq))
      /\ \A i \in (p + 1)..(p + q) : g[i] = M("line", lastSeq - q + (i - p))
      /\ x = 1 => g[p + q + 1] = M("exit", 0)
      /\ (since = LiveOnly \/ since >= lastSeq) => q = 0
      /\ (since # LiveOnly /\ since < lastSeq) =>
           lastSeq - q = IF p = 2 THEN FirstSeq(b, lastSeq) - 1 ELSE since
  BY <1>1 DEF GreetingShape
<1>3. k \in 1..Len(g)
  OBVIOUS
<1> HIDE DEF g
<1>4. s \in Seq(Msg) /\ Len(s) = k /\ \A i \in 1..k : s[i] = g[i]
  BY <1>2, <1>3, SubSeqProperties
<1>5. FirstSeq(b, lastSeq) \in Nat
  BY FirstSeqNat
<1> HIDE DEF s
<1>6. \A i \in 1..k : /\ s[i].type = "line" <=> i \in (p + 1)..(p + q)
                      /\ s[i].type = "line" => s[i].seq = lastSeq - q + (i - p)
  <2> SUFFICES ASSUME NEW i \in 1..k
               PROVE  /\ s[i].type = "line" <=> i \in (p + 1)..(p + q)
                      /\ s[i].type = "line" => s[i].seq = lastSeq - q + (i - p)
    OBVIOUS
  <2>1. s[i] = g[i]
    BY <1>4
  <2>2. CASE i \in (p + 1)..(p + q)
    <3>1. s[i] = M("line", lastSeq - q + (i - p))
      BY <2>1, <2>2, <1>2
    <3> QED BY <3>1, <2>2 DEF M
  <2>3. CASE i = 1
    BY <2>1, <2>3, <1>2 DEF M
  <2>4. CASE i = 2 /\ p = 2
    BY <2>1, <2>4, <1>2 DEF M
  <2>5. CASE i = p + q + 1 /\ x = 1
    BY <2>1, <2>5, <1>2 DEF M
  <2> QED BY <2>2, <2>3, <2>4, <2>5, <1>2, <1>3
<1>7. LinesOf(s) = { i \in (p + 1)..(p + q) : i <= k }
  BY <1>4, <1>6 DEF LinesOf
<1>8. \A i \in LinesOf(s) : i \in Int /\ i \in (p + 1)..(p + q) /\ i <= k /\ s[i].seq = lastSeq - q + (i - p)
  BY <1>6, <1>7
<1>9. s # << >> /\ s[1].type = "welcome" /\ s[1].seq = lastSeq
  BY <1>2, <1>3, <1>4 DEF M
<1>10. ToldGap(s) => p = 2 /\ s[2].seq = FirstSeq(b, lastSeq)
  <2> SUFFICES ASSUME ToldGap(s) PROVE p = 2 /\ s[2].seq = FirstSeq(b, lastSeq)
    OBVIOUS
  <2>1. 2 \in 1..k /\ s[2] = g[2] /\ s[2].type = "gap"
    BY <1>3, <1>4 DEF ToldGap
  <2>2. CASE p = 2
    BY <2>1, <2>2, <1>2 DEF M
  <2>3. CASE p = 1
    <3>1. CASE q > 0
      BY <2>3, <3>1, <2>1, <1>6
    <3>2. CASE q = 0
      BY <2>3, <3>2, <2>1, <1>2, <1>3 DEF M
    <3> QED BY <3>1, <3>2
  <2> QED BY <2>2, <2>3
<1>11. (p = 2 /\ k >= 2) => ToldGap(s)
  BY <1>2, <1>4 DEF ToldGap, M
<1>12. ((q > 0 /\ k > p) \/ k = Len(g)) => StreamStart(s, since) = lastSeq - q
  <2> SUFFICES ASSUME (q > 0 /\ k > p) \/ k = Len(g) PROVE StreamStart(s, since) = lastSeq - q
    OBVIOUS
  <2>1. p = 2 => k >= 2
    BY <1>2
  <2>2. CASE since = LiveOnly \/ since >= lastSeq
    BY <2>2, <1>2, <1>9 DEF StreamStart
  <2>3. CASE ~ (since = LiveOnly \/ since >= lastSeq)
    BY <2>1, <2>3, <1>2, <1>5, <1>9, <1>10, <1>11 DEF StreamStart
  <2> QED BY <2>2, <2>3
<1>13. Within(s, since, lastSeq)
  <2>1. StreamStart(s, since) \in 0..lastSeq
    <3>1. CASE since = LiveOnly \/ since >= lastSeq
      BY <3>1, <1>9 DEF StreamStart
    <3>2. CASE ~ (since = LiveOnly \/ since >= lastSeq) /\ ToldGap(s)
      BY <3>2, <1>2, <1>5, <1>9, <1>10 DEF StreamStart
    <3>3. CASE ~ (since = LiveOnly \/ since >= lastSeq) /\ ~ToldGap(s)
      BY <3>3, <1>9 DEF StreamStart
    <3> QED BY <3>1, <3>2, <3>3
  <2>2. \A i \in LinesOf(s) : s[i].seq \in (StreamStart(s, since) + 1)..lastSeq
    BY <1>8, <1>12
  <2> QED BY <2>1, <2>2 DEF Within
<1>14. Ascending(s)
  BY <1>8 DEF Ascending
<1>15. Unbroken(s, since)
  <2> SUFFICES ASSUME NEW i \in LinesOf(s), NEW n \in (StreamStart(s, since) + 1)..(s[i].seq - 1)
               PROVE  \E j \in LinesOf(s) : j < i /\ s[j].seq = n
    BY DEF Unbroken
  <2>1. q > 0 /\ k > p
    BY <1>8
  <2>2. n \in (lastSeq - q + 1)..(lastSeq - q + (i - p) - 1)
    BY <2>1, <1>8, <1>12, SMTT(60)
  <2> DEFINE j == n - (lastSeq - q) + p
  <2>3. j \in (p + 1)..(p + q) /\ j < i /\ j <= k /\ lastSeq - q + (j - p) = n
    BY <2>2, <1>8
  <2>4. j \in LinesOf(s)
    BY <2>3, <1>7
  <2> QED BY <2>3, <2>4, <1>8
<1>16. k = Len(g) => CompleteTo(s, since, lastSeq)
  <2> SUFFICES ASSUME k = Len(g), NEW n \in (StreamStart(s, since) + 1)..lastSeq
               PROVE  \E j \in LinesOf(s) : s[j].seq = n
    BY DEF CompleteTo
  <2>1. n \in (lastSeq - q + 1)..lastSeq
    BY <1>12
  <2> DEFINE j == n - (lastSeq - q) + p
  <2>2. j \in (p + 1)..(p + q) /\ j <= k /\ lastSeq - q + (j - p) = n
    BY <2>1, <1>2
  <2>3. j \in LinesOf(s)
    BY <2>2, <1>7
  <2> QED BY <2>2, <2>3, <1>8
<1>17. GoodStream(s, since, lastSeq)
  BY <1>9, <1>13, <1>14, <1>15 DEF GoodStream, Greeted
<1> QED BY <1>16, <1>17 DEF s, g

\* The child's end is told last, and only when it has been declared.
LEMMA GreetingTellsEndLast ==
  ASSUME NEW b \in Seq(Entry), lastSeq \in Nat, childExit \in BOOLEAN, Contiguous(b, lastSeq),
         NEW since \in Nat \cup {LiveOnly},
         NEW i \in 1..Len(Greeting(b, since)), Greeting(b, since)[i].type = "exit"
  PROVE  childExit /\ i = Len(Greeting(b, since))
<1> DEFINE g == Greeting(b, since)
<1>1. PICK p \in {1, 2}, q \in 0..lastSeq, x \in {0, 1} : GreetingShape(g, b, since, p, q, x)
  BY GreetingHasShape
<1>2. /\ Len(g) = p + q + x
      /\ g[1] = M("welcome", lastSeq)
      /\ p = 2 => g[2] = M("gap", FirstSeq(b, lastSeq))
      /\ \A j \in (p + 1)..(p + q) : g[j] = M("line", lastSeq - q + (j - p))
      /\ x = 1 => childExit
  BY <1>1 DEF GreetingShape
<1>3. i \in 1..Len(g) /\ g[i].type = "exit"
  OBVIOUS
<1> HIDE DEF g
<1>4. i # 1 /\ (p = 2 => i # 2) /\ i \notin (p + 1)..(p + q)
  <2>1. \A n : M("welcome", n).type # "exit" /\ M("gap", n).type # "exit" /\ M("line", n).type # "exit"
    BY DEF M
  <2> QED BY <1>2, <1>3, <2>1
<1>5. i = p + q + 1 /\ x = 1
  BY <1>2, <1>3, <1>4
<1> QED BY <1>2, <1>5 DEF g

-----------------------------------------------------------------------------
(***************************************************************************)
(* What Send does to one connection.                                       *)
(***************************************************************************)

SocketStates == { "none", "open", "ending", "destroyed", "gone" }

\* A connection is written a prefix of its messages, all of them unless it is destroyed,
\* and at least one when nothing was written to it before.
LEMMA SendWrites ==
  ASSUME sent \in [Conns -> Seq(Msg)], rcvd \in [Conns -> Nat], socket \in [Conns -> SocketStates],
         NEW out \in [Conns -> Seq(Msg)], NEW ended, Send(out, ended)
  PROVE  /\ sent' \in [Conns -> Seq(Msg)]
         /\ socket' \in [Conns -> SocketStates]
         /\ \A c \in Conns : \E k \in 0..Len(out[c]) :
              /\ sent'[c] = sent[c] \o SubSeq(out[c], 1, k)
              /\ socket'[c] = "open" => socket[c] = "open" /\ k = Len(out[c])
              /\ (socket[c] = "open" /\ sent[c] = << >> /\ out[c] # << >>) => k >= 1
<1>1. socket' \in [Conns -> SocketStates]
  BY DEF Send, SocketStates
<1>2. \A c \in Conns : \E k \in 0..Len(out[c]) :
        /\ sent'[c] = sent[c] \o SubSeq(out[c], 1, k)
        /\ socket'[c] = "open" => socket[c] = "open" /\ k = Len(out[c])
        /\ (socket[c] = "open" /\ sent[c] = << >> /\ out[c] # << >>) => k >= 1
  <2> SUFFICES ASSUME NEW c \in Conns
               PROVE  \E k \in 0..Len(out[c]) :
                        /\ sent'[c] = sent[c] \o SubSeq(out[c], 1, k)
                        /\ socket'[c] = "open" => socket[c] = "open" /\ k = Len(out[c])
                        /\ (socket[c] = "open" /\ sent[c] = << >> /\ out[c] # << >>) => k >= 1
    OBVIOUS
  <2> DEFINE o == out[c]
             r == Room(c)
  <2>1. o \in Seq(Msg) /\ sent[c] \in Seq(Msg) /\ Len(o) \in Nat /\ SubSeq(o, 1, Len(o)) = o
    OBVIOUS
  <2>2. r \in Nat /\ (sent[c] = << >> => r >= 1)
    BY <2>1, BoundAssumption DEF Room
  <2>3. CASE socket[c] # "open"
    <3>1. sent'[c] = sent[c] /\ socket'[c] = socket[c]
      BY <2>3 DEF Send
    <3>2. SubSeq(o, 1, 0) = << >>
      BY SubSeqEmpty
    <3>3. sent[c] \o SubSeq(o, 1, 0) = sent[c]
      BY <3>2, <2>1, ConcatEmptySeq
    <3>4. 0 \in 0..Len(out[c])
      BY <2>1
    <3>5. ~ (socket'[c] = "open") /\ ~ (socket[c] = "open")
      BY <3>1, <2>3
    <3> QED BY <3>1, <3>3, <3>4, <3>5
  <2>4. CASE socket[c] = "open" /\ Len(o) > r
    <3>1. sent'[c] = sent[c] \o SubSeq(o, 1, r) /\ socket'[c] = "destroyed"
      BY <2>4 DEF Send, Fitting
    <3>2. r \in 0..Len(out[c])
      BY <2>1, <2>2, <2>4
    <3> QED BY <3>1, <3>2, <2>2
  <2>5. CASE socket[c] = "open" /\ ~ (Len(o) > r)
    <3>1. sent'[c] = sent[c] \o o
      BY <2>5 DEF Send, Fitting
    <3>2. o # << >> => Len(o) >= 1
      BY <2>1
    <3> HIDE DEF o, r
    <3>3. sent'[c] = sent[c] \o SubSeq(o, 1, Len(o)) /\ Len(o) \in 0..Len(o)
      BY <3>1, <2>1
    <3> QED BY <3>2, <3>3, <2>5 DEF o
  <2> QED BY <2>3, <2>4, <2>5
<1>3. sent' \in [Conns -> Seq(Msg)]
  <2>1. \A c \in Conns : sent'[c] \in Seq(Msg)
    <3> SUFFICES ASSUME NEW c \in Conns PROVE sent'[c] \in Seq(Msg)
      OBVIOUS
    <3>1. PICK k \in 0..Len(out[c]) : sent'[c] = sent[c] \o SubSeq(out[c], 1, k)
      BY <1>2
    <3>2. SubSeq(out[c], 1, k) \in Seq(Msg)
      BY SubSeqProperties
    <3> QED BY <3>1, <3>2
  <2> QED BY <2>1 DEF Send
<1> QED BY <1>1, <1>2, <1>3

-----------------------------------------------------------------------------
(***************************************************************************)
(* Type correctness.                                                       *)
(***************************************************************************)

LEMMA MsgType ==
  ASSUME NEW type \in { "welcome", "gap", "line", "exit", "replaced", "status" }, NEW n \in Nat
  PROVE  M(type, n) \in Msg /\ << M(type, n) >> \in Seq(Msg)
BY DEF M, Msg

LEMMA NothingType == Nothing \in [Conns -> Seq(Msg)]
BY DEF Nothing

\* What an action leaves alone keeps its type.
LEMMA UnchangedTypes ==
  ASSUME TypeOK
  PROVE  /\ UNCHANGED childVars => ChildTypes'
         /\ UNCHANGED bufVars => BufTypes' /\ (BufferContiguous => BufferContiguous')
         /\ UNCHANGED hostVars => HostTypes'
         /\ UNCHANGED connVars => ConnTypes'
         /\ UNCHANGED peerVars => PeerTypes'
BY DEF TypeOK, ChildTypes, BufTypes, HostTypes, ConnTypes, PeerTypes, BufferContiguous,
       childVars, bufVars, hostVars, connVars, peerVars

LEMMA SendType ==
  ASSUME TypeOK, NEW out \in [Conns -> Seq(Msg)], NEW ended, Send(out, ended),
         up' \in [Conns -> Seq(Request)]
  PROVE  StreamTypes'
BY SendWrites DEF TypeOK, StreamTypes, PeerTypes, SocketStates

\* What the end of the child leaves of TypeOK to its callers: the child's own variables.
LEMMA ChildEndedType ==
  ASSUME TypeOK, BufferContiguous, ChildEnded, proc' \in { "none", "running", "exited" },
         signalled' \in { "none", "term", "kill" }, stdout' \in BOOLEAN, overflowed' \in BOOLEAN
  PROVE  TypeOK' /\ BufferContiguous'
<1> DEFINE out == [c \in Conns |-> IF c \in watchers \cup {client} THEN << M("exit", 0) >> ELSE << >>]
           last == IF phase = "no" THEN watchers ELSE Conns
<1>1. out \in [Conns -> Seq(Msg)]
  BY MsgType
<1>2. Send(out, last)
  BY Zenon DEF ChildEnded
<1> HIDE DEF out, last
<1>3. up' \in [Conns -> Seq(Request)]
  BY DEF ChildEnded, TypeOK, StreamTypes
<1>4. StreamTypes'
  BY <1>1, <1>2, <1>3, SendType
<1>5. HostTypes'
  BY DEF ChildEnded, Stop, TypeOK, HostTypes
<1>6. ChildTypes'
  BY DEF ChildEnded, TypeOK, ChildTypes, BufTypes
<1>7. BufTypes' /\ BufferContiguous'
  BY DEF ChildEnded, TypeOK, BufTypes, BufferContiguous
<1>8. ConnTypes'
  BY DEF ChildEnded, TypeOK, ConnTypes
<1>9. PeerTypes'
  BY UnchangedTypes DEF ChildEnded
<1> QED BY <1>4, <1>5, <1>6, <1>7, <1>8, <1>9 DEF TypeOK

LEMMA BufferType ==
  ASSUME TypeOK, BufferContiguous, NEW t \in Trims(buf)
  PROVE  t \in Seq(Entry) /\ Contiguous(t, lastSeq)
BY TrimsKeep DEF TypeOK, BufTypes, BufferContiguous

\* A request that is handled leaves the queue of its connection.
LEMMA ReceivesType ==
  ASSUME TypeOK, NEW c \in Conns, NEW type, Receives(c, type)
  PROVE  /\ up' \in [Conns -> Seq(Request)]
         /\ Head(up[c]) \in Request /\ Head(up[c]).type = type /\ Head(up[c]).since \in Nat \cup {LiveOnly}
<1>1. up[c] \in Seq(Request) /\ up[c] # << >>
  BY DEF TypeOK, StreamTypes, Receives
<1>2. Head(up[c]) \in Request /\ Tail(up[c]) \in Seq(Request)
  BY <1>1, HeadTailProperties
<1>3. up' \in [Conns -> Seq(Request)]
  BY <1>2 DEF TypeOK, StreamTypes, Receives
<1> QED BY <1>2, <1>3 DEF Request, Receives

LEMMA RequestType ==
  ASSUME TypeOK, NEW c \in Conns, NEW type \in { "hello", "write", "status", "terminate" }, Ask(c, type)
  PROVE  up' \in [Conns -> Seq(Request)]
<1>1. R(type, LiveOnly) \in Request
  BY DEF R, Request
<1> QED BY <1>1 DEF Ask, TypeOK, StreamTypes

LEMMA TerminateType ==
  ASSUME TypeOK, Terminate
  PROVE  HostTypes' /\ stdinEnded' \in BOOLEAN
BY DEF Terminate, Stop, TypeOK, HostTypes, ChildTypes, hostVars

LEMMA ToType ==
  ASSUME NEW c \in Conns, NEW msgs \in Seq(Msg)
  PROVE  To(c, msgs) \in [Conns -> Seq(Msg)]
<1>1. To(c, msgs) = [d \in Conns |-> IF d = c THEN msgs ELSE << >>]
  BY DEF To, Nothing
<1>2. << >> \in Seq(Msg)
  OBVIOUS
<1> QED BY <1>1, <1>2

LEMMA ChildLineType ==
  ASSUME TypeOK, BufferContiguous, NEW bytes \in LineBytes, ChildLine(bytes)
  PROVE  TypeOK' /\ BufferContiguous'
<1> DEFINE out == [c \in Conns |-> IF c = client THEN << M("line", lastSeq + 1) >> ELSE << >>]
<1>1. lastSeq' = lastSeq + 1 /\ lastSeq \in Nat /\ lastSeq' \in Nat
  BY DEF ChildLine, TypeOK, BufTypes
<1>2. bytes \in Nat
  BY BytesAssumption
<1>3. buf' \in Pushes(buf, [seq |-> lastSeq + 1, bytes |-> bytes])
  BY DEF ChildLine
<1>4. BufTypes' /\ BufferContiguous'
  BY <1>1, <1>2, <1>3, PushesKeep DEF TypeOK, BufTypes, BufferContiguous
<1>5. out \in [Conns -> Seq(Msg)]
  BY <1>1, MsgType
<1>6. Send(out, {})
  BY Zenon DEF ChildLine
<1> HIDE DEF out
<1>7. up' \in [Conns -> Seq(Request)]
  BY DEF ChildLine, TypeOK, StreamTypes
<1>8. StreamTypes'
  BY <1>5, <1>6, <1>7, SendType
<1>9. ChildTypes' /\ HostTypes' /\ ConnTypes' /\ PeerTypes'
  BY UnchangedTypes DEF ChildLine
<1> QED BY <1>4, <1>8, <1>9 DEF TypeOK

LEMMA OnHelloType ==
  ASSUME TypeOK, BufferContiguous, NEW c \in Conns, OnHello(c)
  PROVE  /\ TypeOK' /\ BufferContiguous'
         /\ Greeting(buf', Head(up[c]).since) \in Seq(Msg)
<1> DEFINE since == Head(up[c]).since
           out == [d \in Conns |-> IF d = c THEN Greeting(buf', Head(up[c]).since)
                                   ELSE IF d = client THEN << M("replaced", 0) >> ELSE << >>]
<1>1. buf' \in Seq(Entry) /\ Contiguous(buf', lastSeq) /\ lastSeq' = lastSeq
  BY BufferType DEF OnHello
<1>2. up' \in [Conns -> Seq(Request)] /\ since \in Nat \cup {LiveOnly}
  BY ReceivesType DEF OnHello
<1>3. Greeting(buf', since) \in Seq(Msg)
  <2> HIDE DEF since
  <2>1. \E p \in {1, 2}, q \in 0..lastSeq, x \in {0, 1} :
          GreetingShape(Greeting(buf', since), buf', since, p, q, x)
    BY <1>1, <1>2, GreetingHasShape DEF TypeOK, BufTypes, ChildTypes
  <2> QED BY <2>1 DEF GreetingShape
<1>4. out \in [Conns -> Seq(Msg)]
  BY <1>3, MsgType
<1>5. Send(out, {client} \ {c})
  BY Zenon DEF OnHello
<1> HIDE DEF out
<1>6. StreamTypes'
  BY <1>2, <1>4, <1>5, SendType
<1>7. ConnTypes'
  BY DEF OnHello, TypeOK, ConnTypes
<1>8. BufTypes' /\ BufferContiguous'
  BY <1>1 DEF TypeOK, BufTypes, BufferContiguous
<1>9. ChildTypes' /\ HostTypes' /\ PeerTypes'
  BY UnchangedTypes DEF OnHello
<1> QED BY <1>3, <1>6, <1>7, <1>8, <1>9 DEF TypeOK

LEMMA OnStatusType ==
  ASSUME TypeOK, BufferContiguous, NEW c \in Conns, OnStatus(c)
  PROVE  TypeOK' /\ BufferContiguous'
<1>1. BufTypes' /\ BufferContiguous'
  BY BufferType DEF OnStatus, TypeOK, BufTypes, BufferContiguous
<1>2. up' \in [Conns -> Seq(Request)]
  BY ReceivesType DEF OnStatus
<1>3. To(c, << M("status", lastSeq) >>) \in [Conns -> Seq(Msg)]
  BY MsgType, ToType DEF TypeOK, BufTypes
<1>4. StreamTypes'
  BY <1>2, <1>3, SendType DEF OnStatus
<1>5. ChildTypes' /\ HostTypes' /\ ConnTypes' /\ PeerTypes'
  BY UnchangedTypes DEF OnStatus
<1> QED BY <1>1, <1>4, <1>5 DEF TypeOK

LEMMA OnTerminateType ==
  ASSUME TypeOK, BufferContiguous, NEW c \in Conns, OnTerminate(c)
  PROVE  TypeOK' /\ BufferContiguous'
<1> DEFINE out == IF childExit THEN To(c, << M("exit", 0) >>) ELSE Nothing
           last == IF host' = "stopped" THEN Conns ELSE IF childExit THEN {c} ELSE {}
<1>1. up' \in [Conns -> Seq(Request)]
  BY ReceivesType DEF OnTerminate
<1>2. out \in [Conns -> Seq(Msg)]
  BY MsgType, ToType, NothingType
<1>3. Send(out, last) /\ Terminate
  BY Zenon DEF OnTerminate
<1> HIDE DEF out, last
<1>4. StreamTypes'
  BY <1>1, <1>2, <1>3, SendType
<1>5. HostTypes' /\ stdinEnded' \in BOOLEAN
  BY <1>3, TerminateType
<1>6. ChildTypes'
  BY <1>5 DEF OnTerminate, TypeOK, ChildTypes
<1>7. ConnTypes'
  BY DEF OnTerminate, TypeOK, ConnTypes
<1>8. BufTypes' /\ BufferContiguous' /\ PeerTypes'
  BY UnchangedTypes DEF OnTerminate
<1> QED BY <1>4, <1>5, <1>6, <1>7, <1>8 DEF TypeOK

LEMMA HostSignalledType ==
  ASSUME TypeOK, BufferContiguous, HostSignalled
  PROVE  TypeOK' /\ BufferContiguous'
<1>1. StreamTypes'
  BY NothingType, SendType DEF HostSignalled, TypeOK, StreamTypes
<1>2. HostTypes' /\ stdinEnded' \in BOOLEAN
  BY TerminateType DEF HostSignalled
<1>3. ChildTypes'
  BY <1>2 DEF HostSignalled, TypeOK, ChildTypes
<1>4. BufTypes' /\ BufferContiguous' /\ ConnTypes' /\ PeerTypes'
  BY UnchangedTypes DEF HostSignalled
<1> QED BY <1>1, <1>2, <1>3, <1>4 DEF TypeOK

LEMMA StopStepsType ==
  ASSUME TypeOK, BufferContiguous, LingerExpires \/ Abort
  PROVE  TypeOK' /\ BufferContiguous'
<1>1. StreamTypes'
  BY NothingType, SendType DEF LingerExpires, Abort, TypeOK, StreamTypes
<1>2. HostTypes'
  BY DEF LingerExpires, Abort, Stop, TypeOK, HostTypes
<1>3. ChildTypes'
  <2>1. CASE LingerExpires
    BY <2>1, UnchangedTypes DEF LingerExpires
  <2>2. CASE Abort
    BY <2>2 DEF Abort, TypeOK, ChildTypes
  <2> QED BY <2>1, <2>2
<1>4. BufTypes' /\ BufferContiguous' /\ ConnTypes' /\ PeerTypes'
  BY UnchangedTypes DEF LingerExpires, Abort
<1> QED BY <1>1, <1>2, <1>3, <1>4 DEF TypeOK

\* The remaining steps write no message.
LEMMA ChildStepsType ==
  ASSUME TypeOK, BufferContiguous,
         LineOverflow \/ ChildExits \/ StdoutCloses \/ FlushTimeout \/ GraceExpires \/ KillWaitExpires
  PROVE  TypeOK' /\ BufferContiguous'
<1>1. CASE LineOverflow
  <2>1. CASE childExit
    <3>1. ChildTypes'
      BY <1>1, <2>1 DEF LineOverflow, TypeOK, ChildTypes
    <3>2. BufTypes' /\ BufferContiguous' /\ HostTypes' /\ ConnTypes' /\ PeerTypes'
      BY <1>1, <2>1, UnchangedTypes DEF LineOverflow
    <3>3. StreamTypes'
      BY <1>1, <2>1 DEF LineOverflow, TypeOK, StreamTypes
    <3> QED BY <3>1, <3>2, <3>3 DEF TypeOK
  <2>2. CASE ~childExit
    BY <1>1, <2>2, ChildEndedType DEF LineOverflow, TypeOK, ChildTypes
  <2> QED BY <2>1, <2>2
<1>2. CASE ChildExits
  <2>1. ChildTypes'
    BY <1>2 DEF ChildExits, TypeOK, ChildTypes
  <2>2. BufTypes' /\ BufferContiguous' /\ HostTypes' /\ ConnTypes' /\ PeerTypes'
    BY <1>2, UnchangedTypes DEF ChildExits
  <2>3. StreamTypes'
    BY <1>2 DEF ChildExits, TypeOK, StreamTypes
  <2> QED BY <2>1, <2>2, <2>3 DEF TypeOK
<1>3. CASE StdoutCloses
  <2>1. CASE childExit
    <3>1. ChildTypes'
      BY <1>3, <2>1 DEF StdoutCloses, TypeOK, ChildTypes
    <3>2. BufTypes' /\ BufferContiguous' /\ HostTypes' /\ ConnTypes' /\ PeerTypes'
      BY <1>3, <2>1, UnchangedTypes DEF StdoutCloses
    <3>3. StreamTypes'
      BY <1>3, <2>1 DEF StdoutCloses, TypeOK, StreamTypes
    <3> QED BY <3>1, <3>2, <3>3 DEF TypeOK
  <2>2. CASE ~childExit
    BY <1>3, <2>2, ChildEndedType DEF StdoutCloses, TypeOK, ChildTypes
  <2> QED BY <2>1, <2>2
<1>4. CASE FlushTimeout
  BY <1>4, ChildEndedType DEF FlushTimeout, TypeOK, ChildTypes
<1>5. CASE GraceExpires
  <2>1. ChildTypes' /\ HostTypes'
    BY <1>5 DEF GraceExpires, TypeOK, ChildTypes, HostTypes
  <2>2. BufTypes' /\ BufferContiguous' /\ ConnTypes' /\ PeerTypes'
    BY <1>5, UnchangedTypes DEF GraceExpires
  <2>3. StreamTypes'
    BY <1>5 DEF GraceExpires, TypeOK, StreamTypes
  <2> QED BY <2>1, <2>2, <2>3 DEF TypeOK
<1>6. CASE KillWaitExpires
  BY <1>6, ChildEndedType DEF KillWaitExpires, TypeOK, ChildTypes
<1> QED BY <1>1, <1>2, <1>3, <1>4, <1>5, <1>6

LEMMA HostEndType ==
  ASSUME TypeOK, BufferContiguous, NEW c \in Conns, OnWrite(c) \/ SocketCloses(c)
  PROVE  TypeOK' /\ BufferContiguous'
<1>1. CASE OnWrite(c)
  <2>1. ChildTypes'
    BY <1>1 DEF OnWrite, TypeOK, ChildTypes
  <2>2. BufTypes' /\ BufferContiguous' /\ HostTypes' /\ ConnTypes' /\ PeerTypes'
    BY <1>1, UnchangedTypes DEF OnWrite
  <2>3. StreamTypes'
    BY <1>1, ReceivesType DEF OnWrite, TypeOK, StreamTypes
  <2> QED BY <2>1, <2>2, <2>3 DEF TypeOK
<1>2. CASE SocketCloses(c)
  <2>1. HostTypes'
    BY <1>2 DEF SocketCloses, Stop, TypeOK, HostTypes
  <2>2. ConnTypes'
    BY <1>2 DEF SocketCloses, TypeOK, ConnTypes
  <2>3. ChildTypes' /\ BufTypes' /\ BufferContiguous' /\ PeerTypes'
    BY <1>2, UnchangedTypes DEF SocketCloses
  <2>4. up' \in [Conns -> Seq(Request)] /\ sent' \in [Conns -> Seq(Msg)]
    BY <1>2 DEF SocketCloses, TypeOK, StreamTypes
  <2>5. socket' \in [Conns -> { "none", "open", "ending", "destroyed", "gone" }]
    BY <1>2 DEF SocketCloses, TypeOK, StreamTypes
  <2> QED BY <2>1, <2>2, <2>3, <2>4, <2>5 DEF TypeOK, StreamTypes
<1> QED BY <1>1, <1>2

LEMMA CrashType ==
  ASSUME TypeOK, BufferContiguous, Crash
  PROVE  TypeOK' /\ BufferContiguous'
<1>1. ChildTypes' /\ HostTypes'
  BY DEF Crash, TypeOK, ChildTypes, HostTypes
<1>2. StreamTypes'
  BY DEF Crash, TypeOK, StreamTypes
<1>3. BufTypes' /\ BufferContiguous' /\ ConnTypes' /\ PeerTypes'
  BY UnchangedTypes DEF Crash
<1> QED BY <1>1, <1>2, <1>3 DEF TypeOK

LEMMA PeerStepType ==
  ASSUME TypeOK, BufferContiguous, NEW c \in Conns, PeerStep(c)
  PROVE  TypeOK' /\ BufferContiguous'
<1>1. BufTypes' /\ BufferContiguous' /\ ChildTypes' /\ HostTypes' /\ ConnTypes'
  BY UnchangedTypes DEF PeerStep, Connect, ConnectToTerminate, PeerReceives, PeerAsks, PeerCloses,
     PeerTerminates, PeerSeesClose, PeerDrops
<1>2. StreamTypes'
  <2>1. ASSUME NEW since \in Sinces, Connect(c, since) PROVE StreamTypes'
    <3>1. << R("hello", since) >> \in Seq(Request)
      BY SinceAssumption DEF R, Request
    <3>2. up' \in [Conns -> Seq(Request)]
      BY <2>1, <3>1 DEF Connect, TypeOK, StreamTypes
    <3> QED BY <2>1, <3>2 DEF Connect, TypeOK, StreamTypes
  <2>2. CASE ConnectToTerminate(c)
    BY <2>2, RequestType DEF ConnectToTerminate, TypeOK, StreamTypes
  <2>3. CASE PeerAsks(c, "write") \/ PeerAsks(c, "status") \/ PeerTerminates(c)
    BY <2>3, RequestType DEF PeerAsks, PeerTerminates, TypeOK, StreamTypes
  <2>4. CASE PeerReceives(c) \/ PeerCloses(c) \/ PeerSeesClose(c) \/ PeerDrops(c)
    BY <2>4 DEF PeerReceives, PeerCloses, PeerSeesClose, PeerDrops, TypeOK, StreamTypes
  <2> QED BY <2>1, <2>2, <2>3, <2>4 DEF PeerStep
<1>3. PeerTypes'
  <2>1. ASSUME NEW since \in Sinces, Connect(c, since) PROVE PeerTypes'
    BY <2>1, SinceAssumption DEF Connect, TypeOK, PeerTypes, Peers
  <2>2. CASE PeerReceives(c)
    <3>1. rcvd[c] \in Nat /\ sent[c] \in Seq(Msg) /\ rcvd[c] + 1 \in 1..Len(sent[c])
      BY <2>2 DEF PeerReceives, TypeOK, StreamTypes, PeerTypes
    <3>2. sent[c][rcvd[c] + 1] \in Msg
      BY <3>1
    <3>3. sent[c][rcvd[c] + 1].seq \in Nat
      BY <3>2 DEF Msg
    <3>4. rcvd' \in [Conns -> Nat] /\ asked' \in [Conns -> Nat \cup {LiveOnly}] /\ requests' \in [Conns -> Nat]
      BY <2>2 DEF PeerReceives, TypeOK, PeerTypes
    <3>5. lastSeen' \in [Conns -> Nat]
      BY <2>2, <3>3 DEF PeerReceives, TypeOK, PeerTypes
    <3>6. peer' \in [Conns -> Peers]
      BY <2>2 DEF PeerReceives, TypeOK, PeerTypes, Peers
    <3> QED BY <3>4, <3>5, <3>6 DEF PeerTypes
  <2>3. CASE ConnectToTerminate(c) \/ PeerAsks(c, "write") \/ PeerAsks(c, "status")
    BY <2>3 DEF ConnectToTerminate, PeerAsks, TypeOK, PeerTypes, Peers
  <2>4. CASE PeerCloses(c) \/ PeerTerminates(c) \/ PeerSeesClose(c) \/ PeerDrops(c)
    BY <2>4 DEF PeerCloses, PeerTerminates, PeerSeesClose, PeerDrops, TypeOK, PeerTypes, Peers
  <2> QED BY <2>1, <2>2, <2>3, <2>4 DEF PeerStep
<1> QED BY <1>1, <1>2, <1>3 DEF TypeOK

LEMMA InitType == Init => TypeOK /\ BufferContiguous
<1> SUFFICES ASSUME NEW spawned \in BOOLEAN, InitWith(spawned) PROVE TypeOK /\ BufferContiguous
  BY DEF Init
<1>1. ChildTypes
  <2>1. proc \in { "none", "running", "exited" } /\ stdout \in BOOLEAN /\ childExit \in BOOLEAN
    <3>1. CASE spawned
      BY <3>1 DEF InitWith
    <3>2. CASE ~spawned
      BY <3>2 DEF InitWith
    <3> QED BY <3>1, <3>2
  <2>2. childIn \in Seq(Conns) /\ exitAt \in Nat
    BY DEF InitWith
  <2>3. signalled = "none" /\ exitFlush \in BOOLEAN /\ overflowed \in BOOLEAN /\ stdinEnded \in BOOLEAN
    BY DEF InitWith
  <2> QED BY <2>1, <2>2, <2>3 DEF ChildTypes
<1>2. BufTypes /\ HostTypes /\ ConnTypes /\ BufferContiguous
  BY DEF InitWith, BufTypes, HostTypes, ConnTypes, BufferContiguous, Contiguous
<1>3. StreamTypes
  BY DEF InitWith, StreamTypes, Nothing
<1>4. PeerTypes
  BY DEF InitWith, PeerTypes, Peers, LiveOnly
<1> QED BY <1>1, <1>2, <1>3, <1>4 DEF TypeOK

LEMMA NextType == TypeOK /\ BufferContiguous /\ [Next]_vars => TypeOK' /\ BufferContiguous'
<1> SUFFICES ASSUME TypeOK, BufferContiguous, [Next]_vars PROVE TypeOK' /\ BufferContiguous'
  OBVIOUS
<1>1. CASE ChildStep
  BY <1>1, ChildLineType, ChildStepsType DEF ChildStep
<1>2. CASE HostTimer
  BY <1>2, ChildStepsType, StopStepsType DEF HostTimer
<1>3. CASE HostSignalled \/ Abort
  BY <1>3, HostSignalledType, StopStepsType
<1>4. CASE Crash
  BY <1>4, CrashType
<1>5. ASSUME NEW c \in Conns, HostStep(c) PROVE TypeOK' /\ BufferContiguous'
  BY <1>5, OnHelloType, OnStatusType, OnTerminateType, HostEndType DEF HostStep
<1>6. ASSUME NEW c \in Conns, PeerStep(c) PROVE TypeOK' /\ BufferContiguous'
  BY <1>6, PeerStepType
<1>7. CASE UNCHANGED vars
  BY <1>7, UnchangedTypes DEF vars, TypeOK, StreamTypes
<1> QED BY <1>1, <1>2, <1>3, <1>4, <1>5, <1>6, <1>7 DEF Next

\* Every variable keeps its type, for every number of connections and every bound.
THEOREM TypeCorrect == Spec => []TypeOK
<1>1. Spec => [](TypeOK /\ BufferContiguous)
  BY InitType, NextType, PTL DEF Spec
<1> QED BY <1>1, PTL

\* The replay buffer never has a hole, whatever lines are skipped, trimmed by bytes or by
\* age, and however many clients read it meanwhile.
THEOREM BufferHasNoHole == Spec => []BufferContiguous
<1>1. Spec => [](TypeOK /\ BufferContiguous)
  BY InitType, NextType, PTL DEF Spec
<1> QED BY <1>1, PTL

-----------------------------------------------------------------------------
(***************************************************************************)
(* The inductive invariant behind the streams.                             *)
(***************************************************************************)

Started(c) == sent[c] # << >>

\* How far a connection of a client got: nothing is written to it before its hello, and
\* nothing else is asked over it before the welcome was read.
ClientHandshake(c) ==
    /\ peer[c] # "asking"
    /\ peer[c] \in { "welcomed", "closing", "terminating" } => Started(c)
    /\ \A i \in 1..Len(up[c]) :
         IF up[c][i].type = "hello"
           THEN Len(up[c]) = 1 /\ ~Started(c) /\ c \notin attached /\ up[c][i].since = asked[c]
           ELSE Started(c)
    /\ c \in watchers => Started(c)
    /\ (c \in attached /\ socket[c] = "open") => Started(c)

\* A connection that only asks for termination never becomes a client.
TerminatorHandshake(c) ==
    /\ c \notin attached
    /\ peer[c] \in { "idle", "asking", "disconnected" }
    /\ \A i \in 1..Len(up[c]) : up[c][i].type = "terminate"

Handshake(c) ==
    /\ peer[c] = "idle" => up[c] = << >> /\ ~Started(c) /\ socket[c] = "none" /\ c \notin attached
    /\ client = c => c \in attached
    /\ c \in Clients => ClientHandshake(c)
    /\ c \in Terminators => TerminatorHandshake(c)

\* What the connection was sent.
Stream(c) ==
    /\ c \in Terminators => LinesOf(sent[c]) = {}
    /\ c \in Clients /\ Started(c) => GoodStream(sent[c], asked[c], lastSeq)
    /\ (client = c /\ socket[c] = "open") => CompleteTo(sent[c], asked[c], lastSeq)

StreamInv == \A c \in Conns : Handshake(c) /\ Stream(c)

\* The invariant implies the three stream properties.
LEMMA StreamInvImplies == TypeOK /\ StreamInv => NoSilentHole /\ LinesAscend /\ ClientCaughtUp
<1> SUFFICES ASSUME TypeOK, StreamInv, NEW c \in Conns
             PROVE  /\ Unbroken(sent[c], asked[c]) /\ Ascending(sent[c])
                    /\ (client = c /\ socket[c] = "open") => CompleteTo(sent[c], asked[c], lastSeq)
  BY DEF NoSilentHole, LinesAscend, ClientCaughtUp
<1>1. Stream(c)
  BY DEF StreamInv
<1>2. LinesOf(sent[c]) = {} => Unbroken(sent[c], asked[c]) /\ Ascending(sent[c])
  BY DEF Unbroken, Ascending
<1>3. ~Started(c) => LinesOf(sent[c]) = {}
  BY DEF Started, LinesOf
<1>4. CASE c \in Clients /\ Started(c)
  BY <1>1, <1>4 DEF Stream, GoodStream
<1>5. CASE c \in Terminators \/ ~Started(c)
  BY <1>1, <1>2, <1>3, <1>5 DEF Stream
<1> QED BY <1>1, <1>4, <1>5 DEF Conns, Stream

LEMMA InitStream == Init => StreamInv
<1> SUFFICES ASSUME NEW spawned \in BOOLEAN, InitWith(spawned), NEW c \in Conns PROVE Handshake(c) /\ Stream(c)
  BY DEF Init, StreamInv
<1>1. /\ peer[c] = "idle" /\ up[c] = << >> /\ sent[c] = << >> /\ socket[c] = "none"
      /\ attached = {} /\ watchers = {} /\ client # c
  BY ConnAssumption DEF InitWith, Nothing
<1>2. Handshake(c)
  BY <1>1 DEF Handshake, ClientHandshake, TerminatorHandshake, Started
<1>3. Stream(c)
  BY <1>1 DEF Stream, Started, LinesOf
<1> QED BY <1>2, <1>3

\* A message without a line or a gap, and only to a client that was greeted.
Quiet(t, c) ==
    /\ t \in Seq(Msg)
    /\ \A i \in 1..Len(t) : t[i].type \notin { "line", "gap" }
    /\ c \in Clients /\ ~Started(c) => t = << >>

\* Quiet messages disturb no stream.
LEMMA QuietStream ==
  ASSUME TypeOK, NEW c \in Conns, Handshake(c), Stream(c), NEW t, Quiet(t, c), sent'[c] = sent[c] \o t,
         lastSeq' = lastSeq, asked'[c] = asked[c], socket'[c] = "open" => socket[c] = "open",
         client' = c => client = c
  PROVE  Stream(c)' /\ (Started(c) => Started(c)') /\ (c \in Clients /\ ~Started(c) => ~Started(c)')
<1>1. sent[c] \in Seq(Msg) /\ t \in Seq(Msg) /\ asked[c] \in Nat \cup {LiveOnly} /\ lastSeq \in Nat
  BY DEF TypeOK, StreamTypes, PeerTypes, BufTypes, Quiet
<1>2. Started(c) => Started(c)'
  BY <1>1 DEF Started
<1>3. c \in Clients /\ ~Started(c) => sent'[c] = << >>
  BY DEF Quiet, Started
<1>4. CASE c \in Clients /\ Started(c)
  <2>1. c \notin Terminators
    BY <1>4, ConnAssumption
  <2>2. GoodStream(sent[c], asked[c], lastSeq) /\ Greeted(sent[c])
    BY <1>4 DEF Stream, GoodStream
  <2>3. /\ GoodStream(sent'[c], asked[c], lastSeq)
        /\ CompleteTo(sent[c], asked[c], lastSeq) => CompleteTo(sent'[c], asked[c], lastSeq)
    BY <1>1, <2>2, StreamPlusOther DEF Quiet
  <2> QED BY <2>1, <2>3, <1>2, <1>4 DEF Stream
<1>5. CASE c \in Clients /\ ~Started(c)
  <2>1. c \notin Terminators
    BY <1>5, ConnAssumption
  <2>2. ~ (client = c /\ socket[c] = "open")
    BY <1>5 DEF Handshake, ClientHandshake
  <2> QED BY <2>1, <2>2, <1>3, <1>5 DEF Stream, Started
<1>6. CASE c \in Terminators
  <2>1. c \notin Clients /\ client # c
    BY <1>6, ConnAssumption DEF Handshake, TerminatorHandshake
  <2>2. LinesOf(sent'[c]) = {}
    <3> SUFFICES ASSUME NEW i \in 1..Len(sent'[c]) PROVE sent'[c][i].type # "line"
      BY DEF LinesOf
    <3>1. Len(sent'[c]) = Len(sent[c]) + Len(t) /\ Len(sent[c]) \in Nat /\ Len(t) \in Nat
      BY <1>1
    <3>2. sent'[c][i] = IF i <= Len(sent[c]) THEN sent[c][i] ELSE t[i - Len(sent[c])]
      BY <1>1, <3>1, ConcatProperties
    <3>3. CASE i <= Len(sent[c])
      BY <3>1, <3>2, <3>3, <1>6 DEF Stream, LinesOf
    <3>4. CASE ~ (i <= Len(sent[c]))
      <4>1. i - Len(sent[c]) \in 1..Len(t)
        BY <3>1, <3>4
      <4> QED BY <4>1, <3>2, <3>4 DEF Quiet
    <3> QED BY <3>3, <3>4
  <2> QED BY <2>1, <2>2, <1>2 DEF Stream
<1> QED BY <1>2, <1>3, <1>4, <1>5, <1>6 DEF Conns, Started

\* A connection whose client end and membership do not change keeps its handshake while
\* its requests are handled or lost.
LEMMA HandshakeKept ==
  ASSUME TypeOK, NEW c \in Conns, Handshake(c),
         peer'[c] = peer[c], asked'[c] = asked[c],
         up'[c] = up[c] \/ up'[c] = << >> \/ (up[c] # << >> /\ up'[c] = Tail(up[c])),
         socket'[c] = socket[c] \/ (socket[c] # "none" /\ socket'[c] # "open"),
         c \in attached' <=> c \in attached, client' = c => client = c,
         c \in Clients /\ c \in watchers' => Started(c),
         Started(c) => Started(c)', c \in Clients /\ ~Started(c) => ~Started(c)',
         peer[c] = "idle" => ~Started(c)'
  PROVE  Handshake(c)'
<1>1. up[c] \in Seq(Request) /\ socket[c] \in { "none", "open", "ending", "destroyed", "gone" }
  BY DEF TypeOK, StreamTypes
<1>2. peer'[c] = "idle" => up'[c] = << >> /\ socket'[c] = "none" /\ c \notin attached'
  BY DEF Handshake
<1>3. \A i \in 1..Len(up'[c]) :
        \E j \in 1..Len(up[c]) : up'[c][i] = up[c][j] /\ (Len(up[c]) = 1 => Len(up'[c]) = 1)
  <2>1. CASE up'[c] = up[c]
    BY <2>1
  <2>2. CASE up'[c] = << >>
    BY <2>2
  <2>3. CASE up[c] # << >> /\ up'[c] = Tail(up[c])
    <3> DEFINE s == up[c]
               r == Tail(s)
    <3>1. Len(s) \in Nat /\ Len(r) = Len(s) - 1 /\ \A i \in 1..Len(r) : r[i] = s[i + 1]
      BY <1>1, <2>3, HeadTailProperties
    <3>2. up'[c] = r
      BY <2>3
    <3> HIDE DEF r, s
    <3>3. \A i \in 1..Len(r) : i + 1 \in 1..Len(s) /\ r[i] = s[i + 1] /\ Len(s) # 1
      BY <3>1
    <3>4. \A i \in 1..Len(r) : \E j \in 1..Len(s) : r[i] = s[j] /\ (Len(s) = 1 => Len(r) = 1)
      BY <3>3
    <3> QED BY <3>2, <3>4 DEF s
  <2> QED BY <2>1, <2>2, <2>3
<1>4. c \in Clients => ClientHandshake(c)'
  <2> SUFFICES ASSUME c \in Clients PROVE ClientHandshake(c)'
    OBVIOUS
  <2>1. ClientHandshake(c)
    BY DEF Handshake
  <2>2. ASSUME NEW i \in 1..Len(up'[c])
        PROVE  IF up'[c][i].type = "hello"
                 THEN Len(up'[c]) = 1 /\ ~Started(c)' /\ c \notin attached' /\ up'[c][i].since = asked'[c]
                 ELSE Started(c)'
    <3>1. PICK j \in 1..Len(up[c]) : up'[c][i] = up[c][j] /\ (Len(up[c]) = 1 => Len(up'[c]) = 1)
      BY <1>3, <2>2
    <3>2. IF up[c][j].type = "hello"
            THEN Len(up[c]) = 1 /\ ~Started(c) /\ c \notin attached /\ up[c][j].since = asked[c]
            ELSE Started(c)
      BY <2>1 DEF ClientHandshake
    <3> QED BY <3>1, <3>2
  <2>3. socket'[c] = "open" => socket[c] = "open"
    OBVIOUS
  <2>4. peer'[c] # "asking" /\ (peer'[c] \in { "welcomed", "closing", "terminating" } => Started(c)')
    BY <2>1 DEF ClientHandshake
  <2>5. (c \in watchers' => Started(c)') /\ ((c \in attached' /\ socket'[c] = "open") => Started(c)')
    BY <2>1, <2>3 DEF ClientHandshake
  <2> QED BY <2>2, <2>4, <2>5 DEF ClientHandshake
<1>5. c \in Terminators => TerminatorHandshake(c)'
  <2> SUFFICES ASSUME c \in Terminators PROVE TerminatorHandshake(c)'
    OBVIOUS
  <2>1. TerminatorHandshake(c)
    BY DEF Handshake
  <2> QED BY <1>3, <2>1 DEF TerminatorHandshake
<1>6. client' = c => c \in attached'
  BY DEF Handshake
<1> QED BY <1>2, <1>4, <1>5, <1>6 DEF Handshake

-----------------------------------------------------------------------------
(***************************************************************************)
(* Steps of the host that write quiet messages or none.                    *)
(***************************************************************************)

\* Everything written in one step is quiet.
QuietOut(out) == \A c \in Conns : Quiet(out[c], c) \/ (out[c] \in Seq(Msg) /\ socket[c] # "open" /\ ~Started(c))

\* The common frame of the host's steps: one request handled at most, no new client.
HostFrame ==
    /\ \A c \in Conns : up'[c] = up[c] \/ (up[c] # << >> /\ up'[c] = Tail(up[c]))
    /\ lastSeq' = lastSeq /\ asked' = asked /\ peer' = peer
    /\ attached' = attached /\ client' = client
    /\ \A c \in Clients : c \in watchers' => Started(c)

LEMMA PrefixQuiet ==
  ASSUME NEW c \in Conns, NEW o, Quiet(o, c), NEW k \in 0..Len(o)
  PROVE  Quiet(SubSeq(o, 1, k), c)
<1>1. o \in Seq(Msg) /\ \A i \in 1..k : o[i] \in Msg
  BY DEF Quiet
<1>2. SubSeq(o, 1, k) \in Seq(Msg) /\ Len(SubSeq(o, 1, k)) = k /\ \A i \in 1..k : SubSeq(o, 1, k)[i] = o[i]
  BY <1>1, SubSeqProperties
<1>3. o = << >> => k = 0
  OBVIOUS
<1>4. k = 0 => SubSeq(o, 1, k) = << >>
  BY SubSeqEmpty
<1> QED BY <1>1, <1>2, <1>3, <1>4 DEF Quiet

LEMMA QuietStep ==
  ASSUME TypeOK, StreamInv, HostFrame, NEW out \in [Conns -> Seq(Msg)], NEW ended, Send(out, ended), QuietOut(out)
  PROVE  StreamInv'
<1> SUFFICES ASSUME NEW c \in Conns PROVE Handshake(c)' /\ Stream(c)'
  BY DEF StreamInv, Conns
<1>1. Handshake(c) /\ Stream(c)
  BY DEF StreamInv
<1>2. /\ sent \in [Conns -> Seq(Msg)] /\ rcvd \in [Conns -> Nat] /\ socket \in [Conns -> SocketStates]
  BY DEF TypeOK, StreamTypes, PeerTypes, SocketStates
<1>3. PICK k \in 0..Len(out[c]) :
        /\ sent'[c] = sent[c] \o SubSeq(out[c], 1, k)
        /\ socket'[c] = "open" => socket[c] = "open" /\ k = Len(out[c])
  BY <1>2, SendWrites
<1>4. socket'[c] = IF socket[c] # "open" THEN socket[c]
                   ELSE IF Len(out[c]) > Room(c) THEN "destroyed" ELSE IF c \in ended THEN "ending" ELSE "open"
  BY DEF Send
<1>5. \E t : Quiet(t, c) /\ sent'[c] = sent[c] \o t /\ (socket[c] # "open" => sent'[c] = sent[c])
  <2>1. socket[c] # "open" => sent'[c] = sent[c]
    BY DEF Send
  <2>2. CASE Quiet(out[c], c)
    BY <2>1, <2>2, <1>3, PrefixQuiet
  <2>3. CASE socket[c] # "open" /\ ~Started(c)
    <3>1. Quiet(<< >>, c)
      BY DEF Quiet
    <3>2. sent[c] = sent[c] \o << >>
      BY <1>2, ConcatEmptySeq
    <3> QED BY <2>1, <2>3, <3>1, <3>2
  <2> QED BY <2>2, <2>3 DEF QuietOut
<1>6. PICK t : Quiet(t, c) /\ sent'[c] = sent[c] \o t /\ (socket[c] # "open" => sent'[c] = sent[c])
  BY <1>5
<1>7. Stream(c)' /\ (Started(c) => Started(c)') /\ (c \in Clients /\ ~Started(c) => ~Started(c)')
  BY <1>1, <1>3, <1>6, QuietStream DEF HostFrame
<1>8. peer[c] = "idle" => ~Started(c)'
  BY <1>1, <1>6 DEF Handshake, Started
<1>9. socket'[c] = socket[c] \/ (socket[c] # "none" /\ socket'[c] # "open")
  BY <1>4
<1>10. /\ up'[c] = up[c] \/ up'[c] = << >> \/ (up[c] # << >> /\ up'[c] = Tail(up[c]))
       /\ peer'[c] = peer[c] /\ asked'[c] = asked[c] /\ attached' = attached
       /\ client' = c => client = c
       /\ c \in Clients /\ c \in watchers' => Started(c)
  BY DEF HostFrame
<1>11. Handshake(c)'
  BY <1>1, <1>7, <1>8, <1>9, <1>10, HandshakeKept
<1> QED BY <1>7, <1>11

\* A step that writes nothing and opens no connection.
LEMMA SilentStep ==
  ASSUME TypeOK, StreamInv, sent' = sent, lastSeq' = lastSeq, asked' = asked, attached' = attached, peer' = peer,
         client' \in {client, NoConn},
         \A c \in Clients : c \in watchers' => Started(c),
         \A c \in Conns : up'[c] = up[c] \/ up'[c] = << >> \/ (up[c] # << >> /\ up'[c] = Tail(up[c])),
         \A c \in Conns : socket'[c] = socket[c] \/ (socket[c] # "none" /\ socket'[c] # "open")
  PROVE  StreamInv'
<1> SUFFICES ASSUME NEW c \in Conns PROVE Handshake(c)' /\ Stream(c)'
  BY DEF StreamInv, Conns
<1>1. Handshake(c) /\ Stream(c)
  BY DEF StreamInv
<1>2. Quiet(<< >>, c) /\ sent'[c] = sent[c] \o << >>
  BY ConcatEmptySeq DEF Quiet, TypeOK, StreamTypes
<1>3. client' = c => client = c
  BY ConnAssumption
<1>4. socket'[c] = "open" => socket[c] = "open"
  OBVIOUS
<1>5. Stream(c)' /\ (Started(c) => Started(c)') /\ (c \in Clients /\ ~Started(c) => ~Started(c)')
  BY <1>1, <1>2, <1>3, <1>4, QuietStream
<1>6. peer[c] = "idle" => ~Started(c)'
  BY <1>1 DEF Handshake, Started
<1>7. Handshake(c)'
  BY <1>1, <1>3, <1>5, <1>6, HandshakeKept
<1> QED BY <1>5, <1>7

LEMMA ExitQuiet ==
  ASSUME NEW c \in Conns, c \in Clients => Started(c)
  PROVE  Quiet(<< M("exit", 0) >>, c) /\ \A n \in Nat : Quiet(<< M("status", n) >>, c)
<1>1. \A n \in Nat : << M("status", n) >> \in Seq(Msg) /\ M("status", n).type = "status"
  BY MsgType DEF M
<1>2. << M("exit", 0) >> \in Seq(Msg) /\ M("exit", 0).type = "exit"
  BY MsgType DEF M
<1>3. \A m : Len(<< m >>) = 1 /\ << m >>[1] = m
  OBVIOUS
<1> QED BY <1>1, <1>2, <1>3 DEF Quiet

LEMMA EmptyQuiet == \A c \in Conns : Quiet(<< >>, c)
BY DEF Quiet

\* The current client's socket, while it is open, was greeted.
LEMMA ClientStarted ==
  ASSUME StreamInv, NEW c \in Conns, client = c
  PROVE  c \in Clients /\ c \in attached /\ (socket[c] = "open" => Started(c))
<1>1. Handshake(c)
  BY DEF StreamInv
<1> QED BY <1>1 DEF Handshake, TerminatorHandshake, ClientHandshake, Conns

LEMMA ChildEndedStream ==
  ASSUME TypeOK, StreamInv, ChildEnded
  PROVE  StreamInv'
<1> DEFINE out == [c \in Conns |-> IF c \in watchers \cup {client} THEN << M("exit", 0) >> ELSE << >>]
           last == IF phase = "no" THEN watchers ELSE Conns
<1>1. out \in [Conns -> Seq(Msg)]
  BY MsgType
<1>2. Send(out, last)
  BY Zenon DEF ChildEnded
<1>3. QuietOut(out)
  <2> SUFFICES ASSUME NEW c \in Conns
               PROVE  Quiet(out[c], c) \/ (out[c] \in Seq(Msg) /\ socket[c] # "open" /\ ~Started(c))
    BY DEF QuietOut
  <2>1. CASE c \in watchers
    <3>1. c \in Clients => Started(c)
      BY <2>1 DEF StreamInv, Handshake, ClientHandshake
    <3> QED BY <2>1, <3>1, ExitQuiet
  <2>2. CASE client = c
    BY <2>2, ClientStarted, ExitQuiet, MsgType
  <2>3. CASE c \notin watchers \cup {client}
    BY <2>3, EmptyQuiet
  <2> QED BY <2>1, <2>2, <2>3
<1> HIDE DEF out, last
<1>4. HostFrame
  BY DEF HostFrame, ChildEnded, peerVars
<1> QED BY <1>1, <1>2, <1>3, <1>4, QuietStep

LEMMA NothingQuiet == QuietOut(Nothing)
BY EmptyQuiet DEF QuietOut, Nothing

LEMMA WatchersStarted ==
  ASSUME StreamInv
  PROVE  \A c \in Clients : c \in watchers => Started(c)
BY DEF StreamInv, Handshake, ClientHandshake, Conns

LEMMA StopStepsStream ==
  ASSUME TypeOK, StreamInv, HostSignalled \/ LingerExpires \/ Abort
  PROVE  StreamInv'
<1>1. HostFrame
  BY WatchersStarted DEF HostFrame, HostSignalled, LingerExpires, Abort, bufVars, connVars, peerVars
<1>2. \E ended : Send(Nothing, ended)
  BY DEF HostSignalled, LingerExpires, Abort
<1> QED BY <1>1, <1>2, NothingType, NothingQuiet, QuietStep

\* A request other than a hello comes over a connection that was greeted, or that only
\* asks for termination.
LEMMA RequesterStarted ==
  ASSUME TypeOK, StreamInv, NEW c \in Conns, NEW type, type # "hello", Receives(c, type)
  PROVE  /\ c \in Clients => Started(c)
         /\ up'[c] = Tail(up[c]) /\ \A d \in Conns : up'[d] = up[d] \/ (up[d] # << >> /\ up'[d] = Tail(up[d]))
<1>1. up[c] \in Seq(Request) /\ up[c] # << >>
  BY DEF TypeOK, StreamTypes, Receives
<1>2. 1 \in 1..Len(up[c]) /\ up[c][1].type = type
  BY <1>1 DEF Receives
<1>3. c \in Clients => Started(c)
  BY <1>2 DEF StreamInv, Handshake, ClientHandshake
<1>4. up' = [up EXCEPT ![c] = Tail(up[c])] /\ up \in [Conns -> Seq(Request)]
  BY DEF Receives, TypeOK, StreamTypes
<1> QED BY <1>1, <1>3, <1>4

LEMMA OnStatusStream ==
  ASSUME TypeOK, StreamInv, NEW c \in Conns, OnStatus(c)
  PROVE  StreamInv'
<1> DEFINE out == To(c, << M("status", lastSeq) >>)
<1>1. lastSeq \in Nat
  BY DEF TypeOK, BufTypes
<1>2. out \in [Conns -> Seq(Msg)]
  BY <1>1, MsgType, ToType
<1>3. Send(out, IF c \in attached THEN {} ELSE {c})
  BY Zenon DEF OnStatus
<1>4. QuietOut(out)
  BY <1>1, RequesterStarted, ExitQuiet, EmptyQuiet DEF QuietOut, To, Nothing, OnStatus
<1>5. HostFrame
  BY RequesterStarted, WatchersStarted DEF HostFrame, OnStatus, connVars, peerVars
<1> HIDE DEF out
<1> QED BY <1>2, <1>3, <1>4, <1>5, QuietStep

LEMMA OnTerminateStream ==
  ASSUME TypeOK, StreamInv, NEW c \in Conns, OnTerminate(c)
  PROVE  StreamInv'
<1> DEFINE out == IF childExit THEN To(c, << M("exit", 0) >>) ELSE Nothing
           last == IF host' = "stopped" THEN Conns ELSE IF childExit THEN {c} ELSE {}
<1>1. out \in [Conns -> Seq(Msg)]
  BY MsgType, ToType, NothingType
<1>2. Send(out, last)
  BY Zenon DEF OnTerminate
<1>3. c \in Clients => Started(c)
  BY RequesterStarted DEF OnTerminate
<1>4. QuietOut(out)
  <2>1. CASE childExit
    BY <2>1, <1>3, ExitQuiet, EmptyQuiet DEF QuietOut, To, Nothing
  <2>2. CASE ~childExit
    BY <2>2, NothingQuiet
  <2> QED BY <2>1, <2>2
<1>5. HostFrame
  <2>1. \A d \in Clients : d \in watchers' => Started(d)
    BY <1>3, WatchersStarted DEF OnTerminate
  <2> QED BY <2>1, RequesterStarted DEF HostFrame, OnTerminate, bufVars, peerVars
<1> HIDE DEF out, last
<1> QED BY <1>1, <1>2, <1>4, <1>5, QuietStep

LEMMA SilentSteps ==
  ASSUME TypeOK, StreamInv,
         ChildExits \/ GraceExpires \/ (childExit /\ (LineOverflow \/ StdoutCloses)) \/ Crash
  PROVE  StreamInv'
<1>1. /\ sent' = sent /\ lastSeq' = lastSeq /\ asked' = asked /\ attached' = attached /\ peer' = peer
      /\ client' = client /\ watchers' = watchers /\ up' = up
  BY DEF ChildExits, GraceExpires, LineOverflow, StdoutCloses, Crash, bufVars, connVars, peerVars
<1>2. \A c \in Conns : socket'[c] = socket[c] \/ (socket[c] # "none" /\ socket'[c] # "open")
  <2>1. socket' = socket \/ socket' = [c \in Conns |-> IF socket[c] = "none" THEN "none" ELSE "gone"]
    BY DEF ChildExits, GraceExpires, LineOverflow, StdoutCloses, Crash
  <2> QED BY <2>1
<1> QED BY <1>1, <1>2, WatchersStarted, SilentStep

LEMMA OnWriteStream ==
  ASSUME TypeOK, StreamInv, NEW c \in Conns, OnWrite(c)
  PROVE  StreamInv'
<1>1. /\ sent' = sent /\ lastSeq' = lastSeq /\ asked' = asked /\ attached' = attached /\ peer' = peer
      /\ client' = client /\ watchers' = watchers /\ socket' = socket
  BY DEF OnWrite, bufVars, connVars, peerVars
<1>2. \A d \in Conns : up'[d] = up[d] \/ (up[d] # << >> /\ up'[d] = Tail(up[d]))
  BY RequesterStarted DEF OnWrite
<1> QED BY <1>1, <1>2, WatchersStarted, SilentStep

LEMMA SocketClosesStream ==
  ASSUME TypeOK, StreamInv, NEW c \in Conns, SocketCloses(c)
  PROVE  StreamInv'
<1>1. /\ sent' = sent /\ lastSeq' = lastSeq /\ asked' = asked /\ attached' = attached /\ peer' = peer
      /\ client' \in {client, NoConn} /\ watchers' \subseteq watchers
  BY DEF SocketCloses, bufVars, peerVars
<1>2. \A d \in Conns : up'[d] = up[d] \/ up'[d] = << >>
  BY DEF SocketCloses, TypeOK, StreamTypes
<1>3. \A d \in Conns : socket'[d] = socket[d] \/ (socket[d] # "none" /\ socket'[d] # "open")
  <2>1. socket[c] # "none"
    BY DEF SocketCloses
  <2>2. \/ socket' = [socket EXCEPT ![c] = "gone"]
        \/ socket' = [d \in Conns |-> IF d = c THEN "gone" ELSE IF socket[d] = "open" THEN "ending" ELSE socket[d]]
    BY DEF SocketCloses
  <2> QED BY <2>1, <2>2 DEF TypeOK, StreamTypes
<1> QED BY <1>1, <1>2, <1>3, WatchersStarted, SilentStep

-----------------------------------------------------------------------------
(***************************************************************************)
(* The steps that write lines, and the steps of the clients.               *)
(***************************************************************************)

\* SendWrites for one connection, from the type invariant.
LEMMA SendTo ==
  ASSUME TypeOK, NEW out \in [Conns -> Seq(Msg)], NEW ended, Send(out, ended), NEW c \in Conns
  PROVE  /\ \E k \in 0..Len(out[c]) :
              /\ sent'[c] = sent[c] \o SubSeq(out[c], 1, k)
              /\ socket'[c] = "open" => socket[c] = "open" /\ k = Len(out[c])
              /\ (socket[c] = "open" /\ sent[c] = << >> /\ out[c] # << >>) => k >= 1
         /\ socket[c] # "open" => sent'[c] = sent[c]
         /\ socket'[c] = socket[c] \/ (socket[c] # "none" /\ socket'[c] # "open")
<1>1. /\ sent \in [Conns -> Seq(Msg)] /\ rcvd \in [Conns -> Nat] /\ socket \in [Conns -> SocketStates]
  BY DEF TypeOK, StreamTypes, PeerTypes, SocketStates
<1>2. socket[c] # "open" => sent'[c] = sent[c]
  BY DEF Send
<1>3. socket'[c] = socket[c] \/ (socket[c] # "none" /\ socket'[c] # "open")
  BY DEF Send
<1> QED BY <1>1, <1>2, <1>3, SendWrites

\* The next line: to the current client, if its backlog has room.
LEMMA ChildLineStream ==
  ASSUME TypeOK, StreamInv, NEW bytes \in LineBytes, ChildLine(bytes)
  PROVE  StreamInv'
<1> DEFINE line == << M("line", lastSeq + 1) >>
           out == [c \in Conns |-> IF c = client THEN line ELSE << >>]
<1> SUFFICES ASSUME NEW c \in Conns PROVE Handshake(c)' /\ Stream(c)'
  BY DEF StreamInv, Conns
<1>1. Handshake(c) /\ Stream(c)
  BY DEF StreamInv
<1>2. lastSeq' = lastSeq + 1 /\ lastSeq \in Nat
  BY DEF ChildLine, TypeOK, BufTypes
<1>3. out \in [Conns -> Seq(Msg)] /\ Len(line) = 1 /\ line \in Seq(Msg)
  BY <1>2, MsgType
<1>4. Send(out, {})
  BY Zenon DEF ChildLine
<1>5. /\ asked' = asked /\ peer' = peer /\ attached' = attached /\ client' = client /\ watchers' = watchers
      /\ up' = up
  BY DEF ChildLine, connVars, peerVars
<1> HIDE DEF line
<1>0. (client = c => out[c] = line) /\ (client # c => out[c] = << >>)
  OBVIOUS
<1> HIDE DEF out
<1>6. sent[c] \in Seq(Msg) /\ asked[c] \in Nat \cup {LiveOnly}
  BY DEF TypeOK, StreamTypes, PeerTypes
<1>7. \/ sent'[c] = sent[c] /\ (client = c => socket'[c] # "open") /\ (socket'[c] = "open" => socket[c] = "open")
      \/ client = c /\ socket[c] = "open" /\ sent'[c] = sent[c] \o line
  <2>1. PICK k \in 0..Len(out[c]) :
          /\ sent'[c] = sent[c] \o SubSeq(out[c], 1, k)
          /\ socket'[c] = "open" => socket[c] = "open" /\ k = Len(out[c])
    BY <1>3, <1>4, SendTo
  <2>2. socket[c] # "open" => sent'[c] = sent[c]
    BY <1>3, <1>4, SendTo
  <2>3. k = 0 => sent'[c] = sent[c]
    <3>1. SubSeq(out[c], 1, 0) = << >>
      BY SubSeqEmpty
    <3> QED BY <2>1, <3>1, <1>6, ConcatEmptySeq
  <2>4. CASE client # c
    <3>1. k = 0
      BY <1>0, <2>4
    <3> QED BY <2>1, <2>3, <2>4, <3>1
  <2>5. CASE client = c
    <3>1. out[c] = line /\ k \in {0, 1} /\ SubSeq(line, 1, 1) = line
      <4>1. out[c] = line /\ Len(line) = 1 /\ line \in Seq(Msg)
        BY <1>0, <1>3, <2>5
      <4>2. SubSeq(line, 1, Len(line)) = line
        BY <4>1
      <4>3. k \in 0..1
        BY <4>1
      <4> QED BY <4>1, <4>2, <4>3
    <3> QED BY <2>1, <2>2, <2>3, <2>5, <3>1, <1>3
  <2> QED BY <2>4, <2>5
<1>8. Stream(c)' /\ (Started(c) => Started(c)') /\ (c \in Clients /\ ~Started(c) => ~Started(c)')
      /\ (peer[c] = "idle" => ~Started(c)')
  <2>1. CASE sent'[c] = sent[c] /\ (client = c => socket'[c] # "open")
    <3>1. GoodStream(sent[c], asked[c], lastSeq) => GoodStream(sent[c], asked[c], lastSeq + 1)
      BY <1>2, StreamLater
    <3> QED BY <3>1, <2>1, <1>1, <1>2, <1>5 DEF Stream, Started, Handshake
  <2>2. CASE client = c /\ socket[c] = "open" /\ sent'[c] = sent[c] \o line
    <3>1. c \in Clients /\ Started(c) /\ c \in attached /\ c \notin Terminators
      BY <2>2, ClientStarted, ConnAssumption
    <3>2. GoodStream(sent[c], asked[c], lastSeq) /\ CompleteTo(sent[c], asked[c], lastSeq)
      BY <1>1, <2>2, <3>1 DEF Stream
    <3>3. GoodStream(sent'[c], asked[c], lastSeq + 1) /\ CompleteTo(sent'[c], asked[c], lastSeq + 1)
      BY <1>2, <1>6, <2>2, <3>2, StreamPlusLine DEF line
    <3>4. sent'[c] # << >>
      BY <3>3 DEF GoodStream, Greeted
    <3> QED BY <3>1, <3>3, <3>4, <1>1, <1>2, <1>5 DEF Stream, Started, Handshake
  <2> QED BY <1>7, <2>1, <2>2
<1>9. socket'[c] = socket[c] \/ (socket[c] # "none" /\ socket'[c] # "open")
  BY <1>3, <1>4, SendTo
<1>10. Handshake(c)'
  BY <1>1, <1>5, <1>8, <1>9, WatchersStarted, HandshakeKept
<1> QED BY <1>8, <1>10

\* hello: the greeting to the new client, "replaced" to the one before.
LEMMA OnHelloStream ==
  ASSUME TypeOK, BufferContiguous, StreamInv, NEW c \in Conns, OnHello(c)
  PROVE  StreamInv'
<1> DEFINE since == Head(up[c]).since
           out == [d \in Conns |-> IF d = c THEN Greeting(buf', Head(up[c]).since)
                                   ELSE IF d = client THEN << M("replaced", 0) >> ELSE << >>]
<1>1. up[c] \in Seq(Request) /\ up[c] # << >> /\ 1 \in 1..Len(up[c]) /\ up[c][1].type = "hello"
      /\ since = up[c][1].since
  BY DEF TypeOK, StreamTypes, OnHello, Receives
<1>2. Handshake(c) /\ Stream(c)
  BY DEF StreamInv
<1>3. c \in Clients /\ c \notin Terminators
  BY <1>1, <1>2, ConnAssumption DEF Handshake, TerminatorHandshake, Conns
<1>4. ~Started(c) /\ c \notin attached /\ since = asked[c] /\ Len(up[c]) = 1
  BY <1>1, <1>2, <1>3 DEF Handshake, ClientHandshake
<1>5. buf' \in Seq(Entry) /\ Contiguous(buf', lastSeq) /\ lastSeq \in Nat /\ childExit \in BOOLEAN
  BY BufferType DEF OnHello, TypeOK, BufTypes, ChildTypes
<1>6. asked[c] \in Nat \cup {LiveOnly} /\ sent \in [Conns -> Seq(Msg)]
  BY DEF TypeOK, PeerTypes, StreamTypes
<1>7. Greeting(buf', since) \in Seq(Msg)
  BY OnHelloType
<1>8. out \in [Conns -> Seq(Msg)]
  BY <1>7, MsgType
<1>9. Send(out, {client} \ {c})
  BY Zenon DEF OnHello
<1>10. /\ lastSeq' = lastSeq /\ asked' = asked /\ peer' = peer /\ attached' = attached \cup {c} /\ client' = c
       /\ watchers' = watchers
       /\ up' = [up EXCEPT ![c] = Tail(up[c])]
  BY DEF OnHello, Receives, peerVars
<1> DEFINE g == Greeting(buf', since)
<1>0. /\ out[c] = g
      /\ \A d \in Conns : d # c => out[d] = IF d = client THEN << M("replaced", 0) >> ELSE << >>
  OBVIOUS
<1> HIDE DEF since, out
<1>11. Handshake(c)' /\ Stream(c)'
  <2>1. out[c] = g
    BY <1>0
  <2> HIDE DEF g
  <2>2. PICK k \in 0..Len(g) :
          /\ sent'[c] = sent[c] \o SubSeq(g, 1, k)
          /\ socket'[c] = "open" => socket[c] = "open" /\ k = Len(g)
    BY <1>8, <1>9, <2>1, SendTo
  <2>3. Len(g) \in Nat /\ Len(g) >= 1
    <3>1. PICK p \in {1, 2}, q \in 0..lastSeq, x \in {0, 1} :
            GreetingShape(Greeting(buf', since), buf', since, p, q, x)
      <4>1. since \in Nat \cup {LiveOnly}
        BY <1>4, <1>6
      <4> QED BY <4>1, <1>5, GreetingHasShape
    <3>2. Len(g) = p + q + x
      BY <3>1 DEF GreetingShape, g
    <3> QED BY <3>2, <1>5
  <2>4. sent'[c] = SubSeq(g, 1, k)
    <3>1. SubSeq(g, 1, k) \in Seq(Msg)
      BY <1>7, SubSeqProperties DEF g
    <3>2. sent[c] = << >>
      BY <1>4 DEF Started
    <3> QED BY <2>2, <3>1, <3>2, ConcatEmptySeq
  <2>5. k = 0 => sent'[c] = << >>
    BY <2>4, SubSeqEmpty
  <2>6. k # 0 => GoodStream(sent'[c], asked[c], lastSeq)
    BY <2>4, <1>4, <1>5, <1>6, GreetingPrefixGood DEF g
  <2>7. k # 0 => sent'[c] # << >>
    BY <2>6 DEF GoodStream, Greeted
  <2>8. socket'[c] = "open" => k # 0 /\ CompleteTo(sent'[c], asked[c], lastSeq)
    <3> SUFFICES ASSUME socket'[c] = "open" PROVE k # 0 /\ CompleteTo(sent'[c], asked[c], lastSeq)
      OBVIOUS
    <3>1. k = Len(g) /\ k \in 1..Len(g)
      BY <2>2, <2>3
    <3>2. CompleteTo(SubSeq(g, 1, k), since, lastSeq)
      BY <3>1, <1>4, <1>5, <1>6, GreetingPrefixGood DEF g
    <3> QED BY <3>1, <3>2, <2>3, <2>4, <1>4
  <2>9. Stream(c)'
    BY <2>5, <2>6, <2>8, <1>3, <1>10 DEF Stream, Started
  <2>10. up'[c] = << >>
    <3>1. up'[c] = Tail(up[c])
      BY <1>10 DEF TypeOK, StreamTypes
    <3>2. Tail(up[c]) \in Seq(Request) /\ Len(Tail(up[c])) = 0
      BY <1>1, <1>4, HeadTailProperties
    <3> DEFINE r == Tail(up[c])
    <3> HIDE DEF r
    <3>3. r = << >>
      <4>1. r \in Seq(Request) /\ Len(r) = 0
        BY <3>2 DEF r
      <4> QED BY <4>1, EmptySeq
    <3> QED BY <3>1, <3>3 DEF r
  <2>11. ClientHandshake(c)
    BY <1>2, <1>3 DEF Handshake
  <2>12. ClientHandshake(c)'
    BY <2>7, <2>8, <2>10, <2>11, <1>4, <1>10 DEF ClientHandshake, Started
  <2>13. peer[c] # "idle"
    BY <1>1, <1>2 DEF Handshake
  <2> QED BY <2>9, <2>12, <2>13, <1>3, <1>10 DEF Handshake
<1>12. ASSUME NEW d \in Conns, d # c PROVE Handshake(d)' /\ Stream(d)'
  <2>1. Handshake(d) /\ Stream(d)
    BY DEF StreamInv
  <2>2. sent[d] \in Seq(Msg) /\ (d = client => d \in Clients /\ (socket[d] = "open" => Started(d)))
    BY <1>6, ClientStarted
  <2>3. out[d] = IF d = client THEN << M("replaced", 0) >> ELSE << >>
    BY <1>0, <1>12
  <2>4. PICK k \in 0..Len(out[d]) :
          /\ sent'[d] = sent[d] \o SubSeq(out[d], 1, k)
          /\ socket'[d] = "open" => socket[d] = "open" /\ k = Len(out[d])
    BY <1>8, <1>9, SendTo
  <2>5. socket[d] # "open" => sent'[d] = sent[d]
    BY <1>8, <1>9, SendTo
  <2>6. Quiet(<< >>, d) /\ sent[d] = sent[d] \o << >>
    BY <2>2, EmptyQuiet, ConcatEmptySeq
  <2>7. \E t : Quiet(t, d) /\ sent'[d] = sent[d] \o t
    <3>1. CASE socket[d] # "open"
      BY <3>1, <2>5, <2>6
    <3>2. CASE d # client
      <4>1. out[d] = << >> /\ k = 0
        BY <2>3, <3>2
      <4>2. SubSeq(out[d], 1, k) = << >>
        BY <4>1, SubSeqEmpty
      <4> QED BY <4>2, <2>4, <2>6
    <3>3. CASE d = client /\ socket[d] = "open"
      <4>1. Quiet(out[d], d)
        <5>1. out[d] \in Seq(Msg) /\ Len(out[d]) = 1 /\ out[d][1].type = "replaced"
          BY <2>3, <3>3, MsgType DEF M
        <5> QED BY <5>1, <2>2, <3>3 DEF Quiet
      <4> QED BY <4>1, <2>4, PrefixQuiet
    <3> QED BY <3>1, <3>2, <3>3
  <2>8. PICK t : Quiet(t, d) /\ sent'[d] = sent[d] \o t
    BY <2>7
  <2>9. client' # d
    BY <1>10, <1>12
  <2>10. Stream(d)' /\ (Started(d) => Started(d)') /\ (d \in Clients /\ ~Started(d) => ~Started(d)')
    BY <2>1, <2>4, <2>8, <2>9, <1>10, QuietStream
  <2>11. peer[d] = "idle" => ~Started(d)'
    <3>1. peer[d] = "idle" => socket[d] # "open" /\ sent[d] = << >>
      BY <2>1 DEF Handshake, Started
    <3> QED BY <3>1, <2>5 DEF Started
  <2>12. socket'[d] = socket[d] \/ (socket[d] # "none" /\ socket'[d] # "open")
    BY <1>8, <1>9, SendTo
  <2>13. up'[d] = up[d]
    BY <1>10, <1>12 DEF TypeOK, StreamTypes
  <2>14. (d \in attached' <=> d \in attached) /\ (d \in Clients /\ d \in watchers' => Started(d))
    BY <1>10, <1>12, WatchersStarted
  <2>15. Handshake(d)'
    BY <2>1, <2>9, <2>10, <2>11, <2>12, <2>13, <2>14, <1>10, HandshakeKept
  <2> QED BY <2>10, <2>15
<1> QED BY <1>11, <1>12 DEF StreamInv, Conns

\* A connection nothing happens to.
LEMMA UntouchedStream ==
  ASSUME TypeOK, NEW d \in Conns, Handshake(d), Stream(d),
         sent'[d] = sent[d], socket'[d] = socket[d], up'[d] = up[d], peer'[d] = peer[d], asked'[d] = asked[d],
         lastSeq' = lastSeq, attached' = attached, client' = client, watchers' = watchers
  PROVE  Handshake(d)' /\ Stream(d)'
BY DEF Handshake, ClientHandshake, TerminatorHandshake, Stream, Started

LEMMA PeerStepStream ==
  ASSUME TypeOK, StreamInv, NEW c \in Conns, PeerStep(c)
  PROVE  StreamInv'
<1>1. /\ sent' = sent /\ lastSeq' = lastSeq /\ attached' = attached /\ client' = client /\ watchers' = watchers
  BY DEF PeerStep, Connect, ConnectToTerminate, PeerReceives, PeerAsks, PeerCloses,
     PeerTerminates, PeerSeesClose, PeerDrops, bufVars, connVars
<1>2. \A d \in Conns \ {c} : /\ socket'[d] = socket[d] /\ up'[d] = up[d]
                             /\ peer'[d] = peer[d] /\ asked'[d] = asked[d]
  <2>1. ASSUME NEW since \in Sinces, Connect(c, since)
        PROVE  \A d \in Conns \ {c} : /\ socket'[d] = socket[d] /\ up'[d] = up[d]
                                     /\ peer'[d] = peer[d] /\ asked'[d] = asked[d]
    BY <2>1 DEF Connect, TypeOK, StreamTypes, PeerTypes
  <2>2. CASE ConnectToTerminate(c)
    BY <2>2 DEF ConnectToTerminate, Ask, TypeOK, StreamTypes, PeerTypes
  <2>3. CASE PeerReceives(c)
    BY <2>3 DEF PeerReceives, TypeOK, StreamTypes, PeerTypes
  <2>4. CASE PeerAsks(c, "write") \/ PeerAsks(c, "status") \/ PeerTerminates(c)
    BY <2>4 DEF PeerAsks, PeerTerminates, Ask, TypeOK, StreamTypes, PeerTypes
  <2>5. CASE PeerCloses(c) \/ PeerSeesClose(c) \/ PeerDrops(c)
    BY <2>5 DEF PeerCloses, PeerSeesClose, PeerDrops, TypeOK, StreamTypes, PeerTypes
  <2> QED BY <2>1, <2>2, <2>3, <2>4, <2>5 DEF PeerStep
<1>3. ASSUME NEW d \in Conns, d # c PROVE Handshake(d)' /\ Stream(d)'
  BY <1>1, <1>2, <1>3, UntouchedStream DEF StreamInv
<1>4. Handshake(c) /\ Stream(c)
  BY DEF StreamInv
<1>5. /\ up \in [Conns -> Seq(Request)] /\ up[c] \in Seq(Request) /\ peer \in [Conns -> Peers]
      /\ socket \in [Conns -> { "none", "open", "ending", "destroyed", "gone" }]
      /\ asked \in [Conns -> Nat \cup {LiveOnly}]
  BY DEF TypeOK, StreamTypes, PeerTypes
<1>6. ASSUME NEW since \in Sinces, c \in Clients, Connect(c, since) PROVE Handshake(c)' /\ Stream(c)'
  <2>1. up[c] = << >> /\ sent[c] = << >> /\ c \notin attached /\ client # c /\ peer[c] = "idle"
    BY <1>4, <1>6 DEF Connect, Handshake, Started
  <2>2. up'[c] = << R("hello", since) >> /\ asked'[c] = since /\ peer'[c] = "connecting"
    BY <1>5, <1>6 DEF Connect
  <2>3. c \notin Terminators /\ c \notin watchers
    BY <1>4, <1>6, <2>1, ConnAssumption DEF Handshake, ClientHandshake, Started
  <2>4. ClientHandshake(c)'
    <3>1. R("hello", since).type = "hello" /\ R("hello", since).since = since
      BY DEF R
    <3>2. Len(up'[c]) = 1 /\ \A i \in 1..Len(up'[c]) : up'[c][i] = R("hello", since)
      BY <2>2
    <3> QED BY <3>1, <3>2, <2>1, <2>2, <2>3, <1>1 DEF ClientHandshake, Started
  <2> QED BY <2>1, <2>2, <2>3, <2>4, <1>1, <1>6 DEF Handshake, Stream, Started
<1>7. ASSUME c \in Terminators, ConnectToTerminate(c) PROVE Handshake(c)' /\ Stream(c)'
  <2>1. up[c] = << >> /\ sent[c] = << >> /\ c \notin attached /\ client # c
    BY <1>4, <1>7 DEF ConnectToTerminate, Handshake, Started
  <2>2. up'[c] = << R("terminate", LiveOnly) >> /\ peer'[c] = "asking"
    BY <1>5, <1>7, <2>1 DEF ConnectToTerminate, Ask
  <2>3. R("terminate", LiveOnly).type = "terminate"
    BY DEF R
  <2>4. Len(up'[c]) = 1 /\ \A i \in 1..Len(up'[c]) : up'[c][i] = R("terminate", LiveOnly)
    BY <2>2
  <2>5. TerminatorHandshake(c)' /\ c \notin Clients
    BY <2>1, <2>2, <2>3, <2>4, <1>1, <1>7, ConnAssumption DEF TerminatorHandshake
  <2> QED BY <2>1, <2>2, <2>5, <1>1, <1>4, <1>7 DEF Handshake, Stream, Started
<1>8. ASSUME PeerAsks(c, "write") \/ PeerAsks(c, "status") \/ PeerTerminates(c)
      PROVE  Handshake(c)' /\ Stream(c)'
  <2>1. PICK type \in { "write", "status", "terminate" } : up' = [up EXCEPT ![c] = Append(@, R(type, LiveOnly))]
    BY <1>8 DEF PeerAsks, PeerTerminates, Ask
  <2>2. peer[c] = "welcomed" /\ peer'[c] \in { "welcomed", "terminating" }
        /\ socket' = socket /\ asked' = asked
    BY <1>5, <1>8 DEF PeerAsks, PeerTerminates
  <2>3. c \in Clients /\ c \notin Terminators /\ Started(c) /\ ClientHandshake(c)
    BY <1>4, <2>2, ConnAssumption DEF Handshake, TerminatorHandshake, ClientHandshake, Conns
  <2>4. R(type, LiveOnly) \in Request /\ R(type, LiveOnly).type # "hello"
    BY DEF R, Request
  <2>5. up'[c] = Append(up[c], R(type, LiveOnly))
    BY <1>5, <2>1
  <2>6. Len(up'[c]) = Len(up[c]) + 1 /\ \A i \in 1..Len(up'[c]) :
            up'[c][i] = IF i = Len(up[c]) + 1 THEN R(type, LiveOnly) ELSE up[c][i]
    BY <1>5, <2>4, <2>5, AppendProperties
  <2>7. \A i \in 1..Len(up'[c]) : up'[c][i].type # "hello"
    <3> SUFFICES ASSUME NEW i \in 1..Len(up'[c]) PROVE up'[c][i].type # "hello"
      OBVIOUS
    <3>1. CASE i = Len(up[c]) + 1
      BY <3>1, <2>4, <2>6
    <3>2. CASE i # Len(up[c]) + 1
      <4>1. i \in 1..Len(up[c]) /\ up'[c][i] = up[c][i]
        BY <3>2, <2>6, <1>5
      <4> QED BY <4>1, <2>3 DEF ClientHandshake
    <3> QED BY <3>1, <3>2
  <2>8. ClientHandshake(c)'
    BY <2>2, <2>3, <2>7, <1>1 DEF ClientHandshake, Started
  <2> QED BY <2>2, <2>3, <2>8, <1>1, <1>4 DEF Handshake, Stream, Started
<1>9. ASSUME PeerReceives(c) \/ PeerCloses(c) \/ PeerSeesClose(c) \/ PeerDrops(c)
      PROVE  Handshake(c)' /\ Stream(c)'
  <2>1. up' = up /\ socket' = socket /\ asked' = asked /\ peer[c] # "idle" /\ peer'[c] # "idle"
    BY <1>5, <1>9 DEF PeerReceives, PeerCloses, PeerSeesClose, PeerDrops, Reading
  <2>2. peer'[c] = "asking" => peer[c] = "asking"
    BY <1>5, <1>9 DEF PeerReceives, PeerCloses, PeerSeesClose, PeerDrops
  <2>3. c \in Terminators => peer'[c] \in { "asking", "disconnected" }
    BY <1>4, <1>5, <1>9 DEF PeerReceives, PeerCloses, PeerSeesClose, PeerDrops, Reading, Handshake,
       TerminatorHandshake
  <2>4. c \in Clients /\ peer'[c] \in { "welcomed", "closing", "terminating" } => Started(c)
    <3>1. CASE PeerReceives(c)
      <4>1. sent[c] # << >>
        BY <3>1 DEF PeerReceives, TypeOK, PeerTypes, StreamTypes
      <4> QED BY <4>1 DEF Started
    <3>2. CASE ~PeerReceives(c)
      BY <3>2, <1>4, <1>5, <1>9 DEF PeerCloses, PeerSeesClose, PeerDrops, Handshake, ClientHandshake
    <3> QED BY <3>1, <3>2
  <2>5. c \in Clients => ClientHandshake(c)'
    BY <2>1, <2>2, <2>4, <1>1, <1>4 DEF Handshake, ClientHandshake, Started
  <2>6. c \in Terminators => TerminatorHandshake(c)'
    BY <2>1, <2>3, <1>1, <1>4 DEF Handshake, TerminatorHandshake
  <2> QED BY <2>1, <2>5, <2>6, <1>1, <1>4 DEF Handshake, Stream, Started
<1>10. Handshake(c)' /\ Stream(c)'
  BY <1>6, <1>7, <1>8, <1>9 DEF PeerStep
<1> QED BY <1>3, <1>10 DEF StreamInv, Conns

LEMMA NextStream ==
  TypeOK /\ BufferContiguous /\ StreamInv /\ [Next]_vars => StreamInv'
<1> SUFFICES ASSUME TypeOK, BufferContiguous, StreamInv, [Next]_vars PROVE StreamInv'
  OBVIOUS
<1>1. CASE ChildStep
  <2>1. ASSUME NEW bytes \in LineBytes, ChildLine(bytes) PROVE StreamInv'
    BY <2>1, ChildLineStream
  <2>2. CASE childExit /\ (LineOverflow \/ StdoutCloses)
    BY <2>2, SilentSteps
  <2>3. CASE ~childExit /\ (LineOverflow \/ StdoutCloses)
    BY <2>3, ChildEndedStream DEF LineOverflow, StdoutCloses
  <2>4. CASE ChildExits
    BY <2>4, SilentSteps
  <2> QED BY <1>1, <2>1, <2>2, <2>3, <2>4 DEF ChildStep
<1>2. CASE HostTimer
  BY <1>2, ChildEndedStream, SilentSteps, StopStepsStream DEF HostTimer, FlushTimeout, KillWaitExpires
<1>3. CASE HostSignalled \/ Abort
  BY <1>3, StopStepsStream
<1>4. CASE Crash
  BY <1>4, SilentSteps
<1>5. ASSUME NEW c \in Conns, HostStep(c) PROVE StreamInv'
  BY <1>5, OnHelloStream, OnStatusStream, OnTerminateStream, OnWriteStream, SocketClosesStream DEF HostStep
<1>6. ASSUME NEW c \in Conns, PeerStep(c) PROVE StreamInv'
  BY <1>6, PeerStepStream
<1>7. CASE UNCHANGED vars
  <2>1. UNCHANGED << sent, socket, up, peer, asked, lastSeq, attached, client, watchers >>
    BY <1>7 DEF vars, bufVars, connVars, peerVars
  <2> QED BY <2>1, UntouchedStream DEF StreamInv, Conns
<1> QED BY <1>1, <1>2, <1>3, <1>4, <1>5, <1>6, <1>7 DEF Next

LEMMA StreamInvariant == Spec => [](TypeOK /\ BufferContiguous /\ StreamInv)
<1>1. Init => TypeOK /\ BufferContiguous /\ StreamInv
  BY InitType, InitStream
<1>2. TypeOK /\ BufferContiguous /\ StreamInv /\ [Next]_vars => (TypeOK /\ BufferContiguous /\ StreamInv)'
  BY NextType, NextStream
<1> QED BY <1>1, <1>2, PTL DEF Spec

\* No client's stream has a hole it was not told of: for any number of clients that
\* replace each other, any cursor, any buffer and backlog limit, and any failure.
THEOREM StreamsHaveNoSilentHole == Spec => []NoSilentHole
BY StreamInvariant, StreamInvImplies, PTL

\* The lines of every client's stream ascend, so none is delivered twice.
THEOREM StreamsAscend == Spec => []LinesAscend
BY StreamInvariant, StreamInvImplies, PTL

\* The current client has been sent everything the child printed since its stream start.
THEOREM CurrentClientCaughtUp == Spec => []ClientCaughtUp
BY StreamInvariant, StreamInvImplies, PTL

-----------------------------------------------------------------------------
(***************************************************************************)
(* How a host leaves.                                                      *)
(***************************************************************************)

NoRunningChild == proc # "running" \/ signalled = "kill"

\* A child declared ended is gone or was sent SIGKILL; the host stops only after that.
LeaveInv ==
    /\ childExit => NoRunningChild
    /\ linger => childExit
    /\ phase = "kill" => signalled = "kill"
    /\ exitFlush => proc = "exited"
    /\ host = "stopped" => NoRunningChild
    /\ record => host # "stopped" /\ proc # "none"

LEMMA InitLeave == Init => LeaveInv
<1> SUFFICES ASSUME NEW spawned \in BOOLEAN, InitWith(spawned) PROVE LeaveInv
  BY DEF Init
<1>1. CASE spawned
  BY <1>1 DEF InitWith, LeaveInv, NoRunningChild
<1>2. CASE ~spawned
  BY <1>2 DEF InitWith, LeaveInv, NoRunningChild
<1> QED BY <1>1, <1>2

LEMMA NextLeave == LeaveInv /\ [Next]_vars => LeaveInv'
<1> SUFFICES ASSUME LeaveInv, [Next]_vars PROVE LeaveInv'
  OBVIOUS
<1> USE DEF LeaveInv, NoRunningChild
<1>1. ASSUME NEW bytes \in LineBytes, ChildLine(bytes) PROVE LeaveInv'
  BY <1>1 DEF ChildLine, childVars, hostVars
<1>2. CASE LineOverflow
  <2>1. CASE childExit
    BY <1>2, <2>1 DEF LineOverflow, hostVars
  <2>2. CASE ~childExit
    BY <1>2, <2>2 DEF LineOverflow, ChildEnded, Stop
  <2> QED BY <2>1, <2>2
<1>3. CASE ChildExits
  BY <1>3 DEF ChildExits, hostVars
<1>4. CASE StdoutCloses
  <2>1. CASE childExit
    BY <1>4, <2>1 DEF StdoutCloses, hostVars
  <2>2. CASE ~childExit
    BY <1>4, <2>2 DEF StdoutCloses, ChildEnded, Stop
  <2> QED BY <2>1, <2>2
<1>5. CASE FlushTimeout
  BY <1>5 DEF FlushTimeout, ChildEnded, Stop
<1>6. CASE GraceExpires
  BY <1>6 DEF GraceExpires, Serving
<1>7. CASE KillWaitExpires
  BY <1>7 DEF KillWaitExpires, ChildEnded, Stop
<1>8. CASE LingerExpires
  BY <1>8 DEF LingerExpires, Stop, childVars
<1>9. CASE HostSignalled
  BY <1>9 DEF HostSignalled, Terminate, Stop, hostVars
<1>10. CASE Abort
  BY <1>10 DEF Abort, Stop
<1>11. CASE Crash
  BY <1>11 DEF Crash, Serving
<1>12. ASSUME NEW c \in Conns, OnHello(c) \/ OnStatus(c) PROVE LeaveInv'
  BY <1>12 DEF OnHello, OnStatus, childVars, hostVars
<1>13. ASSUME NEW c \in Conns, OnWrite(c) PROVE LeaveInv'
  BY <1>13 DEF OnWrite, hostVars
<1>14. ASSUME NEW c \in Conns, OnTerminate(c) PROVE LeaveInv'
  BY <1>14 DEF OnTerminate, Terminate, Stop, hostVars
<1>15. ASSUME NEW c \in Conns, SocketCloses(c) PROVE LeaveInv'
  BY <1>15 DEF SocketCloses, Stop, childVars
<1>16. ASSUME NEW c \in Conns, PeerStep(c) PROVE LeaveInv'
  <2>1. UNCHANGED << childVars, hostVars >>
    BY <1>16 DEF PeerStep, Connect, ConnectToTerminate, PeerReceives, PeerAsks, PeerCloses,
       PeerTerminates, PeerSeesClose, PeerDrops
  <2> QED BY <2>1 DEF childVars, hostVars
<1>17. CASE UNCHANGED vars
  BY <1>17 DEF vars, childVars, hostVars
<1> QED BY <1>1, <1>2, <1>3, <1>4, <1>5, <1>6, <1>7, <1>8, <1>9, <1>10, <1>11, <1>12, <1>13, <1>14, <1>15,
           <1>16, <1>17 DEF Next, ChildStep, HostTimer, HostStep

\* The host never leaves while a child it has not sent SIGKILL may run.
THEOREM HostLeavesNoOrphan == Spec => []NoOrphanAtStop
<1>1. LeaveInv => NoOrphanAtStop
  BY DEF LeaveInv, NoRunningChild, NoOrphanAtStop
<1> QED BY <1>1, InitLeave, NextLeave, PTL DEF Spec

\* The record file never names a host that stopped in order.
THEOREM RecordIsOfServingHost == Spec => []RecordNamesServingHost
<1>1. LeaveInv => RecordNamesServingHost
  BY DEF LeaveInv, RecordNamesServingHost
<1> QED BY <1>1, InitLeave, NextLeave, PTL DEF Spec

-----------------------------------------------------------------------------
(***************************************************************************)
(* Who writes to the child.                                                *)
(***************************************************************************)

\* Connections attach once, the last to attach is the client, and only connections that
\* attached have written.
Replacing ==
    /\ \A p \in 1..Len(attachOrder) : attachOrder[p] \in attached
    /\ \A p, q \in 1..Len(attachOrder) : attachOrder[p] = attachOrder[q] => p = q
    /\ client # NoConn => Len(attachOrder) > 0 /\ attachOrder[Len(attachOrder)] = client
    /\ \A i \in 1..Len(childIn) : childIn[i] \in attached

LEMMA InitReplacing == Init => Replacing /\ LaterClientWins
BY DEF Init, InitWith, Replacing, LaterClientWins

\* The steps that neither attach a connection nor pass on a write.
LEMMA OtherStepsReplacing ==
  ASSUME Replacing, LaterClientWins, UNCHANGED << attached, attachOrder, childIn >>, client' \in {client, NoConn}
  PROVE  Replacing' /\ LaterClientWins'
BY DEF Replacing, LaterClientWins

\* hello: the connection is new, so it comes after all that wrote before.
LEMMA OnHelloReplacing ==
  ASSUME TypeOK, StreamInv, Replacing, LaterClientWins, NEW c \in Conns, OnHello(c)
  PROVE  Replacing' /\ LaterClientWins'
<1>1. up[c] \in Seq(Request) /\ 1 \in 1..Len(up[c]) /\ up[c][1].type = "hello"
  BY DEF TypeOK, StreamTypes, OnHello, Receives
<1>2. c \notin attached
  BY <1>1 DEF StreamInv, Handshake, ClientHandshake, TerminatorHandshake, Conns
<1>3. /\ attachOrder \in Seq(Conns) /\ attachOrder' = Append(attachOrder, c) /\ attached' = attached \cup {c}
      /\ client' = c /\ childIn' = childIn
  BY DEF TypeOK, ConnTypes, OnHello, childVars
<1>4. /\ Len(attachOrder') = Len(attachOrder) + 1 /\ Len(attachOrder) \in Nat
      /\ attachOrder'[Len(attachOrder) + 1] = c
      /\ \A p \in 1..Len(attachOrder) : attachOrder'[p] = attachOrder[p]
  BY <1>3, AppendProperties
<1>5. \A p \in 1..Len(attachOrder') : p = Len(attachOrder) + 1 \/ p \in 1..Len(attachOrder)
  BY <1>4
<1>6. Replacing'
  <2>1. \A p \in 1..Len(attachOrder') : attachOrder'[p] \in attached'
    BY <1>3, <1>4, <1>5 DEF Replacing
  <2>2. \A p, q \in 1..Len(attachOrder') : attachOrder'[p] = attachOrder'[q] => p = q
    BY <1>2, <1>4, <1>5 DEF Replacing
  <2>3. client' # NoConn => Len(attachOrder') > 0 /\ attachOrder'[Len(attachOrder')] = client'
    BY <1>3, <1>4
  <2>4. \A i \in 1..Len(childIn') : childIn'[i] \in attached'
    BY <1>3 DEF Replacing
  <2> QED BY <2>1, <2>2, <2>3, <2>4 DEF Replacing
<1>7. LaterClientWins'
  <2> SUFFICES ASSUME NEW i \in 1..Len(childIn'), NEW j \in 1..Len(childIn'), i < j,
                      NEW p \in 1..Len(attachOrder'), NEW q \in 1..Len(attachOrder'),
                      attachOrder'[p] = childIn'[i], attachOrder'[q] = childIn'[j]
               PROVE  p <= q
    BY DEF LaterClientWins
  <2>0. i \in 1..Len(childIn) /\ j \in 1..Len(childIn) /\ childIn' = childIn
    BY <1>3
  <2>1. childIn[i] # c /\ childIn[j] # c
    BY <2>0, <1>2 DEF Replacing
  <2>2. p \in 1..Len(attachOrder) /\ q \in 1..Len(attachOrder)
    BY <2>0, <2>1, <1>4, <1>5
  <2> QED BY <2>0, <2>2, <1>4 DEF LaterClientWins
<1> QED BY <1>6, <1>7

\* write: only the client's, and the client is the last that attached.
LEMMA OnWriteReplacing ==
  ASSUME TypeOK, Replacing, LaterClientWins, NEW c \in Conns, OnWrite(c)
  PROVE  Replacing' /\ LaterClientWins'
<1>1. UNCHANGED << attached, attachOrder, client >>
  BY DEF OnWrite, connVars
<1>2. CASE childIn' = childIn
  BY <1>1, <1>2, OtherStepsReplacing
<1>3. CASE childIn' # childIn
  <2>1. childIn \in Seq(Conns) /\ childIn' = Append(childIn, c) /\ client = c /\ c \in attached
    BY <1>3 DEF OnWrite, TypeOK, ChildTypes
  <2>2. /\ Len(childIn') = Len(childIn) + 1 /\ Len(childIn) \in Nat
        /\ childIn'[Len(childIn) + 1] = c
        /\ \A i \in 1..Len(childIn) : childIn'[i] = childIn[i]
    BY <2>1, AppendProperties
  <2>3. Replacing'
    <3>1. \A i \in 1..Len(childIn') : i = Len(childIn) + 1 \/ i \in 1..Len(childIn)
      BY <2>2
    <3> QED BY <3>1, <2>1, <2>2, <1>1 DEF Replacing
  <2>4. LaterClientWins'
    <3> SUFFICES ASSUME NEW i \in 1..Len(childIn'), NEW j \in 1..Len(childIn'), i < j,
                        NEW p \in 1..Len(attachOrder), NEW q \in 1..Len(attachOrder),
                        attachOrder[p] = childIn'[i], attachOrder[q] = childIn'[j]
                 PROVE  p <= q
      BY <1>1 DEF LaterClientWins
    <3>1. i \in 1..Len(childIn) /\ childIn'[i] = childIn[i]
      BY <2>2
    <3>2. CASE j = Len(childIn) + 1
      <4>1. c # NoConn
        BY ConnAssumption
      <4>2. q = Len(attachOrder)
        BY <4>1, <3>2, <2>1, <2>2 DEF Replacing
      <4> QED BY <4>2
    <3>3. CASE j # Len(childIn) + 1
      <4>1. j \in 1..Len(childIn) /\ childIn'[j] = childIn[j]
        BY <3>3, <2>2
      <4> QED BY <3>1, <4>1 DEF LaterClientWins
    <3> QED BY <3>2, <3>3
  <2> QED BY <2>3, <2>4
<1> QED BY <1>2, <1>3

LEMMA NextReplacing ==
  TypeOK /\ StreamInv /\ Replacing /\ LaterClientWins /\ [Next]_vars => Replacing' /\ LaterClientWins'
<1> SUFFICES ASSUME TypeOK, StreamInv, Replacing, LaterClientWins, [Next]_vars PROVE Replacing' /\ LaterClientWins'
  OBVIOUS
<1>1. CASE ChildStep \/ HostTimer \/ HostSignalled \/ Abort \/ Crash
  <2>1. UNCHANGED << attached, attachOrder, childIn, client >>
    BY <1>1 DEF ChildStep, HostTimer, ChildLine, LineOverflow, ChildExits, StdoutCloses, FlushTimeout,
       GraceExpires, KillWaitExpires, LingerExpires, HostSignalled, Abort, Crash, ChildEnded, childVars, connVars
  <2> QED BY <2>1, OtherStepsReplacing
<1>2. ASSUME NEW c \in Conns, OnHello(c) \/ OnWrite(c) PROVE Replacing' /\ LaterClientWins'
  BY <1>2, OnHelloReplacing, OnWriteReplacing
<1>3. ASSUME NEW c \in Conns, OnStatus(c) \/ OnTerminate(c) \/ SocketCloses(c) \/ PeerStep(c)
      PROVE  Replacing' /\ LaterClientWins'
  <2>1. UNCHANGED << attached, attachOrder, childIn >> /\ client' \in {client, NoConn}
    BY <1>3 DEF OnStatus, OnTerminate, SocketCloses, PeerStep, Connect, ConnectToTerminate, PeerReceives, PeerAsks,
       PeerCloses, PeerTerminates, PeerSeesClose, PeerDrops, childVars, connVars
  <2> QED BY <2>1, OtherStepsReplacing
<1>4. CASE UNCHANGED vars
  BY <1>4, OtherStepsReplacing DEF vars, childVars, connVars
<1> QED BY <1>1, <1>2, <1>3, <1>4 DEF Next, HostStep

\* Replacing a client is final: after a write of a later client reached the child, no
\* write of an earlier one does, however long it was under way.
THEOREM ReplacedClientWritesNoMore == Spec => []LaterClientWins
<1>1. Spec => [](Replacing /\ LaterClientWins)
  <2>1. Init => Replacing /\ LaterClientWins
    BY InitReplacing
  <2>2. TypeOK /\ StreamInv /\ (Replacing /\ LaterClientWins) /\ [Next]_vars => (Replacing /\ LaterClientWins)'
    BY NextReplacing
  <2> QED BY <2>1, <2>2, StreamInvariant, PTL DEF Spec
<1> QED BY <1>1, PTL

-----------------------------------------------------------------------------
(***************************************************************************)
(* What a client has read of its messages.                                 *)
(***************************************************************************)

\* A nonempty set of indices has a greatest one.
LEMMA GreatestIndex ==
  ASSUME NEW k \in Nat, NEW S \in SUBSET (1..k), S # {}
  PROVE  \E m \in S : \A j \in S : j <= m
<1> DEFINE B == { n \in Nat : \A j \in S : j <= n }
<1>1. k \in B /\ B \subseteq Nat
  OBVIOUS
<1>2. PICK m \in B : \A n \in B : <<n, m>> \notin OpToRel(<, Nat)
  BY <1>1, NatLessThanWellFounded, WFMin
<1>3. \A n \in B : ~ (n < m)
  BY <1>1, <1>2 DEF OpToRel
<1>4. m \in S
  <2> SUFFICES ASSUME m \notin S PROVE FALSE
    OBVIOUS
  <2>1. m \in Nat /\ \A j \in S : j \in 1..k /\ j <= m /\ j # m
    OBVIOUS
  <2>2. m - 1 \in Nat
    <3>1. PICK j \in S : TRUE
      OBVIOUS
    <3> QED BY <3>1, <2>1
  <2>3. m - 1 \in B
    BY <2>1, <2>2
  <2> QED BY <2>3, <1>3, <2>1
<1> QED BY <1>4

\* The first k messages, k of them at most.
LEMMA FirstMessages ==
  ASSUME NEW s \in Seq(Msg), NEW k \in 0..Len(s)
  PROVE  /\ SubSeq(s, 1, k) \in Seq(Msg) /\ Len(SubSeq(s, 1, k)) = k
         /\ \A i \in 1..k : SubSeq(s, 1, k)[i] = s[i]
<1>1. \A i \in 1..k : s[i] \in Msg
  OBVIOUS
<1> QED BY <1>1, SubSeqProperties

\* The lines passed on are those before an exit; the last one is where the client is.
LEMMA ReadUpToIs ==
  ASSUME NEW r \in Seq(Msg), NEW start
  PROVE  /\ PassedOn(r) = {} => ReadUpTo(r, start) = start
         /\ PassedOn(r) # {} => \E m \in PassedOn(r) : (\A j \in PassedOn(r) : j <= m)
                                                        /\ ReadUpTo(r, start) = r[m].seq
<1>1. CASE PassedOn(r) = {}
  BY <1>1 DEF ReadUpTo
<1>2. CASE PassedOn(r) # {}
  <2>1. PassedOn(r) \in SUBSET (1..Len(r)) /\ Len(r) \in Nat
    BY DEF PassedOn, LinesOf
  <2>2. \E m \in PassedOn(r) : \A j \in PassedOn(r) : j <= m
    BY <2>1, <1>2, GreatestIndex
  <2> DEFINE m == CHOOSE i \in PassedOn(r) : \A j \in PassedOn(r) : j <= i
  <2>3. m \in PassedOn(r) /\ \A j \in PassedOn(r) : j <= m
    BY <2>2
  <2>4. ReadUpTo(r, start) = r[m].seq
    BY <1>2 DEF ReadUpTo
  <2> QED BY <2>3, <2>4, <1>2
<1> QED BY <1>1, <1>2

\* Which of the first k messages are passed on.
LEMMA PassedOnOfFirst ==
  ASSUME NEW s \in Seq(Msg), NEW k \in 0..Len(s)
  PROVE  PassedOn(SubSeq(s, 1, k)) =
           { i \in 1..k : s[i].type = "line" /\ \A j \in 1..(i - 1) : s[j].type # "exit" }
<1> DEFINE r == SubSeq(s, 1, k)
<1>1. Len(r) = k /\ k \in Nat /\ \A i \in 1..k : r[i] = s[i]
  BY FirstMessages
<1> HIDE DEF r
<1>2. \A i \in 1..k : \A j \in 1..(i - 1) : r[j] = s[j]
  BY <1>1
<1>3. PassedOn(r) = { i \in 1..k : s[i].type = "line" /\ \A j \in 1..(i - 1) : s[j].type # "exit" }
  BY <1>1, <1>2 DEF PassedOn, LinesOf
<1> QED BY <1>3 DEF r

\* A message that is no line, or that follows an exit, does not move the client.
LEMMA ReadOther ==
  ASSUME NEW s \in Seq(Msg), NEW k \in 0..(Len(s) - 1), NEW start,
         s[k + 1].type # "line" \/ \E j \in 1..k : s[j].type = "exit"
  PROVE  ReadUpTo(SubSeq(s, 1, k + 1), start) = ReadUpTo(SubSeq(s, 1, k), start)
<1> DEFINE r == SubSeq(s, 1, k)
           t == SubSeq(s, 1, k + 1)
           P == { i \in 1..k : s[i].type = "line" /\ \A j \in 1..(i - 1) : s[j].type # "exit" }
<1>1. k \in Nat /\ k \in 0..Len(s) /\ k + 1 \in 0..Len(s)
  OBVIOUS
<1>2. PassedOn(r) = P
  BY <1>1, PassedOnOfFirst
<1>3. PassedOn(t) = P
  <2>1. PassedOn(t) = { i \in 1..(k + 1) : s[i].type = "line" /\ \A j \in 1..(i - 1) : s[j].type # "exit" }
    BY <1>1, PassedOnOfFirst
  <2>2. (k + 1) - 1 = k
    BY <1>1
  <2>3. ~ (s[k + 1].type = "line" /\ \A j \in 1..((k + 1) - 1) : s[j].type # "exit")
    BY <2>2
  <2>4. \A i \in 1..(k + 1) : i = k + 1 \/ i \in 1..k
    BY <1>1
  <2>5. 1..k \subseteq 1..(k + 1)
    BY <1>1
  <2> QED BY <2>1, <2>3, <2>4, <2>5
<1>4. \A i \in P : r[i] = t[i]
  <2>1. \A i \in 1..k : r[i] = s[i]
    BY <1>1, FirstMessages
  <2>2. \A i \in 1..(k + 1) : t[i] = s[i]
    BY <1>1, FirstMessages
  <2> QED BY <2>1, <2>2, <1>1
<1>5. r \in Seq(Msg) /\ t \in Seq(Msg)
  BY <1>1, FirstMessages
<1> HIDE DEF r, t, P
<1>6. CASE P = {}
  <2>1. ReadUpTo(r, start) = start /\ ReadUpTo(t, start) = start
    BY <1>2, <1>3, <1>5, <1>6, ReadUpToIs
  <2> QED BY <2>1 DEF r, t
<1>7. CASE P # {}
  <2>1. PICK m \in P : (\A j \in P : j <= m) /\ ReadUpTo(r, start) = r[m].seq
    BY <1>2, <1>5, <1>7, ReadUpToIs
  <2>2. PICK n \in P : (\A j \in P : j <= n) /\ ReadUpTo(t, start) = t[n].seq
    BY <1>3, <1>5, <1>7, ReadUpToIs
  <2>3. m = n
    BY <2>1, <2>2 DEF P
  <2> QED BY <2>1, <2>2, <2>3, <1>4 DEF r, t
<1> QED BY <1>6, <1>7

\* Where a client is after k messages without an exit: at its start, or at a line among
\* them, and no line among them is later.
LEMMA ReadSoFar ==
  ASSUME NEW s \in Seq(Msg), NEW a, NEW n \in Nat, GoodStream(s, a, n), NEW k \in 0..Len(s),
         \A j \in 1..k : s[j].type # "exit"
  PROVE  LET start == StreamStart(s, a)
             to == ReadUpTo(SubSeq(s, 1, k), start)
         IN  /\ to \in start..n
             /\ to = start \/ \E i \in LinesOf(s) : i <= k /\ s[i].seq = to
             /\ \A i \in LinesOf(s) : i <= k => s[i].seq <= to
<1> DEFINE start == StreamStart(s, a)
           r == SubSeq(s, 1, k)
           to == ReadUpTo(r, start)
<1>1. PassedOn(r) = { i \in LinesOf(s) : i <= k }
  <2>1. PassedOn(r) = { i \in 1..k : s[i].type = "line" /\ \A j \in 1..(i - 1) : s[j].type # "exit" }
    BY PassedOnOfFirst
  <2>2. \A i \in 1..k : \A j \in 1..(i - 1) : j \in 1..k
    OBVIOUS
  <2> QED BY <2>1, <2>2 DEF LinesOf
<1>2. start \in 0..n /\ \A i \in LinesOf(s) : s[i].seq \in (start + 1)..n
  BY DEF GoodStream, Within
<1>3. r \in Seq(Msg) /\ \A i \in 1..k : r[i] = s[i]
  BY FirstMessages
<1>4. \A i, j \in LinesOf(s) : i < j => s[i].seq < s[j].seq
  BY DEF GoodStream, Ascending
<1>5. \A i \in LinesOf(s) : i \in 1..Len(s)
  BY DEF LinesOf
<1> HIDE DEF start, r
<1>6. CASE PassedOn(r) = {}
  <2>1. to = start
    BY <1>3, <1>6, ReadUpToIs
  <2> QED BY <2>1, <1>1, <1>2, <1>6 DEF start, r
<1>7. CASE PassedOn(r) # {}
  <2>1. PICK m \in PassedOn(r) : (\A j \in PassedOn(r) : j <= m) /\ to = r[m].seq
    BY <1>3, <1>7, ReadUpToIs
  <2>2. m \in LinesOf(s) /\ m <= k /\ to = s[m].seq
    BY <2>1, <1>1, <1>3, <1>5
  <2>3. \A i \in LinesOf(s) : i <= k => i <= m
    BY <2>1, <1>1
  <2> HIDE DEF to
  <2>4. \A i \in LinesOf(s) : i <= k => s[i].seq <= to
    <3> SUFFICES ASSUME NEW i \in LinesOf(s), i <= k PROVE s[i].seq <= to
      OBVIOUS
    <3>1. i = m \/ i < m
      BY <2>2, <2>3, <1>5
    <3> QED BY <3>1, <2>2, <1>2, <1>4
  <2>5. to \in start..n
    BY <2>2, <1>2
  <2> QED BY <2>2, <2>4, <2>5 DEF to, start, r
<1> QED BY <1>6, <1>7

\* The next line a client reads follows the last it read.
LEMMA ReadNextLine ==
  ASSUME NEW s \in Seq(Msg), NEW a, NEW n \in Nat, GoodStream(s, a, n), NEW k \in 0..(Len(s) - 1),
         \A j \in 1..k : s[j].type # "exit", s[k + 1].type = "line"
  PROVE  LET start == StreamStart(s, a)
         IN  /\ ReadUpTo(SubSeq(s, 1, k + 1), start) = ReadUpTo(SubSeq(s, 1, k), start) + 1
             /\ ReadUpTo(SubSeq(s, 1, k), start) \in start..(n - 1)
<1> DEFINE start == StreamStart(s, a)
           to == ReadUpTo(SubSeq(s, 1, k), start)
           next == ReadUpTo(SubSeq(s, 1, k + 1), start)
           q == s[k + 1].seq
<1>1. k \in Nat /\ k \in 0..Len(s) /\ k + 1 \in 0..Len(s) /\ k + 1 \in LinesOf(s)
  BY DEF LinesOf
<1>2. /\ to \in start..n
      /\ to = start \/ \E i \in LinesOf(s) : i <= k /\ s[i].seq = to
      /\ \A i \in LinesOf(s) : i <= k => s[i].seq <= to
  BY <1>1, ReadSoFar
<1>3. \A j \in 1..(k + 1) : s[j].type # "exit"
  BY <1>1
<1>4. /\ next \in start..n
      /\ next = start \/ \E i \in LinesOf(s) : i <= k + 1 /\ s[i].seq = next
      /\ \A i \in LinesOf(s) : i <= k + 1 => s[i].seq <= next
  BY <1>1, <1>3, ReadSoFar
<1>5. start \in 0..n /\ \A i \in LinesOf(s) : i \in 1..Len(s) /\ s[i].seq \in (start + 1)..n
  BY DEF GoodStream, Within, LinesOf
<1>6. \A i, j \in LinesOf(s) : i < j => s[i].seq < s[j].seq
  BY DEF GoodStream, Ascending
<1>7. \A m \in (start + 1)..(q - 1) : \E j \in LinesOf(s) : j < k + 1 /\ s[j].seq = m
  BY <1>1 DEF GoodStream, Unbroken
<1> HIDE DEF start, to, next
<1>8. to < q
  <2>1. CASE to = start
    BY <2>1, <1>1, <1>5
  <2>2. CASE \E i \in LinesOf(s) : i <= k /\ s[i].seq = to
    BY <2>2, <1>1, <1>5, <1>6
  <2> QED BY <2>1, <2>2, <1>2
<1>9. q = to + 1
  <2> SUFFICES ASSUME q # to + 1 PROVE FALSE
    OBVIOUS
  <2>1. q \in (start + 1)..n
    BY <1>1, <1>5
  <2>2. to + 1 \in (start + 1)..(q - 1)
    BY <2>1, <1>2, <1>5, <1>8
  <2>3. PICK j \in LinesOf(s) : j < k + 1 /\ s[j].seq = to + 1
    BY <2>2, <1>7
  <2>4. j <= k
    BY <2>3, <1>1, <1>5
  <2> QED BY <2>3, <2>4, <1>2, <1>5
<1>10. next = q
  <2>1. q <= next /\ q \in (start + 1)..n
    BY <1>1, <1>4, <1>5
  <2>2. PICK i \in LinesOf(s) : i <= k + 1 /\ s[i].seq = next
    BY <2>1, <1>4, <1>5
  <2>3. i = k + 1 \/ i < k + 1
    BY <2>2, <1>1, <1>5
  <2>4. i < k + 1 => s[i].seq < q
    BY <2>2, <1>1, <1>6
  <2> QED BY <2>1, <2>2, <2>3, <2>4, <1>4, <1>5
<1> QED BY <1>2, <1>5, <1>9, <1>10, <1>1 DEF start, to, next

-----------------------------------------------------------------------------
(***************************************************************************)
(* The invariant behind the refinement: the end of the child is told after *)
(* its last line, and a client end knows of it exactly when it read it.    *)
(***************************************************************************)

EndAfterLines(msgs, cursor, last) ==
    \A i \in 1..Len(msgs) : msgs[i].type = "exit" =>
      \A n \in (StreamStart(msgs, cursor) + 1)..last : \E j \in LinesOf(msgs) : j < i /\ msgs[j].seq = n

\* What the host wrote to a client: only to the current one, and its end in order.
Told(c) ==
    /\ Started(c) /\ socket[c] = "open" => client = c
    /\ \A i \in 1..Len(sent[c]) : sent[c][i].type = "exit" => childExit
    /\ Started(c) => EndAfterLines(sent[c], asked[c], exitAt)

ExitRead(c) == \E i \in 1..rcvd[c] : sent[c][i].type = "exit"

\* What the client end made of it.
Knows(c) ==
    /\ rcvd[c] <= Len(sent[c])
    /\ peer[c] = "exited" => ExitRead(c)
    /\ peer[c] \in { "idle", "connecting", "welcomed", "closing", "terminating" } => ~ExitRead(c)

RelayInv == exitAt <= lastSeq /\ \A c \in Clients : Told(c) /\ Knows(c)

LEMMA InitRelay == Init => RelayInv
<1> SUFFICES ASSUME NEW spawned \in BOOLEAN, InitWith(spawned) PROVE RelayInv
  BY DEF Init
<1>1. exitAt <= lastSeq
  BY DEF InitWith
<1>2. ASSUME NEW c \in Clients PROVE Told(c) /\ Knows(c)
  <2>1. sent[c] = << >> /\ rcvd[c] = 0 /\ peer[c] = "idle"
    BY DEF InitWith, Nothing, Conns
  <2> QED BY <2>1 DEF Told, Knows, Started, ExitRead
<1> QED BY <1>1, <1>2 DEF RelayInv

\* Messages written after a stream began, without a gap, leave its start alone.
LEMMA StartKept ==
  ASSUME NEW s \in Seq(Msg), NEW t \in Seq(Msg), NEW a, s # << >>, \A i \in 1..Len(t) : t[i].type # "gap"
  PROVE  StreamStart(s \o t, a) = StreamStart(s, a)
<1> DEFINE u == s \o t
<1>1. /\ Len(u) = Len(s) + Len(t) /\ Len(s) \in Nat \ {0} /\ Len(t) \in Nat
      /\ \A i \in 1..(Len(s) + Len(t)) : u[i] = IF i <= Len(s) THEN s[i] ELSE t[i - Len(s)]
  BY ConcatProperties
<1> HIDE DEF u
<1>2. u[1] = s[1]
  BY <1>1
<1>3. ToldGap(s) => ToldGap(u) /\ u[2] = s[2]
  BY <1>1 DEF ToldGap
<1>4. ToldGap(u) => ToldGap(s)
  <2> SUFFICES ASSUME ToldGap(u), ~ (2 <= Len(s)) PROVE FALSE
    BY <1>1 DEF ToldGap
  <2>1. 2 - Len(s) \in 1..Len(t) /\ 2 \in 1..(Len(s) + Len(t))
    BY <1>1 DEF ToldGap
  <2>2. u[2] = t[2 - Len(s)]
    BY <1>1, <2>1
  <2> QED BY <2>1, <2>2 DEF ToldGap
<1> QED BY <1>2, <1>3, <1>4 DEF StreamStart, u

\* What a step of the host adds to what it wrote to a client: nothing before the client
\* was greeted, and the child's end only to the current client, once it is declared.
Adds(c, t) ==
    /\ t \in Seq(Msg) /\ sent'[c] = sent[c] \o t
    /\ ~Started(c) => t = << >>
    /\ \A i \in 1..Len(t) : /\ t[i].type # "gap"
                            /\ t[i].type = "exit" => childExit' /\ client = c /\ socket[c] = "open"

\* A step of the host that adds so, to a connection it does not open, keeps the order of
\* lines and end.
LEMMA AddsTold ==
  ASSUME TypeOK, StreamInv, NEW c \in Clients, exitAt <= lastSeq, Told(c), NEW t, Adds(c, t),
         asked'[c] = asked[c], childExit => childExit', exitAt' = exitAt \/ (~childExit /\ exitAt' = lastSeq),
         socket'[c] = "open" => socket[c] = "open" /\ (client = c => client' = c)
  PROVE  Told(c)'
<1> DEFINE s == sent[c]
           u == sent'[c]
<1>1. c \in Conns /\ s \in Seq(Msg) /\ t \in Seq(Msg) /\ u = s \o t /\ lastSeq \in Nat /\ exitAt \in Nat
  BY DEF Conns, Adds, TypeOK, StreamTypes, BufTypes, ChildTypes
<1>2. /\ Len(u) = Len(s) + Len(t) /\ Len(s) \in Nat /\ Len(t) \in Nat
      /\ \A i \in 1..(Len(s) + Len(t)) : u[i] = IF i <= Len(s) THEN s[i] ELSE t[i - Len(s)]
  BY <1>1, ConcatProperties
<1>3. Started(c)' => Started(c)
  BY <1>1 DEF Adds, Started
<1>4. (Started(c) /\ socket[c] = "open") => client = c
  BY DEF Told
<1>5. ASSUME NEW i \in 1..Len(u), u[i].type = "exit"
      PROVE  childExit' /\ (Started(c) => \A n \in (StreamStart(s, asked[c]) + 1)..exitAt' :
                                            \E j \in LinesOf(s) : j < i /\ s[j].seq = n)
  <2>1. CASE i <= Len(s)
    <3>1. i \in 1..Len(s) /\ s[i].type = "exit"
      BY <1>2, <1>5, <2>1
    <3>2. childExit
      BY <3>1 DEF Told
    <3>3. Started(c) => EndAfterLines(s, asked[c], exitAt)
      BY DEF Told
    <3> HIDE DEF s, u
    <3> QED BY <3>1, <3>2, <3>3 DEF EndAfterLines
  <2>2. CASE ~ (i <= Len(s))
    <3>1. i - Len(s) \in 1..Len(t) /\ u[i] = t[i - Len(s)]
      BY <1>2, <2>2
    <3>2. childExit' /\ client = c /\ socket[c] = "open"
      BY <3>1, <1>5 DEF Adds
    <3>3. CompleteTo(s, asked[c], lastSeq) /\ exitAt' <= lastSeq
      BY <3>2, <1>1 DEF StreamInv, Stream
    <3>4. Started(c) => \A n \in (StreamStart(s, asked[c]) + 1)..exitAt' : \E j \in LinesOf(s) : s[j].seq = n
      <4> SUFFICES ASSUME Started(c), NEW n \in (StreamStart(s, asked[c]) + 1)..exitAt'
                   PROVE  \E j \in LinesOf(s) : s[j].seq = n
        OBVIOUS
      <4>1. StreamStart(s, asked[c]) \in Int
        BY <1>1, StreamStartInt DEF Started, TypeOK, PeerTypes
      <4>2. exitAt' \in Nat
        BY <1>1
      <4>3. n \in (StreamStart(s, asked[c]) + 1)..lastSeq
        BY <4>1, <4>2, <3>3, <1>1
      <4> QED BY <4>3, <3>3 DEF CompleteTo
    <3>5. \A j \in LinesOf(s) : j < i
      BY <1>2, <2>2 DEF LinesOf
    <3> QED BY <3>2, <3>4, <3>5
  <2> QED BY <2>1, <2>2
<1>6. Started(c) => StreamStart(u, asked[c]) = StreamStart(s, asked[c])
  BY <1>1, StartKept DEF Started, Adds
<1>7. \A j \in LinesOf(s) : j \in LinesOf(u) /\ u[j] = s[j]
  BY <1>2 DEF LinesOf
<1>8. Started(c)' => EndAfterLines(sent'[c], asked'[c], exitAt')
  BY <1>3, <1>5, <1>6, <1>7 DEF EndAfterLines
<1>9. \A i \in 1..Len(sent'[c]) : sent'[c][i].type = "exit" => childExit'
  BY <1>5
<1> QED BY <1>3, <1>4, <1>8, <1>9 DEF Told

\* ... and it changes nothing of what the client has read.
LEMMA AddsRead ==
  ASSUME TypeOK, StreamInv, NEW c \in Clients, Knows(c), NEW t \in Seq(Msg), sent'[c] = sent[c] \o t,
         Started(c) => \A i \in 1..Len(t) : t[i].type # "gap",
         rcvd'[c] = rcvd[c], peer'[c] = peer[c], asked'[c] = asked[c]
  PROVE  Knows(c)' /\ StreamOf(c)' = StreamOf(c)
<1>1. c \in Conns /\ sent[c] \in Seq(Msg) /\ rcvd[c] \in 0..Len(sent[c])
  BY DEF Conns, TypeOK, StreamTypes, PeerTypes, Knows
<1>2. /\ sent'[c] \in Seq(Msg) /\ Len(sent'[c]) = Len(sent[c]) + Len(t) /\ Len(sent[c]) \in Nat /\ Len(t) \in Nat
      /\ \A i \in 1..Len(sent[c]) : sent'[c][i] = sent[c][i]
  BY <1>1, ConcatProperties
<1>3. \A i \in 1..rcvd[c] : sent'[c][i] = sent[c][i]
  BY <1>1, <1>2
<1>4. Knows(c)'
  <2>1. rcvd'[c] <= Len(sent'[c])
    BY <1>1, <1>2
  <2>2. ExitRead(c)' <=> ExitRead(c)
    BY <1>3 DEF ExitRead
  <2> QED BY <2>1, <2>2 DEF Knows
<1>5. Read(c)' = Read(c)
  <2> DEFINE k == rcvd[c]
             x == SubSeq(sent[c], 1, k)
             y == SubSeq(sent'[c], 1, k)
  <2>1. k \in 0..Len(sent[c]) /\ k \in 0..Len(sent'[c])
    BY <1>1, <1>2
  <2>2. x \in Seq(Msg) /\ Len(x) = k /\ \A i \in 1..k : x[i] = sent[c][i]
    BY <2>1, <1>1, FirstMessages
  <2>3. y \in Seq(Msg) /\ Len(y) = k /\ \A i \in 1..k : y[i] = sent'[c][i]
    BY <2>1, <1>2, FirstMessages
  <2> HIDE DEF x, y
  <2>4. x = y
    BY <2>2, <2>3, <1>3, SeqEqual
  <2> QED BY <2>4 DEF Read, x, y
<1>6. CASE Started(c)
  <2>1. StreamStart(sent'[c], asked'[c]) = StreamStart(sent[c], asked[c])
    BY <1>1, <1>6, StartKept DEF Started
  <2> QED BY <1>4, <1>5, <2>1 DEF StreamOf
<1>7. CASE ~Started(c)
  <2>1. ~Greeted(Read(c))
    BY <1>1, <1>7, SubSeqEmpty DEF Started, Read, Greeted
  <2> QED BY <1>4, <1>5, <2>1 DEF StreamOf
<1> QED BY <1>6, <1>7

-----------------------------------------------------------------------------
(***************************************************************************)
(* The steps of the host: no client reads in them.                         *)
(***************************************************************************)

\* What a step of the host keeps for every client: the invariant, and its mapped stream.
Kept == \A c \in Clients : Told(c)' /\ Knows(c)' /\ StreamOf(c)' = StreamOf(c)

\* The frame of the host's steps; the child's end is declared once.
EndFrame ==
    /\ rcvd' = rcvd /\ peer' = peer /\ asked' = asked
    /\ childExit => childExit'
    /\ exitAt' = exitAt \/ (~childExit /\ exitAt' = lastSeq)

LEMMA AddsKeeps ==
  ASSUME TypeOK, StreamInv, RelayInv, EndFrame,
         \A c \in Clients : /\ \E t : Adds(c, t)
                            /\ socket'[c] = "open" => socket[c] = "open" /\ (client = c => client' = c)
  PROVE  Kept
<1> SUFFICES ASSUME NEW c \in Clients PROVE Told(c)' /\ Knows(c)' /\ StreamOf(c)' = StreamOf(c)
  BY DEF Kept
<1>1. PICK t : Adds(c, t)
  OBVIOUS
<1>2. exitAt <= lastSeq /\ Told(c) /\ Knows(c)
  BY DEF RelayInv
<1>3. Told(c)'
  BY <1>1, <1>2, AddsTold DEF EndFrame
<1>4. t \in Seq(Msg) /\ sent'[c] = sent[c] \o t /\ \A i \in 1..Len(t) : t[i].type # "gap"
  BY <1>1 DEF Adds
<1>5. Knows(c)' /\ StreamOf(c)' = StreamOf(c)
  BY <1>2, <1>4, AddsRead DEF EndFrame
<1> QED BY <1>3, <1>5

\* Messages for which there may be no room, to clients that were greeted.
LEMMA SendKeeps ==
  ASSUME TypeOK, StreamInv, RelayInv, EndFrame, client' = client,
         NEW out \in [Conns -> Seq(Msg)], NEW ended, Send(out, ended),
         \A c \in Clients : /\ socket[c] = "open" /\ ~Started(c) => out[c] = << >>
                            /\ \A i \in 1..Len(out[c]) : /\ out[c][i].type # "gap"
                                                         /\ out[c][i].type = "exit" => childExit'
  PROVE  Kept
<1>1. ASSUME NEW c \in Clients
      PROVE  /\ \E t : Adds(c, t)
             /\ socket'[c] = "open" => socket[c] = "open" /\ (client = c => client' = c)
  <2> DEFINE o == out[c]
  <2>1. c \in Conns /\ sent[c] \in Seq(Msg) /\ o \in Seq(Msg)
    BY DEF Conns, TypeOK, StreamTypes
  <2>2. PICK k \in 0..Len(o) :
          /\ sent'[c] = sent[c] \o SubSeq(o, 1, k)
          /\ socket'[c] = "open" => socket[c] = "open" /\ k = Len(o)
    BY <2>1, SendTo
  <2>3. socket[c] # "open" => sent'[c] = sent[c]
    BY <2>1, SendTo
  <2>4. Told(c)
    BY DEF RelayInv
  <2>5. CASE socket[c] = "open" /\ Started(c)
    <3>1. client = c
      BY <2>4, <2>5 DEF Told
    <3>2. SubSeq(o, 1, k) \in Seq(Msg) /\ Len(SubSeq(o, 1, k)) = k /\ \A i \in 1..k : SubSeq(o, 1, k)[i] = o[i]
      BY <2>1, FirstMessages
    <3>3. \A i \in 1..k : o[i].type # "gap" /\ (o[i].type = "exit" => childExit')
      BY <2>1
    <3>4. Adds(c, SubSeq(o, 1, k))
      <4> DEFINE r == SubSeq(o, 1, k)
      <4>1. r \in Seq(Msg) /\ Len(r) = k /\ \A i \in 1..k : r[i] = o[i]
        BY <3>2
      <4>2. sent'[c] = sent[c] \o r
        BY <2>2
      <4> HIDE DEF r
      <4>3. Adds(c, r)
        BY <4>1, <4>2, <3>1, <3>3, <2>5 DEF Adds
      <4> QED BY <4>3 DEF r
    <3> QED BY <2>2, <3>4
  <2>6. CASE ~ (socket[c] = "open" /\ Started(c))
    <3>1. sent'[c] = sent[c]
      <4>1. CASE socket[c] # "open"
        BY <4>1, <2>3
      <4>2. CASE socket[c] = "open"
        <5>1. o = << >> /\ k = 0
          BY <4>2, <2>6
        <5>2. SubSeq(o, 1, k) = << >>
          BY <5>1, SubSeqEmpty
        <5> QED BY <5>2, <2>1, <2>2, ConcatEmptySeq
      <4> QED BY <4>1, <4>2
    <3>2. Adds(c, << >>)
      BY <3>1, <2>1, ConcatEmptySeq DEF Adds
    <3> QED BY <2>2, <3>2
  <2> QED BY <2>5, <2>6
<1> QED BY <1>1, AddsKeeps

\* A step that writes nothing.
LEMMA SilentKeeps ==
  ASSUME TypeOK, StreamInv, RelayInv, EndFrame, sent' = sent,
         \A c \in Clients : socket'[c] = "open" => socket[c] = "open" /\ (client = c => client' = c)
  PROVE  Kept
<1>1. ASSUME NEW c \in Clients PROVE \E t : Adds(c, t)
  <2>1. sent[c] \in Seq(Msg)
    BY DEF Conns, TypeOK, StreamTypes
  <2>2. Adds(c, << >>)
    BY <2>1, ConcatEmptySeq DEF Adds
  <2> QED BY <2>2
<1> QED BY <1>1, AddsKeeps

\* One message of a type that is no gap, and an exit only of a child declared ended.
LEMMA OneMessage ==
  ASSUME NEW type \in { "line", "exit", "replaced", "status" }, NEW n \in Nat
  PROVE  /\ << M(type, n) >> \in Seq(Msg)
         /\ \A i \in 1..Len(<< M(type, n) >>) : /\ << M(type, n) >>[i].type # "gap"
                                                /\ << M(type, n) >>[i].type = "exit" => type = "exit"
<1>1. M(type, n).type = type
  BY DEF M
<1>2. \A m : Len(<< m >>) = 1 /\ << m >>[1] = m
  OBVIOUS
<1> QED BY <1>1, <1>2, MsgType

LEMMA ChildLineKeeps ==
  ASSUME TypeOK, StreamInv, RelayInv, NEW bytes \in LineBytes, ChildLine(bytes)
  PROVE  Kept
<1> DEFINE line == << M("line", lastSeq + 1) >>
           out == [c \in Conns |-> IF c = client THEN line ELSE << >>]
<1>1. lastSeq + 1 \in Nat
  BY DEF TypeOK, BufTypes
<1>2. Send(out, {})
  BY Zenon DEF ChildLine
<1>3. line \in Seq(Msg) /\ \A i \in 1..Len(line) : line[i].type # "gap" /\ line[i].type # "exit"
  BY <1>1, OneMessage
<1> HIDE DEF line
<1>4. out \in [Conns -> Seq(Msg)] /\ \A c \in Conns : out[c] = IF c = client THEN line ELSE << >>
  BY <1>3
<1> HIDE DEF out
<1>5. \A c \in Clients : /\ socket[c] = "open" /\ ~Started(c) => out[c] = << >>
                         /\ \A i \in 1..Len(out[c]) : out[c][i].type # "gap" /\ (out[c][i].type = "exit" => childExit')
  BY <1>3, <1>4, ClientStarted DEF Conns
<1>6. EndFrame /\ client' = client
  BY DEF EndFrame, ChildLine, childVars, connVars, peerVars
<1> QED BY <1>2, <1>4, <1>5, <1>6, SendKeeps

LEMMA ChildEndedKeeps ==
  ASSUME TypeOK, StreamInv, RelayInv, ~childExit, ChildEnded
  PROVE  Kept
<1> DEFINE out == [c \in Conns |-> IF c \in watchers \cup {client} THEN << M("exit", 0) >> ELSE << >>]
           last == IF phase = "no" THEN watchers ELSE Conns
<1>1. Send(out, last)
  BY Zenon DEF ChildEnded
<1>2. << M("exit", 0) >> \in Seq(Msg) /\ \A i \in 1..Len(<< M("exit", 0) >>) : << M("exit", 0) >>[i].type # "gap"
  BY OneMessage
<1>3. out \in [Conns -> Seq(Msg)] /\ \A c \in Conns : out[c] = IF c \in watchers \cup {client} THEN << M("exit", 0) >> ELSE << >>
  BY <1>2
<1> HIDE DEF out, last
<1>4. childExit' = TRUE
  BY DEF ChildEnded
<1>5. \A c \in Clients : /\ socket[c] = "open" /\ ~Started(c) => out[c] = << >>
                         /\ \A i \in 1..Len(out[c]) : out[c][i].type # "gap" /\ (out[c][i].type = "exit" => childExit')
  BY <1>2, <1>3, <1>4, ClientStarted, WatchersStarted DEF Conns
<1>6. EndFrame /\ client' = client
  BY DEF EndFrame, ChildEnded, peerVars
<1> QED BY <1>1, <1>3, <1>5, <1>6, SendKeeps

LEMMA StopStepsKeep ==
  ASSUME TypeOK, StreamInv, RelayInv, HostSignalled \/ LingerExpires \/ Abort
  PROVE  Kept
<1>1. \E ended : Send(Nothing, ended)
  BY DEF HostSignalled, LingerExpires, Abort
<1>2. EndFrame /\ client' = client
  BY DEF EndFrame, HostSignalled, LingerExpires, Abort, childVars, connVars, peerVars
<1>3. \A c \in Clients : Nothing[c] = << >>
  BY DEF Nothing, Conns
<1> QED BY <1>1, <1>2, <1>3, NothingType, SendKeeps

\* To(c, msgs), connection by connection.
LEMMA ToIs == \A c \in Conns : \A msgs : \A d \in Conns : To(c, msgs)[d] = IF d = c THEN msgs ELSE << >>
BY DEF To, Nothing

LEMMA OnStatusKeeps ==
  ASSUME TypeOK, StreamInv, RelayInv, NEW c \in Conns, OnStatus(c)
  PROVE  Kept
<1> DEFINE status == << M("status", lastSeq) >>
           out == To(c, status)
<1>1. Send(out, IF c \in attached THEN {} ELSE {c})
  BY Zenon DEF OnStatus
<1>2. status \in Seq(Msg) /\ \A i \in 1..Len(status) : status[i].type # "gap" /\ status[i].type # "exit"
  BY OneMessage DEF TypeOK, BufTypes
<1> HIDE DEF status
<1>3. out \in [Conns -> Seq(Msg)] /\ \A d \in Conns : out[d] = IF d = c THEN status ELSE << >>
  BY <1>2, ToType, ToIs
<1> HIDE DEF out
<1>4. c \in Clients => Started(c)
  BY RequesterStarted DEF OnStatus
<1>5. \A d \in Clients : /\ socket[d] = "open" /\ ~Started(d) => out[d] = << >>
                         /\ \A i \in 1..Len(out[d]) : out[d][i].type # "gap" /\ (out[d][i].type = "exit" => childExit')
  BY <1>2, <1>3, <1>4 DEF Conns
<1>6. EndFrame /\ client' = client
  BY DEF EndFrame, OnStatus, childVars, connVars, peerVars
<1> QED BY <1>1, <1>3, <1>5, <1>6, SendKeeps

LEMMA OnTerminateKeeps ==
  ASSUME TypeOK, StreamInv, RelayInv, NEW c \in Conns, OnTerminate(c)
  PROVE  Kept
<1> DEFINE exit == << M("exit", 0) >>
           out == IF childExit THEN To(c, exit) ELSE Nothing
           last == IF host' = "stopped" THEN Conns ELSE IF childExit THEN {c} ELSE {}
<1>1. Send(out, last)
  BY Zenon DEF OnTerminate
<1>2. exit \in Seq(Msg) /\ \A i \in 1..Len(exit) : exit[i].type # "gap"
  BY OneMessage
<1> HIDE DEF exit, last
<1>3. out \in [Conns -> Seq(Msg)] /\ \A d \in Conns : out[d] = IF d = c /\ childExit THEN exit ELSE << >>
  BY <1>2, ToType, ToIs, NothingType DEF Nothing
<1> HIDE DEF out
<1>4. c \in Clients => Started(c)
  BY RequesterStarted DEF OnTerminate
<1>5. EndFrame /\ client' = client /\ childExit' = childExit
  BY DEF EndFrame, OnTerminate, peerVars
<1>6. \A d \in Clients : /\ socket[d] = "open" /\ ~Started(d) => out[d] = << >>
                         /\ \A i \in 1..Len(out[d]) : out[d][i].type # "gap" /\ (out[d][i].type = "exit" => childExit')
  BY <1>2, <1>3, <1>4, <1>5 DEF Conns
<1> QED BY <1>1, <1>3, <1>5, <1>6, SendKeeps

LEMMA SilentStepsKeep ==
  ASSUME TypeOK, StreamInv, RelayInv,
         ChildExits \/ GraceExpires \/ (childExit /\ (LineOverflow \/ StdoutCloses)) \/ Crash
           \/ \E c \in Conns : OnWrite(c) \/ SocketCloses(c)
  PROVE  Kept
<1>1. EndFrame /\ sent' = sent
  BY DEF EndFrame, ChildExits, GraceExpires, LineOverflow, StdoutCloses, Crash, OnWrite, SocketCloses, childVars,
     peerVars
<1>2. ASSUME NEW d \in Clients
      PROVE  socket'[d] = "open" => socket[d] = "open" /\ (client = d => client' = d)
  <2>0. d \in Conns /\ socket \in [Conns -> { "none", "open", "ending", "destroyed", "gone" }]
    BY DEF Conns, TypeOK, StreamTypes
  <2>1. CASE ChildExits \/ GraceExpires \/ (childExit /\ (LineOverflow \/ StdoutCloses)) \/ Crash
    <3>1. client' = client
      BY <2>1 DEF ChildExits, GraceExpires, LineOverflow, StdoutCloses, Crash, connVars
    <3>2. socket' = socket \/ socket' = [c \in Conns |-> IF socket[c] = "none" THEN "none" ELSE "gone"]
      BY <2>1 DEF ChildExits, GraceExpires, LineOverflow, StdoutCloses, Crash
    <3> QED BY <2>0, <3>1, <3>2
  <2>2. ASSUME NEW c \in Conns, OnWrite(c) PROVE socket' = socket /\ client' = client
    BY <2>2 DEF OnWrite, connVars
  <2>3. ASSUME NEW c \in Conns, SocketCloses(c)
        PROVE  socket'[d] = "open" => socket[d] = "open" /\ (client = d => client' = d)
    <3>1. client' = IF client = c THEN NoConn ELSE client
      BY <2>3 DEF SocketCloses
    <3>2. \/ socket' = [socket EXCEPT ![c] = "gone"]
          \/ socket' = [e \in Conns |-> IF e = c THEN "gone" ELSE IF socket[e] = "open" THEN "ending" ELSE socket[e]]
      BY <2>3 DEF SocketCloses
    <3> QED BY <2>0, <3>1, <3>2
  <2> QED BY <2>1, <2>2, <2>3
<1> QED BY <1>1, <1>2, SilentKeeps

\* hello: the new client is sent its greeting, the one before is told and its socket ended.
LEMMA OnHelloKeeps ==
  ASSUME TypeOK, BufferContiguous, StreamInv, RelayInv, NEW c \in Conns, OnHello(c)
  PROVE  Kept
<1> DEFINE since == Head(up[c]).since
           out == [d \in Conns |-> IF d = c THEN Greeting(buf', Head(up[c]).since)
                                   ELSE IF d = client THEN << M("replaced", 0) >> ELSE << >>]
           g == Greeting(buf', since)
<1>1. up[c] \in Seq(Request) /\ 1 \in 1..Len(up[c]) /\ up[c][1].type = "hello" /\ since = up[c][1].since
  BY DEF TypeOK, StreamTypes, OnHello, Receives
<1>2. Handshake(c)
  BY DEF StreamInv
<1>3. c \in Clients
  BY <1>1, <1>2 DEF Handshake, TerminatorHandshake, Conns
<1>4. ~Started(c) /\ since = asked[c]
  BY <1>1, <1>2, <1>3 DEF Handshake, ClientHandshake
<1>5. buf' \in Seq(Entry) /\ Contiguous(buf', lastSeq) /\ lastSeq \in Nat /\ childExit \in BOOLEAN /\ exitAt \in Nat
  BY BufferType DEF OnHello, TypeOK, BufTypes, ChildTypes
<1>6. asked[c] \in Nat \cup {LiveOnly} /\ sent \in [Conns -> Seq(Msg)]
  BY DEF TypeOK, PeerTypes, StreamTypes
<1>7. g \in Seq(Msg)
  BY OnHelloType
<1>8. Send(out, {client} \ {c})
  BY Zenon DEF OnHello
<1>9. out \in [Conns -> Seq(Msg)]
  BY <1>7, MsgType
<1>10. EndFrame /\ client' = c /\ childExit' = childExit /\ exitAt' = exitAt /\ lastSeq' = lastSeq
  BY DEF EndFrame, OnHello, childVars, peerVars
<1>11. exitAt <= lastSeq /\ \A d \in Clients : Told(d) /\ Knows(d)
  BY DEF RelayInv
<1>12. out[c] = g /\ \A d \in Conns : d # c => out[d] = IF d = client THEN << M("replaced", 0) >> ELSE << >>
  OBVIOUS
<1> HIDE DEF since, out
<1>13. Told(c)' /\ Knows(c)' /\ StreamOf(c)' = StreamOf(c)
  <2> HIDE DEF g
  <2>1. PICK k \in 0..Len(g) : sent'[c] = sent[c] \o SubSeq(g, 1, k)
    BY <1>8, <1>9, <1>12, SendTo
  <2> DEFINE t == SubSeq(g, 1, k)
  <2>2. t \in Seq(Msg) /\ Len(t) = k /\ \A i \in 1..k : t[i] = g[i]
    BY <1>7, FirstMessages
  <2>3. sent'[c] = sent[c] \o t /\ sent[c] = << >>
    BY <2>1, <1>4 DEF Started
  <2> HIDE DEF t
  <2>4. sent'[c] = t
    BY <2>2, <2>3, ConcatEmptySeq
  <2>5. Knows(c)' /\ StreamOf(c)' = StreamOf(c)
    BY <2>2, <2>3, <1>3, <1>4, <1>10, <1>11, AddsRead DEF EndFrame
  <2>6. ASSUME NEW i \in 1..k, t[i].type = "exit"
        PROVE  childExit /\ i = k /\ CompleteTo(t, asked[c], lastSeq)
    <3>1. i \in 1..Len(g) /\ g[i].type = "exit" /\ k \in 1..Len(g)
      BY <2>2, <2>6
    <3>2. childExit /\ i = Len(g)
      BY <3>1, <1>4, <1>5, <1>6, GreetingTellsEndLast DEF g
    <3>3. i = k /\ k = Len(g)
      BY <3>1, <3>2
    <3>4. CompleteTo(SubSeq(g, 1, k), since, lastSeq)
      BY <3>1, <3>3, <1>4, <1>5, <1>6, GreetingPrefixGood DEF g
    <3> QED BY <3>2, <3>3, <3>4, <1>4 DEF t
  <2>7. t # << >> => EndAfterLines(t, asked[c], exitAt)
    <3> SUFFICES ASSUME t # << >>, NEW i \in 1..Len(t), t[i].type = "exit",
                        NEW n \in (StreamStart(t, asked[c]) + 1)..exitAt
                 PROVE  \E j \in LinesOf(t) : j < i /\ t[j].seq = n
      BY DEF EndAfterLines
    <3>1. i \in 1..k /\ i = k /\ CompleteTo(t, asked[c], lastSeq)
      BY <2>2, <2>6
    <3>2. StreamStart(t, asked[c]) \in Int
      BY <2>2, <3>1, <1>6, StreamStartInt
    <3>3. n \in (StreamStart(t, asked[c]) + 1)..lastSeq
      BY <3>2, <1>5, <1>11
    <3>4. PICK j \in LinesOf(t) : t[j].seq = n
      BY <3>1, <3>3 DEF CompleteTo
    <3>5. j \in 1..k /\ j # i
      BY <3>4, <2>2 DEF LinesOf
    <3> QED BY <3>1, <3>4, <3>5
  <2>8. Told(c)'
    BY <2>2, <2>4, <2>6, <2>7, <1>10 DEF Told, Started, EndFrame
  <2> QED BY <2>5, <2>8
<1>14. ASSUME NEW d \in Clients, d # c PROVE Told(d)' /\ Knows(d)' /\ StreamOf(d)' = StreamOf(d)
  <2> HIDE DEF g
  <2>1. d \in Conns /\ sent[d] \in Seq(Msg)
    BY <1>6 DEF Conns
  <2>2. out[d] = IF d = client THEN << M("replaced", 0) >> ELSE << >>
    BY <1>12, <1>14, <2>1
  <2>3. PICK k \in 0..Len(out[d]) :
          /\ sent'[d] = sent[d] \o SubSeq(out[d], 1, k)
          /\ socket'[d] = "open" => socket[d] = "open" /\ k = Len(out[d])
    BY <1>8, <1>9, <2>1, SendTo
  <2>4. socket[d] # "open" => sent'[d] = sent[d]
    BY <1>8, <1>9, <2>1, SendTo
  <2>5. client = d => socket'[d] # "open"
    BY <1>8, <1>14, <2>1 DEF Send
  <2>6. \E t : Adds(d, t)
    <3>1. CASE d = client /\ socket[d] = "open"
      <4> DEFINE o == << M("replaced", 0) >>
                 r == SubSeq(o, 1, k)
      <4>1. o \in Seq(Msg) /\ \A i \in 1..Len(o) : o[i].type # "gap" /\ o[i].type # "exit"
        BY OneMessage
      <4>2. out[d] = o
        BY <2>2, <3>1
      <4> HIDE DEF o
      <4>3. r \in Seq(Msg) /\ Len(r) = k /\ \A i \in 1..k : r[i] = o[i] /\ i \in 1..Len(o)
        BY <4>1, <4>2, FirstMessages
      <4>4. sent'[d] = sent[d] \o r
        BY <2>3, <4>2
      <4>5. Started(d)
        BY <3>1, <2>1, ClientStarted
      <4> HIDE DEF r
      <4>6. Adds(d, r)
        BY <4>1, <4>3, <4>4, <4>5 DEF Adds
      <4> QED BY <4>6
    <3>2. CASE ~ (d = client /\ socket[d] = "open")
      <4>1. sent'[d] = sent[d]
        <5>1. CASE d # client
          <6>1. SubSeq(out[d], 1, k) = << >>
            BY <5>1, <2>2, SubSeqEmpty
          <6> QED BY <6>1, <2>1, <2>3, ConcatEmptySeq
        <5>2. CASE d = client
          BY <5>2, <3>2, <2>4
        <5> QED BY <5>1, <5>2
      <4>2. Adds(d, << >>)
        BY <4>1, <2>1, ConcatEmptySeq DEF Adds
      <4> QED BY <4>2
    <3> QED BY <3>1, <3>2
  <2>7. PICK t : Adds(d, t)
    BY <2>6
  <2>8. Told(d)'
    BY <2>3, <2>5, <2>7, <1>10, <1>11, AddsTold DEF EndFrame
  <2>9. t \in Seq(Msg) /\ sent'[d] = sent[d] \o t /\ \A i \in 1..Len(t) : t[i].type # "gap"
    BY <2>7 DEF Adds
  <2>10. Knows(d)' /\ StreamOf(d)' = StreamOf(d)
    BY <2>9, <1>10, <1>11, AddsRead DEF EndFrame
  <2> QED BY <2>8, <2>10
<1> QED BY <1>13, <1>14 DEF Kept

-----------------------------------------------------------------------------
(***************************************************************************)
(* The steps of the clients, as steps of the abstract relay.               *)
(***************************************************************************)

\* One client's part of Relay!ClientStep.
Moves(c) ==
    \/ StreamOf(c)' = StreamOf(c)
    \/ StreamOf(c)' \in Relay!Begin(StreamOf(c)) \cup Relay!ReadLine(StreamOf(c))
                          \cup Relay!LearnEnd(StreamOf(c)) \cup Relay!Lose(StreamOf(c))

\* StreamOf, with its cases apart.
LEMMA StreamOfIs ==
  ASSUME NEW c \in Clients
  PROVE  LET start == StreamStart(sent[c], asked[c])
             state(otherwise) == IF peer[c] = "exited" THEN "exited"
                                 ELSE IF peer[c] = "disconnected" THEN "lost" ELSE otherwise
         IN  /\ Greeted(Read(c)) =>
                  StreamOf(c) = [state |-> state("open"), from |-> start, to |-> ReadUpTo(Read(c), start)]
             /\ ~Greeted(Read(c)) => StreamOf(c) = [state |-> state("none"), from |-> 0, to |-> 0]
BY DEF StreamOf

\* A client is greeted by the first message it reads.
LEMMA GreetedByFirst ==
  ASSUME TypeOK, StreamInv, NEW c \in Clients, Knows(c)
  PROVE  /\ Greeted(Read(c)) <=> rcvd[c] > 0
         /\ rcvd[c] > 0 => Started(c) /\ GoodStream(sent[c], asked[c], lastSeq) /\ sent[c][1].type = "welcome"
<1>1. c \in Conns /\ sent[c] \in Seq(Msg) /\ rcvd[c] \in 0..Len(sent[c]) /\ Len(sent[c]) \in Nat
  BY DEF Conns, TypeOK, StreamTypes, PeerTypes, Knows
<1>2. Read(c) \in Seq(Msg) /\ Len(Read(c)) = rcvd[c] /\ \A i \in 1..rcvd[c] : Read(c)[i] = sent[c][i]
  BY <1>1, FirstMessages DEF Read
<1>3. rcvd[c] > 0 => Started(c) /\ GoodStream(sent[c], asked[c], lastSeq) /\ sent[c][1].type = "welcome"
  <2> SUFFICES ASSUME rcvd[c] > 0 PROVE Started(c) /\ GoodStream(sent[c], asked[c], lastSeq) /\ sent[c][1].type = "welcome"
    OBVIOUS
  <2>1. Started(c)
    BY <1>1 DEF Started
  <2>2. Stream(c)
    BY <1>1 DEF StreamInv
  <2>3. GoodStream(sent[c], asked[c], lastSeq)
    BY <2>1, <2>2 DEF Stream
  <2> QED BY <2>1, <2>3 DEF GoodStream, Greeted
<1>4. rcvd[c] > 0 => Greeted(Read(c))
  BY <1>1, <1>2, <1>3 DEF Greeted
<1>5. Greeted(Read(c)) => rcvd[c] > 0
  BY <1>1, <1>2 DEF Greeted
<1> QED BY <1>3, <1>4, <1>5

\* The client reads the next message: it learns where its stretch begins, reads the next
\* line of it, learns of its end, or nothing.
LEMMA PeerReceivesMoves ==
  ASSUME TypeOK, StreamInv, NEW c \in Clients, Told(c), Knows(c), PeerReceives(c)
  PROVE  Knows(c)' /\ Moves(c)
<1> DEFINE s == sent[c]
           k == rcvd[c]
           m == s[k + 1]
           start == StreamStart(s, asked[c])
           here == ReadUpTo(SubSeq(s, 1, k), start)
           there == ReadUpTo(SubSeq(s, 1, k + 1), start)
<1>1. /\ c \in Conns /\ s \in Seq(Msg) /\ k \in Nat /\ k \in 0..(Len(s) - 1) /\ Len(s) \in Nat
      /\ lastSeq \in Nat /\ exitAt \in Nat /\ s # << >> /\ asked[c] \in Nat \cup {LiveOnly}
  BY DEF Conns, TypeOK, StreamTypes, PeerTypes, BufTypes, ChildTypes, PeerReceives
<1>2. /\ sent' = sent /\ asked' = asked /\ rcvd'[c] = k + 1 /\ lastSeq' = lastSeq
      /\ peer'[c] = IF m.type = "exit" THEN "exited"
                    ELSE IF m.type = "welcome" /\ peer[c] = "connecting" THEN "welcomed" ELSE peer[c]
  <2>1. peer[c] # "asking"
    BY <1>1 DEF StreamInv, Handshake, ClientHandshake
  <2> QED BY <2>1, <1>1 DEF PeerReceives, TypeOK, PeerTypes, bufVars
<1>3. peer[c] \in { "connecting", "welcomed", "closing", "terminating", "exited" }
  BY <1>1 DEF PeerReceives, Reading, StreamInv, Handshake, ClientHandshake
<1>4. GoodStream(s, asked[c], lastSeq) /\ s[1].type = "welcome" /\ EndAfterLines(s, asked[c], exitAt)
  <2>1. Stream(c) /\ Started(c)
    BY <1>1 DEF StreamInv, Started
  <2>2. GoodStream(s, asked[c], lastSeq)
    BY <2>1 DEF Stream
  <2> QED BY <2>1, <2>2 DEF GoodStream, Greeted, Told
<1>5. Read(c) = SubSeq(s, 1, k) /\ Read(c)' = SubSeq(s, 1, k + 1)
  BY <1>2 DEF Read
<1>6. Greeted(Read(c)) <=> k > 0
  BY <1>1, GreetedByFirst
<1>7. Greeted(Read(c)')
  <2>1. SubSeq(s, 1, k + 1) \in Seq(Msg) /\ Len(SubSeq(s, 1, k + 1)) = k + 1 /\ SubSeq(s, 1, k + 1)[1] = s[1]
    BY <1>1, FirstMessages
  <2> DEFINE r == SubSeq(s, 1, k + 1)
  <2>2. Read(c)' = r /\ r # << >> /\ r[1].type = "welcome"
    BY <2>1, <1>1, <1>4, <1>5
  <2> HIDE DEF r
  <2> QED BY <2>2 DEF Greeted
<1>8. /\ start \in 0..lastSeq
      /\ peer[c] # "exited" => \A j \in 1..k : s[j].type # "exit"
      /\ peer[c] = "exited" => k > 0 /\ \E j \in 1..k : s[j].type = "exit"
  <2>1. start \in 0..lastSeq
    BY <1>4 DEF GoodStream, Within
  <2>2. peer[c] # "exited" => ~ExitRead(c)
    BY <1>3 DEF Knows
  <2>3. peer[c] = "exited" => ExitRead(c)
    BY DEF Knows
  <2> QED BY <2>1, <2>2, <2>3, <1>1 DEF ExitRead
<1>9. Knows(c)'
  <2>1. \A j \in 1..(k + 1) : j \in 1..k \/ j = k + 1
    BY <1>1
  <2>2. ExitRead(c)' <=> \E j \in 1..(k + 1) : s[j].type = "exit"
    BY <1>2 DEF ExitRead
  <2>3. rcvd'[c] <= Len(sent'[c])
    BY <1>1, <1>2
  <2>4. peer'[c] = "exited" => ExitRead(c)'
    BY <1>1, <1>2, <1>8, <2>2
  <2>5. peer'[c] # "exited" => ~ExitRead(c)'
    BY <1>2, <1>3, <1>8, <2>1, <2>2
  <2> QED BY <2>3, <2>4, <2>5 DEF Knows
\* Both mapped streams, in these terms.
<1>10. StreamOf(c) = IF k > 0 THEN [state |-> IF peer[c] = "exited" THEN "exited" ELSE "open",
                                    from |-> start, to |-> here]
                     ELSE [state |-> "none", from |-> 0, to |-> 0]
  BY <1>3, <1>5, <1>6, <1>8, StreamOfIs
<1>11. StreamOf(c)' = [state |-> IF peer'[c] = "exited" THEN "exited" ELSE "open", from |-> start, to |-> there]
  BY <1>2, <1>3, <1>5, <1>7 DEF StreamOf
<1>12. Moves(c)
  <2> HIDE DEF s, m, k, start, here, there
  <2>1. CASE peer[c] = "exited"
    <3>1. there = here
      BY <1>1, <1>8, <2>1, ReadOther DEF here, there, s
    <3> QED BY <3>1, <2>1, <1>2, <1>8, <1>10, <1>11 DEF Moves
  <2>2. CASE peer[c] # "exited" /\ k = 0
    <3>1. m.type = "welcome"
      BY <1>4, <2>2 DEF m
    <3>2. there = here
      BY <3>1, <1>1, ReadOther DEF here, there, s, m
    <3>3. here = start
      <4>1. /\ here = start \/ \E i \in LinesOf(s) : i <= k /\ s[i].seq = here
        BY <1>1, <1>4, <1>8, <2>2, ReadSoFar DEF start, here
      <4>2. \A i \in LinesOf(s) : ~ (i <= k)
        BY <2>2, <1>1 DEF LinesOf
      <4> QED BY <4>1, <4>2
    <3>4. peer'[c] # "exited"
      BY <1>2, <2>2, <3>1
    <3>5. StreamOf(c)' \in Relay!Begin(StreamOf(c))
      BY <3>2, <3>3, <3>4, <1>8, <1>10, <1>11, <2>2 DEF Relay!Begin
    <3> QED BY <3>5 DEF Moves
  <2>3. CASE peer[c] # "exited" /\ k > 0 /\ m.type = "line"
    <3>1. there = here + 1 /\ here \in start..(lastSeq - 1)
      BY <1>1, <1>4, <1>8, <2>3, ReadNextLine DEF start, here, there, m
    <3>2. peer'[c] # "exited"
      BY <1>2, <2>3
    <3>3. /\ StreamOf(c) = [state |-> "open", from |-> start, to |-> here]
          /\ StreamOf(c)' = [state |-> "open", from |-> start, to |-> here + 1]
          /\ here < lastSeq
      BY <3>1, <3>2, <1>1, <1>8, <1>10, <1>11, <2>3
    <3>4. StreamOf(c)' \in Relay!ReadLine(StreamOf(c))
      BY <3>3 DEF Relay!ReadLine
    <3> QED BY <3>4 DEF Moves
  <2>4. CASE peer[c] # "exited" /\ k > 0 /\ m.type = "exit"
    <3>1. there = here
      BY <1>1, <2>4, ReadOther DEF here, there, s, m
    <3>2. here \in start..lastSeq /\ \A i \in LinesOf(s) : i <= k => s[i].seq <= here
      BY <1>1, <1>4, <1>8, <2>4, ReadSoFar DEF start, here
    <3>3. k + 1 \in 1..Len(s)
      BY <1>1
    <3>4. childExit
      BY <3>3, <2>4 DEF Told, s, m
    <3>5. here >= exitAt
      <4>1. CASE exitAt <= start
        BY <4>1, <3>2, <1>1, <1>8
      <4>2. CASE exitAt > start
        <5>1. exitAt \in (start + 1)..exitAt
          BY <4>2, <1>1, <1>8
        <5>2. PICK j \in LinesOf(s) : j < k + 1 /\ s[j].seq = exitAt
          BY <5>1, <3>3, <2>4, <1>4 DEF EndAfterLines, start, m
        <5>3. j <= k
          BY <5>2, <1>1 DEF LinesOf
        <5> QED BY <5>2, <5>3, <3>2
      <4> QED BY <4>1, <4>2, <1>1, <1>8
    <3>6. peer'[c] = "exited"
      BY <1>2, <2>4
    <3>7. StreamOf(c).state = "open" /\ StreamOf(c).to = here
          /\ StreamOf(c)' = [StreamOf(c) EXCEPT !.state = "exited"]
      BY <3>1, <3>6, <1>10, <1>11, <2>4
    <3>8. StreamOf(c)' \in Relay!LearnEnd(StreamOf(c))
      BY <3>4, <3>5, <3>7 DEF Relay!LearnEnd
    <3> QED BY <3>8 DEF Moves
  <2>5. CASE peer[c] # "exited" /\ k > 0 /\ m.type \notin { "line", "exit" }
    <3>1. there = here
      BY <1>1, <2>5, ReadOther DEF here, there, s, m
    <3>2. peer'[c] # "exited"
      BY <1>2, <2>5
    <3> QED BY <3>1, <3>2, <1>10, <1>11, <2>5 DEF Moves
  <2> QED BY <2>1, <2>2, <2>3, <2>4, <2>5, <1>1
<1> QED BY <1>9, <1>12

\* The end of the connection, seen or made by the client, loses a stream that is not over.
LEMMA PeerLoses ==
  ASSUME TypeOK, StreamInv, NEW c \in Clients, Knows(c), PeerSeesClose(c) \/ PeerDrops(c)
  PROVE  Knows(c)' /\ Moves(c)
<1>1. /\ c \in Conns /\ peer[c] \in { "connecting", "welcomed", "closing", "terminating", "asking" }
      /\ peer'[c] = "disconnected" /\ sent' = sent /\ rcvd' = rcvd /\ asked' = asked
  BY DEF Conns, TypeOK, PeerTypes, PeerSeesClose, PeerDrops, Reading
<1>2. Knows(c)'
  BY <1>1 DEF Knows
<1>3. Read(c)' = Read(c)
  BY <1>1 DEF Read
<1>4. CASE Greeted(Read(c))
  <2>1. StreamOf(c) = [state |-> "open", from |-> StreamStart(sent[c], asked[c]),
                       to |-> ReadUpTo(Read(c), StreamStart(sent[c], asked[c]))]
    BY <1>1, <1>4, StreamOfIs
  <2>2. StreamOf(c)' = [state |-> "lost", from |-> StreamStart(sent[c], asked[c]),
                        to |-> ReadUpTo(Read(c), StreamStart(sent[c], asked[c]))]
    BY <1>1, <1>3, <1>4 DEF StreamOf
  <2>3. StreamOf(c)' \in Relay!Lose(StreamOf(c))
    BY <2>1, <2>2 DEF Relay!Lose
  <2> QED BY <2>3, <1>2 DEF Moves
<1>5. CASE ~Greeted(Read(c))
  <2>1. StreamOf(c) = [state |-> "none", from |-> 0, to |-> 0]
    BY <1>1, <1>5, StreamOfIs
  <2>2. StreamOf(c)' = [state |-> "lost", from |-> 0, to |-> 0]
    BY <1>1, <1>3, <1>5 DEF StreamOf
  <2>3. StreamOf(c)' \in Relay!Lose(StreamOf(c))
    BY <2>1, <2>2 DEF Relay!Lose
  <2> QED BY <2>3, <1>2 DEF Moves
<1> QED BY <1>4, <1>5

\* A client end that only asks for something reads nothing.
LEMMA PeerAsksMoves ==
  ASSUME TypeOK, StreamInv, NEW c \in Clients, Knows(c),
         PeerAsks(c, "write") \/ PeerAsks(c, "status") \/ PeerCloses(c) \/ PeerTerminates(c)
  PROVE  Knows(c)' /\ Moves(c)
<1>1. /\ c \in Conns /\ sent[c] \in Seq(Msg) /\ sent' = sent /\ rcvd' = rcvd /\ asked' = asked
      /\ peer[c] = "welcomed" /\ peer'[c] \in { "welcomed", "closing", "terminating" }
  BY DEF Conns, TypeOK, StreamTypes, PeerTypes, PeerAsks, PeerCloses, PeerTerminates
<1>2. Knows(c)'
  BY <1>1 DEF Knows, ExitRead
<1>3. Read(c)' = Read(c)
  BY <1>1 DEF Read
<1>4. StreamOf(c)' = StreamOf(c)
  BY <1>1, <1>3 DEF StreamOf
<1> QED BY <1>2, <1>4 DEF Moves

LEMMA ConnectMoves ==
  ASSUME TypeOK, StreamInv, NEW c \in Clients, Knows(c), NEW since \in Sinces, Connect(c, since)
  PROVE  Told(c)' /\ Knows(c)' /\ Moves(c)
<1>1. /\ c \in Conns /\ peer[c] = "idle" /\ peer'[c] = "connecting" /\ sent' = sent /\ rcvd' = rcvd
      /\ childExit' = childExit
  BY DEF Conns, Connect, TypeOK, PeerTypes, childVars
<1>2. sent[c] = << >> /\ rcvd[c] \in 0..Len(sent[c])
  BY <1>1 DEF StreamInv, Handshake, Started, Knows, TypeOK, PeerTypes
<1>3. rcvd[c] = 0 /\ sent'[c] = << >> /\ rcvd'[c] = 0
  BY <1>1, <1>2
<1>4. Told(c)' /\ Knows(c)'
  BY <1>1, <1>3 DEF Told, Knows, Started, ExitRead
<1>5. ~Greeted(Read(c)) /\ ~Greeted(Read(c)')
  BY <1>2, <1>3, SubSeqEmpty DEF Read, Greeted
<1>6. StreamOf(c)' = StreamOf(c)
  BY <1>1, <1>5 DEF StreamOf
<1> QED BY <1>4, <1>6 DEF Moves

\* A step of one client end leaves the others, and what the host wrote, as they are.
LEMMA PeerStepMoves ==
  ASSUME TypeOK, StreamInv, RelayInv, NEW c \in Conns, PeerStep(c)
  PROVE  /\ RelayInv'
         /\ \A d \in Clients \ {c} : StreamOf(d)' = StreamOf(d)
         /\ c \in Clients => Moves(c)
<1>1. /\ sent' = sent /\ UNCHANGED << lastSeq, childExit, exitAt, client >>
      /\ \A d \in Conns \ {c} : /\ socket'[d] = socket[d] /\ rcvd'[d] = rcvd[d]
                                /\ peer'[d] = peer[d] /\ asked'[d] = asked[d]
  <2>1. sent' = sent /\ UNCHANGED << lastSeq, childExit, exitAt, client >>
    BY DEF PeerStep, Connect, ConnectToTerminate, PeerReceives, PeerAsks, PeerCloses, PeerTerminates,
       PeerSeesClose, PeerDrops, bufVars, childVars, connVars
  <2>2. /\ socket \in [Conns -> { "none", "open", "ending", "destroyed", "gone" }]
        /\ rcvd \in [Conns -> Nat] /\ peer \in [Conns -> Peers] /\ asked \in [Conns -> Nat \cup {LiveOnly}]
    BY DEF TypeOK, StreamTypes, PeerTypes
  <2>3. /\ \A d \in Conns \ {c} : socket'[d] = socket[d]
        /\ \A d \in Conns \ {c} : rcvd'[d] = rcvd[d]
        /\ \A d \in Conns \ {c} : peer'[d] = peer[d]
        /\ \A d \in Conns \ {c} : asked'[d] = asked[d]
    BY <2>2 DEF PeerStep, Connect, ConnectToTerminate, PeerReceives, PeerAsks, PeerCloses, PeerTerminates,
       PeerSeesClose, PeerDrops
  <2> QED BY <2>1, <2>3
<1>2. exitAt' <= lastSeq' /\ \A d \in Clients : Told(d) /\ Knows(d)
  BY <1>1 DEF RelayInv
<1>3. ASSUME NEW d \in Clients \ {c} PROVE Told(d)' /\ Knows(d)' /\ StreamOf(d)' = StreamOf(d)
  <2>1. d \in Conns \ {c}
    BY DEF Conns
  <2>2. Told(d)' /\ Knows(d)'
    BY <1>1, <1>2, <2>1 DEF Told, Knows, Started, ExitRead
  <2>3. Read(d)' = Read(d)
    BY <1>1, <2>1 DEF Read
  <2>4. StreamOf(d)' = StreamOf(d)
    BY <1>1, <2>1, <2>3 DEF StreamOf
  <2> QED BY <2>2, <2>4
<1>4. ASSUME c \in Clients PROVE Told(c)' /\ Knows(c)' /\ Moves(c)
  <2>1. ASSUME NEW since \in Sinces, Connect(c, since) PROVE Told(c)' /\ Knows(c)' /\ Moves(c)
    BY <1>2, <1>4, <2>1, ConnectMoves
  <2>2. CASE ~ (\E since \in Sinces : Connect(c, since))
    <3>1. c \notin Terminators
      BY <1>4, ConnAssumption
    <3>2. \/ PeerReceives(c) \/ PeerSeesClose(c) \/ PeerDrops(c)
          \/ PeerAsks(c, "write") \/ PeerAsks(c, "status") \/ PeerCloses(c) \/ PeerTerminates(c)
      BY <2>2, <3>1, <1>4 DEF PeerStep
    <3>3. Knows(c)' /\ Moves(c)
      BY <3>2, <1>2, <1>4, PeerReceivesMoves, PeerLoses, PeerAsksMoves
    <3>4. socket' = socket /\ asked' = asked
      BY <3>2 DEF PeerReceives, PeerAsks, PeerCloses, PeerTerminates, PeerSeesClose, PeerDrops
    <3>5. Told(c)'
      BY <3>4, <1>1, <1>2, <1>4 DEF Told, Started
    <3> QED BY <3>3, <3>5
  <2> QED BY <2>1, <2>2
<1>5. RelayInv'
  BY <1>2, <1>3, <1>4 DEF RelayInv
<1> QED BY <1>3, <1>4, <1>5

-----------------------------------------------------------------------------
(***************************************************************************)
(* The refinement.                                                         *)
(***************************************************************************)

\* A step of the host maps to a line printed, to the provider's end, or to nothing.
LEMMA HostMoves ==
  ASSUME TypeOK, RelayInv, Kept,
         \/ UNCHANGED << lastSeq, childExit, exitAt >>
         \/ lastSeq' = lastSeq + 1 /\ UNCHANGED << childExit, exitAt >>
         \/ ~childExit /\ childExit' = TRUE /\ exitAt' = lastSeq /\ lastSeq' = lastSeq
  PROVE  RelayInv' /\ [Relay!Next]_(Relay!vars)
<1>1. [c \in Clients |-> StreamOf(c)]' = [c \in Clients |-> StreamOf(c)]
  BY DEF Kept
<1>2. exitAt' <= lastSeq'
  BY DEF RelayInv, TypeOK, BufTypes, ChildTypes
<1>3. RelayInv'
  BY <1>2 DEF RelayInv, Kept
<1>4. [Relay!Next]_(Relay!vars)
  BY <1>1 DEF Relay!Next, Relay!Output, Relay!ProviderEnds, Relay!vars
<1> QED BY <1>3, <1>4

LEMMA PeerMoves ==
  ASSUME TypeOK, StreamInv, RelayInv, NEW c \in Conns, PeerStep(c)
  PROVE  RelayInv' /\ [Relay!Next]_(Relay!vars)
<1> DEFINE before == [d \in Clients |-> StreamOf(d)]
           after == [d \in Clients |-> StreamOf(d)']
<1>1. /\ RelayInv' /\ \A d \in Clients \ {c} : StreamOf(d)' = StreamOf(d)
      /\ c \in Clients => Moves(c)
  BY PeerStepMoves
<1>2. UNCHANGED << lastSeq, childExit, exitAt >>
  BY DEF PeerStep, Connect, ConnectToTerminate, PeerReceives, PeerAsks, PeerCloses, PeerTerminates,
     PeerSeesClose, PeerDrops, bufVars, childVars
<1>3. CASE c \in Clients
  <2>0. /\ before = [d \in Clients |-> before[d]] /\ after = [d \in Clients |-> after[d]]
        /\ \A d \in Clients : d # c => after[d] = before[d]
    <3>1. \A d \in Clients : d # c => StreamOf(d)' = StreamOf(d)
      BY <1>1
    <3> QED BY <3>1
  <2> HIDE DEF before, after
  <2>1. after = [before EXCEPT ![c] = after[c]]
    BY <2>0, <1>3
  <2> USE DEF before, after
  <2>2. \/ after[c] = before[c]
        \/ after[c] \in Relay!Begin(before[c]) \cup Relay!ReadLine(before[c])
                          \cup Relay!LearnEnd(before[c]) \cup Relay!Lose(before[c])
    BY <1>1, <1>3 DEF Moves
  <2>3. Relay!ClientStep
    BY <1>2, <1>3, <2>1, <2>2 DEF Relay!ClientStep
  <2> QED BY <2>3, <1>1 DEF Relay!Next
<1>4. CASE c \notin Clients
  <2>1. [d \in Clients |-> StreamOf(d)]' = [d \in Clients |-> StreamOf(d)]
    BY <1>1, <1>4
  <2> QED BY <2>1, <1>1, <1>2 DEF Relay!vars
<1> QED BY <1>3, <1>4

LEMMA NextImplements ==
  TypeOK /\ BufferContiguous /\ StreamInv /\ RelayInv /\ [Next]_vars => RelayInv' /\ [Relay!Next]_(Relay!vars)
<1> SUFFICES ASSUME TypeOK, BufferContiguous, StreamInv, RelayInv, [Next]_vars
             PROVE  RelayInv' /\ [Relay!Next]_(Relay!vars)
  OBVIOUS
<1>1. ASSUME NEW bytes \in LineBytes, ChildLine(bytes) PROVE RelayInv' /\ [Relay!Next]_(Relay!vars)
  <2>1. lastSeq' = lastSeq + 1 /\ UNCHANGED << childExit, exitAt >>
    BY <1>1 DEF ChildLine, childVars
  <2> QED BY <1>1, <2>1, ChildLineKeeps, HostMoves
<1>2. CASE ~childExit /\ ChildEnded
  <2>1. ~childExit /\ childExit' = TRUE /\ exitAt' = lastSeq /\ lastSeq' = lastSeq
    BY <1>2 DEF ChildEnded
  <2> QED BY <1>2, <2>1, ChildEndedKeeps, HostMoves
<1>3. CASE \/ ChildExits \/ GraceExpires \/ (childExit /\ (LineOverflow \/ StdoutCloses)) \/ Crash
           \/ \E c \in Conns : OnWrite(c) \/ SocketCloses(c)
  <2>1. UNCHANGED << lastSeq, childExit, exitAt >>
    BY <1>3 DEF ChildExits, GraceExpires, LineOverflow, StdoutCloses, Crash, OnWrite, SocketCloses, childVars, bufVars
  <2> QED BY <1>3, <2>1, SilentStepsKeep, HostMoves
<1>4. CASE HostSignalled \/ LingerExpires \/ Abort
  <2>1. UNCHANGED << lastSeq, childExit, exitAt >>
    BY <1>4 DEF HostSignalled, LingerExpires, Abort, childVars, bufVars
  <2> QED BY <1>4, <2>1, StopStepsKeep, HostMoves
<1>5. ASSUME NEW c \in Conns, OnHello(c) \/ OnStatus(c) \/ OnTerminate(c)
      PROVE  RelayInv' /\ [Relay!Next]_(Relay!vars)
  <2>1. UNCHANGED << lastSeq, childExit, exitAt >>
    BY <1>5 DEF OnHello, OnStatus, OnTerminate, childVars, bufVars
  <2> QED BY <1>5, <2>1, OnHelloKeeps, OnStatusKeeps, OnTerminateKeeps, HostMoves
<1>6. ASSUME NEW c \in Conns, PeerStep(c) PROVE RelayInv' /\ [Relay!Next]_(Relay!vars)
  BY <1>6, PeerMoves
<1>7. CASE UNCHANGED vars
  <2>1. UNCHANGED << lastSeq, childExit, exitAt, sent, socket, client >> /\ EndFrame
    BY <1>7 DEF vars, childVars, bufVars, connVars, peerVars, EndFrame
  <2>2. Kept
    BY <2>1, SilentKeeps
  <2> QED BY <2>1, <2>2, HostMoves
<1>8. LineOverflow \/ StdoutCloses \/ FlushTimeout \/ KillWaitExpires
        => (childExit /\ (LineOverflow \/ StdoutCloses)) \/ (~childExit /\ ChildEnded)
  BY DEF LineOverflow, StdoutCloses, FlushTimeout, KillWaitExpires
<1> QED BY <1>1, <1>2, <1>3, <1>4, <1>5, <1>6, <1>7, <1>8 DEF Next, ChildStep, HostTimer, HostStep

LEMMA InitImplements == Init => Relay!Init
<1> SUFFICES ASSUME NEW spawned \in BOOLEAN, InitWith(spawned) PROVE Relay!Init
  BY DEF Init
<1>1. lastSeq = 0 /\ exitAt = 0 /\ childExit \in BOOLEAN
  <2>1. CASE spawned
    BY <2>1 DEF InitWith
  <2>2. CASE ~spawned
    BY <2>2 DEF InitWith
  <2> QED BY <2>1, <2>2
<1>2. ASSUME NEW c \in Clients PROVE StreamOf(c) = [state |-> "none", from |-> 0, to |-> 0]
  <2>1. sent[c] = << >> /\ rcvd[c] = 0 /\ peer[c] = "idle"
    BY DEF InitWith, Nothing, Conns
  <2>2. ~Greeted(Read(c))
    BY <2>1, SubSeqEmpty DEF Read, Greeted
  <2> QED BY <2>1, <2>2, StreamOfIs
<1> QED BY <1>1, <1>2 DEF Relay!Init

\* The host and its clients implement the abstract relay: however clients connect, replace
\* each other, fall behind or fail, and however the child ends, every client reads one
\* unbroken stretch of the provider's output and learns of its end only after the last line.
THEOREM RelayImplementsContract == Spec => ImplementsRelay
<1>1. Init => RelayInv /\ Relay!Init
  BY InitRelay, InitImplements
<1>2. TypeOK /\ BufferContiguous /\ StreamInv /\ RelayInv /\ [Next]_vars => RelayInv' /\ [Relay!Next]_(Relay!vars)
  BY NextImplements
<1> QED BY <1>1, <1>2, StreamInvariant, PTL DEF Spec, ImplementsRelay, Relay!Spec
=============================================================================
