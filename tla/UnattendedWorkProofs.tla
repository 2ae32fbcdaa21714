------------------------ MODULE UnattendedWorkProofs ------------------------
(***************************************************************************)
(* Proofs about UnattendedWork, for any messages, dispatches and signals,  *)
(* any limit and any number of permissions, restarts and failures: types,  *)
(* and the four properties of the automatic prompts.                       *)
(***************************************************************************)
EXTENDS UnattendedWork, FiniteSetTheorems, SequenceTheorems, TLAPS

-----------------------------------------------------------------------------
(* The lists of signals.                                                   *)

\* The newest n members of a list: what is near its end stays, as near as it was.
LEMMA NewestKeeps ==
  ASSUME NEW S, NEW q \in Seq(S), NEW n \in Nat
  PROVE  /\ Newest(q, n) \in Seq(S)
         /\ Len(Newest(q, n)) <= n
         /\ \A i \in DOMAIN q : Len(q) - i < n =>
              \E j \in DOMAIN Newest(q, n) :
                Newest(q, n)[j] = q[i] /\ Len(Newest(q, n)) - j = Len(q) - i
<1>0. Len(q) \in Nat /\ DOMAIN q = 1 .. Len(q) /\ \A i \in 1 .. Len(q) : q[i] \in S
  BY LenProperties, ElementOfSeq
<1>1. CASE Len(q) <= n
  BY <1>0, <1>1 DEF Newest
<1>2. CASE ~(Len(q) <= n)
  <2> DEFINE r == SubSeq(q, Len(q) - n + 1, Len(q))
  <2>1. Newest(q, n) = r
    BY <1>2 DEF Newest
  <2>2. \A i \in Len(q) - n + 1 .. Len(q) : q[i] \in S
    BY <1>0, <1>2
  <2>3. Len(q) - n + 1 \in Int /\ Len(q) \in Int
    BY <1>0
  <2>4. r \in Seq(S)
    BY <2>2, <2>3, SubSeqProperties
  <2>5. Len(r) = n /\ \A i \in 1 .. n : r[i] = q[Len(q) - n + 1 + i - 1]
    <3>1. /\ Len(r) = IF Len(q) - n + 1 <= Len(q) THEN Len(q) - (Len(q) - n + 1) + 1 ELSE 0
          /\ \A i \in 1 .. Len(q) - (Len(q) - n + 1) + 1 : r[i] = q[(Len(q) - n + 1) + i - 1]
      BY <2>2, <2>3, SubSeqProperties
    <3> HIDE DEF r
    <3>2. Len(q) - (Len(q) - n + 1) + 1 = n
      BY <1>0
    <3> QED BY <1>0, <3>1, <3>2
  <2>6. DOMAIN r = 1 .. n
    BY <2>4, <2>5, LenProperties
  <2> HIDE DEF r
  <2>7. ASSUME NEW i \in DOMAIN q, Len(q) - i < n
        PROVE  \E j \in DOMAIN r : r[j] = q[i] /\ Len(r) - j = Len(q) - i
    <3>1. i - (Len(q) - n) \in 1 .. n /\ Len(q) - n + 1 + (i - (Len(q) - n)) - 1 = i
      BY <1>0, <1>2, <2>7
    <3>2. r[i - (Len(q) - n)] = q[i]
      BY <2>5, <3>1
    <3>3. Len(r) - (i - (Len(q) - n)) = Len(q) - i
      BY <1>0, <2>5, <3>1
    <3> QED BY <2>6, <3>1, <3>2, <3>3
  <2> QED BY <2>1, <2>4, <2>5, <2>7
<1> QED BY <1>1, <1>2

\* The place of a member among those that are left: one each.
LEMMA Ranks ==
  ASSUME NEW n \in Nat, NEW left \in SUBSET (1 .. n)
  PROVE  /\ IsFiniteSet(left) /\ Cardinality(left) \in Nat
         /\ \A i \in left : Cardinality({ k \in left : k <= i }) \in 1 .. Cardinality(left)
         /\ \A i, j \in left : Cardinality({ k \in left : k <= i }) = Cardinality({ k \in left : k <= j }) => i = j
         /\ \A m \in 1 .. Cardinality(left) : \E i \in left : Cardinality({ k \in left : k <= i }) = m
<1> DEFINE upTo(i) == { k \in left : k <= i }
           rank(i) == Cardinality(upTo(i))
<1>1. IsFiniteSet(left) /\ Cardinality(left) \in Nat
  <2>1. IsFiniteSet(1 .. n)
    BY FS_Interval
  <2>2. IsFiniteSet(left)
    BY <2>1, FS_Subset
  <2> QED BY <2>2, FS_CardinalityType
<1>2. ASSUME NEW i \in left
      PROVE  IsFiniteSet(upTo(i)) /\ rank(i) \in 1 .. Cardinality(left)
  <2>1. upTo(i) \in SUBSET left /\ i \in upTo(i)
    OBVIOUS
  <2>2. IsFiniteSet(upTo(i)) /\ rank(i) <= Cardinality(left)
    BY <1>1, <2>1, FS_Subset
  <2>3. rank(i) \in Nat /\ rank(i) # 0
    BY <2>1, <2>2, FS_CardinalityType, FS_EmptySet
  <2> QED BY <1>1, <2>2, <2>3
<1>3. ASSUME NEW i \in left, NEW j \in left, i < j PROVE rank(i) # rank(j)
  <2>0. left \subseteq Nat /\ i \in Nat /\ j \in Nat
    OBVIOUS
  <2>1. upTo(i) \in SUBSET upTo(j) /\ j \in upTo(j) /\ j \notin upTo(i)
    <3>1. \A k \in Nat : k <= i => k <= j
      BY <1>3, <2>0
    <3>2. j <= j /\ ~(j <= i)
      BY <1>3, <2>0
    <3>3. \A k \in left : k <= i => k <= j
      BY <2>0, <3>1, Zenon
    <3> QED BY <3>2, <3>3, Zenon
  <2>2. upTo(i) # upTo(j)
    BY <2>1
  <2> QED BY <1>2, <2>1, <2>2, FS_Subset
<1>4. ASSUME NEW i \in left, NEW j \in left, rank(i) = rank(j) PROVE i = j
  <2>1. i \in Nat /\ j \in Nat
    OBVIOUS
  <2>2. ~(i < j) /\ ~(j < i)
    BY <1>3, <1>4
  <2> QED BY <2>1, <2>2
<1>5. ASSUME NEW m \in 1 .. Cardinality(left), ~ \E i \in left : rank(i) = m PROVE FALSE
  <2> DEFINE T == (1 .. Cardinality(left)) \ {m}
             f == [ i \in left |-> rank(i) ]
  <2>1. IsFiniteSet(1 .. Cardinality(left)) /\ Cardinality(1 .. Cardinality(left)) = Cardinality(left)
    <3>1. 1 \in Int /\ Cardinality(left) \in Int
      BY <1>1
    <3>2. IsFiniteSet(1 .. Cardinality(left))
          /\ Cardinality(1 .. Cardinality(left)) = IF 1 > Cardinality(left) THEN 0 ELSE Cardinality(left) - 1 + 1
      BY <3>1, FS_Interval
    <3> QED BY <1>1, <3>2
  <2>2. IsFiniteSet(T) /\ Cardinality(T) = Cardinality(left) - 1
    BY <2>1, FS_RemoveElement
  <2>3. Cardinality(T) < Cardinality(left)
    BY <1>1, <2>2
  <2>4. \A i \in left : rank(i) \in T
    <3> HIDE DEF rank
    <3> QED BY <1>2, <1>5
  <2>5. f \in [ left -> T ]
    <3> HIDE DEF rank, T
    <3> QED BY <2>4
  <2>6. \E x, y \in left : x # y /\ f[x] = f[y]
    <3> HIDE DEF f, T
    <3> QED BY <1>1, <2>2, <2>3, <2>5, FS_PigeonHole
  <2> HIDE DEF rank
  <2> QED BY <1>4, <2>6
<1> HIDE DEF rank
<1>6. /\ \A i \in left : rank(i) \in 1 .. Cardinality(left)
      /\ \A i, j \in left : rank(i) = rank(j) => i = j
      /\ \A m \in 1 .. Cardinality(left) : \E i \in left : rank(i) = m
  BY <1>2, <1>4, <1>5
<1> QED BY <1>1, <1>6 DEF rank

\* What is not dropped stays, at most as far from the end.
LEMMA WithoutKeeps ==
  ASSUME NEW S, NEW q \in Seq(S), NEW dropped
  PROVE  /\ Without(q, dropped) \in Seq(S)
         /\ Len(Without(q, dropped)) <= Len(q)
         /\ \A i \in DOMAIN q : q[i] \notin dropped =>
              \E j \in DOMAIN Without(q, dropped) :
                Without(q, dropped)[j] = q[i] /\ Len(Without(q, dropped)) - j <= Len(q) - i
<1> DEFINE left == { i \in DOMAIN q : q[i] \notin dropped }
           rank(i) == Cardinality({ k \in left : k <= i })
           at(n) == CHOOSE i \in left : rank(i) = n
           size == Cardinality(left)
           r == Without(q, dropped)
<1>0. Len(q) \in Nat /\ DOMAIN q = 1 .. Len(q) /\ \A i \in 1 .. Len(q) : q[i] \in S
  BY LenProperties, ElementOfSeq
<1>1. left \in SUBSET (1 .. Len(q))
  BY <1>0
<1>2. /\ IsFiniteSet(left) /\ size \in Nat
      /\ \A i \in left : rank(i) \in 1 .. size
      /\ \A i, j \in left : rank(i) = rank(j) => i = j
      /\ \A m \in 1 .. size : \E i \in left : rank(i) = m
  <2> HIDE DEF left
  <2> QED BY <1>0, <1>1, Ranks
<1>3. r = [ n \in 1 .. size |-> q[at(n)] ]
  BY DEF Without
<1>4. ASSUME NEW n \in 1 .. size PROVE at(n) \in left /\ rank(at(n)) = n
  <2>1. \E i \in left : rank(i) = n
    BY <1>2
  <2> HIDE DEF left, rank
  <2> QED BY <2>1
<1>5. \A n \in 1 .. size : q[at(n)] \in S
  BY <1>0, <1>1, <1>4
<1> HIDE DEF at
<1>6. r \in Seq(S) /\ Len(r) = size /\ DOMAIN r = 1 .. size
  <2> HIDE DEF left, size, r
  <2>1. [ n \in 1 .. size |-> q[at(n)] ] \in [ 1 .. size -> S ]
    BY <1>5
  <2> QED BY <1>2, <1>3, <2>1, LenProperties
<1>7. size <= Len(q)
  <2>1. IsFiniteSet(1 .. Len(q)) /\ Cardinality(1 .. Len(q)) = IF 1 > Len(q) THEN 0 ELSE Len(q) - 1 + 1
    BY <1>0, FS_Interval
  <2>2. Cardinality(1 .. Len(q)) = Len(q)
    BY <1>0, <2>1
  <2> HIDE DEF left
  <2> QED BY <1>1, <2>1, <2>2, FS_Subset
<1>8. ASSUME NEW i \in DOMAIN q, q[i] \notin dropped
      PROVE  \E j \in DOMAIN r : r[j] = q[i] /\ Len(r) - j <= Len(q) - i
  <2>1. i \in left /\ rank(i) \in 1 .. size
    BY <1>2, <1>8
  <2>2. at(rank(i)) = i
    <3> HIDE DEF left, rank
    <3> QED BY <1>2, <1>4, <2>1
  <2>3. r[rank(i)] = q[i]
    <3> HIDE DEF rank, size, r
    <3> QED BY <1>3, <2>1, <2>2
  <2>4. size - rank(i) <= Len(q) - i
    <3> DEFINE lower == { k \in left : k <= i }
               upper == left \ lower
    <3>1. lower \in SUBSET left /\ upper \in SUBSET (i + 1 .. Len(q)) /\ left \cap lower = lower
      BY <1>0, <1>1, <1>8
    <3>2. IsFiniteSet(upper) /\ Cardinality(upper) = size - rank(i)
      <4>1. Cardinality(left \ lower) = Cardinality(left) - Cardinality(left \cap lower)
        <5> HIDE DEF left, lower
        <5> QED BY <1>2, FS_Difference
      <4>2. IsFiniteSet(upper)
        <5> HIDE DEF left, lower
        <5> QED BY <1>2, FS_Difference
      <4> QED BY <3>1, <4>1, <4>2
    <3>3. IsFiniteSet(i + 1 .. Len(q)) /\ Cardinality(i + 1 .. Len(q)) = IF i + 1 > Len(q) THEN 0 ELSE Len(q) - (i + 1) + 1
      <4>1. i + 1 \in Int /\ Len(q) \in Int
        BY <1>0, <1>8
      <4> QED BY <4>1, FS_Interval
    <3>4. Cardinality(i + 1 .. Len(q)) = Len(q) - i
      BY <1>0, <1>8, <3>3
    <3> HIDE DEF upper
    <3>5. Cardinality(upper) <= Cardinality(i + 1 .. Len(q))
      BY <3>1, <3>3, FS_Subset
    <3> QED BY <3>2, <3>4, <3>5
  <2> HIDE DEF rank, size, r
  <2> QED BY <1>6, <2>1, <2>3, <2>4
<1> QED BY <1>6, <1>7, <1>8

LEMMA KeysType ==
  ASSUME NEW S, NEW q \in Seq(S)
  PROVE  Keys(q) \subseteq S
BY LenProperties, ElementOfSeq DEF Keys

-----------------------------------------------------------------------------
(* What the operators return.                                              *)

\* prepareContinuation() touches the recovery and its count only.
LEMMA PrepareKeeps ==
  ASSUME NEW c \in Control, NEW idle \in BOOLEAN, NEW due \in BOOLEAN
  PROVE  /\ Prepare(c, idle, due) \in Control
         /\ Prepare(c, idle, due).permission = c.permission
         /\ Prepare(c, idle, due).revision = c.revision
         /\ Prepare(c, idle, due).awaiting = c.awaiting
         /\ Prepare(c, idle, due).signals = c.signals
<1> DEFINE p == Prepare(c, idle, due)
<1> DEFINE Like(d) == /\ d \in Control /\ d.permission = c.permission /\ d.revision = c.revision
                      /\ d.awaiting = c.awaiting /\ d.signals = c.signals
<1>1. \A r \in Recoveries : Like([ c EXCEPT !.recovery = r ])
  BY DEF Control
<1>5. Like([ c EXCEPT !.recovery = "scheduled", !.attempts = 0 ])
  BY DEF Control, Recoveries
<1>2. \/ p = c
      \/ p = [ c EXCEPT !.recovery = "blocked" ]
      \/ p = [ c EXCEPT !.recovery = "stalled" ]
      \/ p = [ c EXCEPT !.recovery = "scheduled" ]
      \/ p = [ c EXCEPT !.recovery = "scheduled", !.attempts = 0 ]
  BY DEF Prepare
<1>3. 0 \in Nat /\ { "blocked", "stalled", "scheduled" } \subseteq Recoveries
  BY DEF Recoveries
<1> HIDE DEF p
<1>4. Like(p)
  <2>1. Like(c)
    OBVIOUS
  <2> HIDE DEF Like
  <2> QED BY <1>1, <1>2, <1>3, <1>5, <2>1
<1> QED BY <1>4 DEF p

\* A pass that decides either ends or goes on with the work, or the mail, it found.
LEMMA DecideTo ==
  ASSUME NEW c \in Control, NEW idle \in BOOLEAN, NEW due \in BOOLEAN, Decide(c, idle, due)
  PROVE  /\ control' \in Control
         /\ control' \in { c, Prepare(c, idle, due) }
         /\ \/ pc' = "idle" /\ call' = NoCall
            \/ /\ pc' = "project"
               /\ \E work \in BOOLEAN :
                    /\ call' = [ NoCall EXCEPT !.work = work, !.revision = control'.revision ]
                    /\ work => /\ control' = Prepare(c, idle, due) /\ c.recovery # "none"
                               /\ PendingContinuation(control', due)
<1> DEFINE peer == Pending(due) # {}
           prepared == IF peer /\ c.recovery # "submitting" THEN c ELSE Prepare(c, idle, due)
           goes == peer \/ (c.recovery # "none" /\ PendingContinuation(prepared, due))
<1>1. prepared \in Control /\ prepared \in { c, Prepare(c, idle, due) }
  BY PrepareKeeps
<1>2. CASE working \/ (~peer /\ task.state \in { "done", "blocked" })
  BY <1>2 DEF Decide, EndPass
<1>3. CASE ~(working \/ (~peer /\ task.state \in { "done", "blocked" }))
  <2>1. control' = prepared
    BY <1>3 DEF Decide
  <2>2. CASE goes
    <3>1. pc' = "project" /\ call' = [ NoCall EXCEPT !.work = ~peer, !.revision = prepared.revision ]
      BY <1>3, <2>2 DEF Decide
    <3>2. ~peer => prepared = Prepare(c, idle, due) /\ c.recovery # "none" /\ PendingContinuation(prepared, due)
      BY <2>2
    <3>3. (~peer) \in BOOLEAN
      OBVIOUS
    <3> HIDE DEF peer, prepared
    <3> QED BY <1>1, <2>1, <3>1, <3>2, <3>3
  <2>3. CASE ~goes
    BY <1>1, <1>3, <2>1, <2>3 DEF Decide, EndPass
  <2> QED BY <2>2, <2>3
<1> QED BY <1>2, <1>3

LEMMA NoCallType == NoCall \in Calls
  BY DEF NoCall, Calls


-----------------------------------------------------------------------------
(* Types.                                                                  *)

LEMMA SetContinuationType ==
  ASSUME TypeOK, NEW permission \in Permissions, SetContinuation(permission)
  PROVE  control' \in Control /\ prompts' \in Nat /\ unsure' \in BOOLEAN /\ owed' \in [ Signals -> 0 .. MaxSignals ]
<1>1. control \in Control
  BY DEF TypeOK
<1>2. control.revision + 1 \in Nat /\ control.seen \in Seq(Signals) /\ << >> \in Seq(Signals)
  BY <1>1, EmptySeq DEF Control
<1>3. control' = [ permission |-> permission, revision |-> control.revision + 1, awaiting |-> FALSE,
                  recovery |-> "none", attempts |-> 0, signals |-> << >>, seen |-> control.seen ]
  BY <1>1 DEF SetContinuation, Control
<1>4. control' \in Control
  BY <1>2, <1>3 DEF Control, Recoveries
<1>5. NothingOwed \in [ Signals -> 0 .. MaxSignals ]
  BY SignalAssumption DEF NothingOwed
<1> QED BY <1>4, <1>5 DEF SetContinuation

LEMMA SaveAttemptType ==
  ASSUME TypeOK, NEW fresh, NEW again, NEW status \in Attempts, SaveAttempt(fresh, again, status)
  PROVE  first' \in [ Mail -> Attempts ] /\ second' \in [ Mail -> Attempts ]
BY DEF TypeOK, SaveAttempt

\* The agent's actions.
LEMMA AgentTypes == TypeOK /\ Agent => TypeOK'
<1> SUFFICES ASSUME TypeOK, Agent PROVE TypeOK'
  OBVIOUS
<1> USE DEF agentVars, mailVars, tryVars, runVars, passVars, boundVars, passAndBox, provider, sentVars
<1>1. ASSUME NEW permission \in Permissions, AgentSetsContinuation(permission) PROVE TypeOK'
  BY <1>1, SetContinuationType DEF AgentSetsContinuation, TypeOK
<1>2. ASSUME NEW waits \in BOOLEAN, SetAwaiting(waits) PROVE TypeOK'
  <2>1. control \in Control /\ control.revision + 1 \in Nat
    BY DEF TypeOK, Control
  <2>2. \A r \in Recoveries : [ control EXCEPT !.awaiting = waits, !.revision = control.revision + 1, !.recovery = r ] \in Control
    BY <2>1 DEF Control
  <2>3. control.recovery \in Recoveries /\ "scheduled" \in Recoveries
    BY <2>1 DEF Control, Recoveries
  <2>4. control' \in Control
    BY <1>2, <2>2, <2>3 DEF SetAwaiting
  <2> QED BY <1>2, <2>4 DEF SetAwaiting, TypeOK
<1>3. ASSUME NEW state \in { "working", "blocked", "done" }, AgentUpdatesTask(state) PROVE TypeOK'
  BY <1>3 DEF AgentUpdatesTask, TypeOK
<1>4. ASSUME NEW m \in Mail, MailRead(m) PROVE TypeOK'
  BY <1>4 DEF MailRead, TypeOK
<1>5. ASSUME Finish PROVE TypeOK'
  <2>1. "waiting" \in Permissions
    BY DEF Permissions
  <2> QED BY <1>5, <2>1, SetContinuationType DEF Finish, TypeOK
<1> QED BY <1>1, <1>2, <1>3, <1>4, <1>5 DEF Agent

\* The person, grants, results, mail.
LEMMA OthersTypes == TypeOK /\ Others => TypeOK'
<1> SUFFICES ASSUME TypeOK, Others PROVE TypeOK'
  OBVIOUS
<1> USE DEF agentVars, mailVars, tryVars, runVars, passVars, boundVars, passAndBox, provider, sentVars
<1>1. ASSUME PersonInterrupts PROVE TypeOK'
  <2>1. "waiting" \in Permissions
    BY DEF Permissions
  <2> QED BY <1>1, <2>1, SetContinuationType DEF PersonInterrupts, PauseAutomaticInput, TypeOK
<1>2. ASSUME PersonSpeaks PROVE TypeOK'
  <2>1. turns' \in Nat
    BY <1>2 DEF PersonSpeaks, TypeOK
  <2> QED BY <1>2, <2>1 DEF PersonSpeaks, TypeOK
<1>3. ASSUME NEW permission \in Permissions, GrantDecided(permission) PROVE TypeOK'
  BY <1>3, SetContinuationType DEF GrantDecided, TypeOK
<1>4. ASSUME NEW x \in Signals, SignalContinuation(x) PROVE TypeOK'
  <2>0. control \in Control /\ control.seen \in Seq(Signals) /\ control.signals \in Seq(Signals)
    BY DEF TypeOK, Control
  <2>1. Append(control.seen, x) \in Seq(Signals) /\ Append(control.signals, x) \in Seq(Signals)
    BY <2>0
  <2>2. /\ Newest(Append(control.seen, x), MaxSeen) \in Seq(Signals)
        /\ Newest(Append(control.signals, x), MaxSignals) \in Seq(Signals)
    BY <2>1, SignalAssumption, NewestKeeps
  <2>3. control' = [ control EXCEPT !.seen = Newest(Append(control.seen, x), MaxSeen),
                                   !.signals = Newest(Append(control.signals, x), MaxSignals) ]
    BY <1>4 DEF SignalContinuation
  <2>4. control' \in Control
    BY <2>0, <2>2, <2>3 DEF Control
  <2>5. owed' \in [ Signals -> 0 .. MaxSignals ]
    BY <1>4, SignalAssumption DEF SignalContinuation, Owes, TypeOK
  <2> QED BY <1>4, <2>4, <2>5 DEF SignalContinuation, TypeOK
<1>5. ASSUME NEW m \in Urgent, SendUrgent(m) PROVE TypeOK'
  BY <1>5 DEF SendUrgent, TypeOK
<1>6. ASSUME NEW d \in Dispatches, Dispatch(d) PROVE TypeOK'
  <2>1. box' \in [ Mail -> { "unsent", "inbox", "supplied", "settled" } ]
    BY <1>6 DEF Dispatch, TypeOK
  <2>2. PICK to \in { task.revision, task.revision + 1 } :
          task' = [ state |-> "working", revision |-> to ] /\ handed' = [ handed EXCEPT ![d] = to ]
    BY <1>6 DEF Dispatch
  <2>3. to \in Nat
    BY DEF TypeOK
  <2>4. /\ task' \in [ state : { "none", "working", "blocked", "done" }, revision : Nat ]
        /\ handed' \in [ Dispatches -> Nat ]
    BY <2>2, <2>3 DEF TypeOK
  <2> QED BY <1>6, <2>1, <2>4 DEF Dispatch, TypeOK
<1>7. ASSUME NEW m \in Mail, MailExpires(m) PROVE TypeOK'
  BY <1>7 DEF MailExpires, TypeOK
<1> QED BY <1>1, <1>2, <1>3, <1>4, <1>5, <1>6, <1>7 DEF Others

LEMMA ProviderTypes == TypeOK /\ Provider => TypeOK'
<1> SUFFICES ASSUME TypeOK, Provider PROVE TypeOK'
  OBVIOUS
<1> USE DEF agentVars, mailVars, tryVars, runVars, passVars, boundVars, passAndBox, sentVars, TypeOK
<1>1. CASE TurnStarts
  BY <1>1 DEF TurnStarts
<1>2. CASE TurnEnds
  BY <1>2 DEF TurnEnds
<1>3. CASE WorkingExpires
  BY <1>3 DEF WorkingExpires
<1>4. CASE Unload
  BY <1>4 DEF Unload
<1>5. CASE ConnectionLost
  <2>1. faults' \in Nat
    BY <1>5 DEF ConnectionLost
  <2> QED BY <1>5, <2>1 DEF ConnectionLost
<1> QED BY <1>1, <1>2, <1>3, <1>4, <1>5 DEF Provider

\* What a decision leaves in the pass is typed.
LEMMA DecideType ==
  ASSUME NEW c \in Control, NEW idle \in BOOLEAN, NEW due \in BOOLEAN, Decide(c, idle, due)
  PROVE  control' \in Control /\ pc' \in Stages /\ call' \in Calls
<1>1. control' \in Control
  BY DecideTo
<1>2. CASE pc' = "idle" /\ call' = NoCall
  BY <1>1, <1>2, NoCallType DEF Stages
<1>3. CASE /\ pc' = "project"
           /\ \E work \in BOOLEAN : call' = [ NoCall EXCEPT !.work = work, !.revision = control'.revision ]
  <2>1. control'.revision \in Nat
    BY <1>1 DEF Control
  <2> QED BY <1>1, <1>3, <2>1, NoCallType DEF Stages, Calls
<1> QED BY <1>2, <1>3, DecideTo

LEMMA PassTypes == TypeOK /\ Pass => TypeOK'
<1> SUFFICES ASSUME TypeOK, Pass PROVE TypeOK'
  OBVIOUS
<1> USE DEF agentVars, mailVars, tryVars, runVars, passVars, boundVars, passFrame, sentVars
<1>0. /\ control \in Control /\ call \in Calls /\ pc \in Stages
      /\ first \in [ Mail -> Attempts ] /\ second \in [ Mail -> Attempts ]
      /\ NoCall \in Calls /\ "idle" \in Stages
  BY NoCallType DEF TypeOK, Stages
<1>1. CASE BeginPass
  <2>1. control' \in Control /\ pc' \in Stages /\ call' \in Calls
    <3>1. CASE \E idle, due \in BOOLEAN : Decide(control, idle, due)
      BY <1>0, <3>1, DecideType
    <3>2. CASE pc' = "acknowledging" /\ call' = [ NoCall EXCEPT !.revision = control.revision ] /\ UNCHANGED control
      <4>1. control.revision \in Nat
        BY <1>0 DEF Control
      <4> QED BY <1>0, <3>2, <4>1 DEF Stages, Calls
    <3> QED BY <1>1, <3>1, <3>2 DEF BeginPass
  <2> QED BY <1>1, <2>1 DEF BeginPass, TypeOK
<1>2. CASE Acknowledge
  <2>1. [ control EXCEPT !.recovery = "blocked" ] \in Control
    BY <1>0 DEF Control, Recoveries
  <2>2. control' \in Control /\ pc' \in Stages /\ call' \in Calls
    BY <1>0, <1>2, <2>1, DecideType DEF Acknowledge
  <2> QED BY <1>2, <2>2 DEF Acknowledge, TypeOK
<1>3. CASE ProjectAnswers
  BY <1>0, <1>3 DEF ProjectAnswers, EndPass, TypeOK, Stages
<1>4. CASE Restored
  BY <1>0, <1>4 DEF Restored, EndPass, TypeOK, Stages
<1>5. CASE RestoreFails
  <2>1. control' \in Control
    <3>1. control.attempts + 1 \in Nat
      BY <1>0 DEF Control
    <3> QED BY <1>0, <1>5, <3>1 DEF RestoreFails, Control, Recoveries
  <2>2. first' \in [ Mail -> Attempts ] /\ second' \in [ Mail -> Attempts ]
    <3>1. "failed" \in Attempts
      BY DEF Attempts
    <3> QED BY <1>0, <1>5, <3>1, SaveAttemptType DEF RestoreFails
  <2> QED BY <1>0, <1>5, <2>1, <2>2 DEF RestoreFails, EndPass, TypeOK
<1>6. CASE RefreshEnds
  <2>1. CASE EndPass /\ UNCHANGED << control, tryVars, acked, coming, prompts, tries >>
    BY <1>0, <1>6, <2>1 DEF RefreshEnds, EndPass, TypeOK
  <2>2. CASE \E due \in BOOLEAN : Submit(due)
    <3>1. PICK due \in BOOLEAN : Submit(due)
      BY <2>2
    <3>2. control' \in Control
      <4>1. control.attempts + 1 \in Nat
        BY <1>0 DEF Control
      <4> QED BY <1>0, <3>1, <4>1 DEF Submit, Control, Recoveries
    <3>3. first' \in [ Mail -> Attempts ] /\ second' \in [ Mail -> Attempts ]
      <4>1. "deferred" \in Attempts /\ "submitting" \in Attempts
        BY DEF Attempts
      <4> QED BY <3>1, <4>1, SaveAttemptType DEF Submit
    <3>4. FirstTries(due) \subseteq Mail /\ FollowUps(due) \subseteq Mail
      BY DEF FirstTries, FollowUps, Deliverable, Mail
    <3>5. pc' \in Stages /\ call' \in Calls
      <4>1. Keys(control.signals) \subseteq Signals
        BY <1>0, KeysType DEF Control
      <4> QED BY <1>0, <1>6, <3>1, <3>4, <4>1 DEF Submit, EndPass, Stages, Calls
    <3>6. acked' \in BOOLEAN /\ coming' \in BOOLEAN /\ prompts' \in Nat /\ tries' \in [ Mail -> Nat ]
      <4>1. acked' \in BOOLEAN
        BY <3>1 DEF Submit, TypeOK
      <4>2. CASE UNCHANGED << coming, prompts, tries >>
        BY <4>1, <4>2 DEF TypeOK
      <4>3. CASE \E reached \in BOOLEAN :
                   /\ coming' = reached
                   /\ prompts' = IF reached /\ call.work THEN prompts + 1 ELSE prompts
                   /\ tries' = [ m \in Mail |-> IF reached /\ m \in FirstTries(due) \cup FollowUps(due)
                                                 THEN tries[m] + 1 ELSE tries[m] ]
        <5>1. prompts + 1 \in Nat /\ \A m \in Mail : tries[m] \in Nat /\ tries[m] + 1 \in Nat
          BY DEF TypeOK
        <5> QED BY <4>1, <4>3, <5>1 DEF TypeOK
      <4> QED BY <3>1, <4>2, <4>3 DEF Submit
    <3> QED BY <1>6, <3>2, <3>3, <3>5, <3>6 DEF RefreshEnds, TypeOK
  <2> QED BY <1>6, <2>1, <2>2 DEF RefreshEnds
<1>7. CASE Submitted
  <2>0. control.signals \in Seq(Signals)
    BY <1>0 DEF Control
  <2>3. Without(control.signals, call.consumed) \in Seq(Signals)
    BY <2>0, WithoutKeeps
  <2>1. control' \in Control
    BY <1>0, <1>7, <2>3 DEF Submitted, Control, Recoveries
  <2>4. owed' \in [ Signals -> 0 .. MaxSignals ]
    BY <1>7, SignalAssumption DEF Submitted, Delivered, TypeOK
  <2>2. first' \in [ Mail -> Attempts ] /\ second' \in [ Mail -> Attempts ]
    <3>1. "submitted" \in Attempts
      BY DEF Attempts
    <3> QED BY <1>7, <3>1, SaveAttemptType DEF Submitted
  <2> QED BY <1>0, <1>7, <2>1, <2>2, <2>4 DEF Submitted, EndPass, TypeOK
<1>8. ASSUME NEW status \in Attempts, NEW recovery \in Recoveries, NotSubmitted(status, recovery)
      PROVE  /\ control' \in Control /\ first' \in [ Mail -> Attempts ] /\ second' \in [ Mail -> Attempts ]
             /\ pc' = "idle" /\ call' = NoCall
  <2>1. control' \in Control
    BY <1>0, <1>8 DEF NotSubmitted, Control
  <2> QED BY <1>8, <2>1, SaveAttemptType DEF NotSubmitted, EndPass
<1>9. { "deferred", "failed" } \subseteq Attempts /\ { "scheduled", "blocked" } \subseteq Recoveries
  BY DEF Attempts, Recoveries
<1>10. CASE NotSent
  <2>1. CASE NotSubmitted("deferred", "scheduled")
    BY <1>0, <1>8, <1>9, <1>10, <2>1 DEF NotSent, NotSubmitted, TypeOK
  <2>2. CASE NotSubmitted("failed", "blocked")
    BY <1>0, <1>8, <1>9, <1>10, <2>2 DEF NotSent, NotSubmitted, TypeOK
  <2> QED BY <1>10, <2>1, <2>2 DEF NotSent
<1>11. CASE OutcomeUnknown
  <2>1. unsure' \in BOOLEAN /\ unsureMail' \subseteq Mail
    BY <1>0, <1>11 DEF OutcomeUnknown, TypeOK, Carried, Calls
  <2>2. NotSubmitted("failed", "blocked")
    BY <1>11 DEF OutcomeUnknown
  <2> QED BY <1>0, <1>8, <1>9, <2>1, <2>2 DEF NotSubmitted, TypeOK
<1> QED BY <1>1, <1>2, <1>3, <1>4, <1>5, <1>6, <1>7, <1>10, <1>11 DEF Pass

LEMMA RestartTypes == TypeOK /\ Restart => TypeOK'
<1> SUFFICES ASSUME TypeOK, Restart PROVE TypeOK'
  OBVIOUS
<1> USE DEF agentVars, mailVars, tryVars
<1>1. unsure' \in BOOLEAN /\ unsureMail' \subseteq Mail
  BY DEF Restart, TypeOK, Carried, Calls
<1>2. pc' \in Stages /\ call' \in Calls
  BY NoCallType DEF Restart, EndPass, Stages
<1>3. faults' \in Nat /\ acked' \in BOOLEAN
  <2>1. faults' = faults + 1 /\ acked' \in { acked, FALSE } /\ faults \in Nat /\ acked \in BOOLEAN
    BY DEF Restart, TypeOK
  <2>2. acked' \in BOOLEAN
    BY <2>1, Zenon
  <2> QED BY <2>1, <2>2
<1>4. alive' \in BOOLEAN /\ turn' \in BOOLEAN /\ coming' \in BOOLEAN /\ working' \in BOOLEAN
  BY DEF Restart, TypeOK
<1> QED BY <1>1, <1>2, <1>3, <1>4 DEF Restart, TypeOK

LEMMA StutterTypes == TypeOK /\ UNCHANGED vars => TypeOK'
BY DEF vars, agentVars, mailVars, tryVars, runVars, passVars, boundVars, sentVars, TypeOK

LEMMA NextTypes == TypeOK /\ [Next]_vars => TypeOK'
BY AgentTypes, OthersTypes, ProviderTypes, PassTypes, RestartTypes, StutterTypes DEF Next

LEMMA InitTypes == Init => TypeOK
<1> SUFFICES ASSUME Init PROVE TypeOK
  OBVIOUS
<1>1. control \in Control
  <2>1. << >> \in Seq(Signals)
    BY EmptySeq
  <2> QED BY <2>1 DEF Init, Control, Recoveries
<1>2. owed \in [ Signals -> 0 .. MaxSignals ]
  BY SignalAssumption DEF Init, NothingOwed
<1> QED BY <1>1, <1>2, NoCallType DEF Init, TypeOK, Stages, Attempts

\* Every variable keeps its type, whatever the bounds are.
THEOREM TypeCorrect == Spec => []TypeOK
BY InitTypes, NextTypes, PTL DEF Spec


-----------------------------------------------------------------------------
(* The invariants.                                                         *)

\* Automatic input is paused as long as the person wants quiet.
QuietInv == quiet => paused

\* The pass holds work it decided in the permission that is still there.
Holds(stages) == pc \in stages /\ call.work /\ call.revision = control.revision

\* The budget: attempts count what was sent; work is only sent from "scheduled", and a prompt in
\* doubt leaves the recovery where no pass schedules it again.
WorkInv ==
  /\ pc # "idle" => call.revision <= control.revision
  /\ control.recovery = "none" => prompts = 0
  /\ prompts <= control.attempts
  /\ control.attempts <= Limit
  /\ Holds({ "project", "restoring", "refreshing" })
       => control.recovery = "scheduled" /\ control.attempts < Limit
  /\ Holds({ "sending" }) => control.recovery = "submitting" /\ ~unsure
  /\ unsure => control.recovery \in { "submitting", "blocked" }

\* The attempts of one message: the follow-up comes after a first prompt that was taken, and each
\* of the two is sent once.
MailInv(m) ==
  /\ second[m] # "none" => first[m] = "submitted"
  /\ m \in Dispatches => second[m] = "none"
  /\ first[m] \in { "none", "deferred" } => tries[m] = 0
  /\ second[m] \in { "none", "deferred" } => tries[m] <= 1
  /\ tries[m] <= 2
  /\ pc = "sending" /\ m \in call.fresh => first[m] = "submitting" /\ (call.reached \/ tries[m] = 0)
  /\ pc = "sending" /\ m \in call.again => second[m] = "submitting" /\ (call.reached \/ tries[m] <= 1)
  /\ m \in unsureMail => /\ first[m] \in { "submitting", "failed" } \/ second[m] \in { "submitting", "failed" }
                         /\ pc = "sending" => m \notin Carried

AllMail == \A m \in Mail : MailInv(m)

-----------------------------------------------------------------------------
(* What happens outside the pass changes the permission, waits or signals, *)
(* and nothing the pass carries.                                           *)

ToWait(waits) ==
  control' = [ control EXCEPT !.awaiting = waits, !.revision = @ + 1,
                 !.recovery = IF waits /\ @ = "submitted" THEN "scheduled" ELSE @ ]

ToSignal(x) ==
  /\ control' = [ control EXCEPT !.seen = Newest(Append(@, x), MaxSeen),
                                 !.signals = Newest(Append(@, x), MaxSignals) ]
  /\ Owes(x)

Outside ==
  /\ UNCHANGED << tryVars, passVars, tries, unsureMail >>
  /\ \/ UNCHANGED << control, prompts, unsure, owed >>
     \/ \E permission \in Permissions : SetContinuation(permission)
     \/ \E waits \in BOOLEAN : ToWait(waits) /\ UNCHANGED << prompts, unsure, owed >>
     \/ \E x \in Signals : ToSignal(x) /\ UNCHANGED << prompts, unsure >>

LEMMA OutsideSteps == Agent \/ Others \/ Provider \/ UNCHANGED vars => Outside
<1> USE DEF passAndBox, provider, sentVars, boundVars, mailVars
<1>1. ASSUME Agent PROVE Outside
  <2>1. ASSUME NEW permission \in Permissions, AgentSetsContinuation(permission) PROVE Outside
    BY <2>1 DEF AgentSetsContinuation, Outside
  <2>2. ASSUME NEW waits \in BOOLEAN, SetAwaiting(waits) PROVE Outside
    BY <2>2 DEF SetAwaiting, Outside, ToWait
  <2>3. ASSUME NEW state \in { "working", "blocked", "done" }, AgentUpdatesTask(state) PROVE Outside
    BY <2>3 DEF AgentUpdatesTask, Outside
  <2>4. ASSUME NEW m \in Mail, MailRead(m) PROVE Outside
    BY <2>4 DEF MailRead, Outside
  <2>5. ASSUME Finish PROVE Outside
    BY <2>5 DEF Finish, Outside, Permissions
  <2> QED BY <1>1, <2>1, <2>2, <2>3, <2>4, <2>5 DEF Agent
<1>2. ASSUME Others PROVE Outside
  <2>1. ASSUME PersonInterrupts PROVE Outside
    BY <2>1 DEF PersonInterrupts, PauseAutomaticInput, Outside, Permissions
  <2>2. ASSUME PersonSpeaks PROVE Outside
    BY <2>2 DEF PersonSpeaks, Outside
  <2>3. ASSUME NEW permission \in Permissions, GrantDecided(permission) PROVE Outside
    BY <2>3 DEF GrantDecided, Outside
  <2>4. ASSUME NEW x \in Signals, SignalContinuation(x) PROVE Outside
    BY <2>4 DEF SignalContinuation, Outside, ToSignal
  <2>5. ASSUME NEW m \in Urgent, SendUrgent(m) PROVE Outside
    BY <2>5 DEF SendUrgent, Outside
  <2>6. ASSUME NEW d \in Dispatches, Dispatch(d) PROVE Outside
    BY <2>6 DEF Dispatch, Outside
  <2>7. ASSUME NEW m \in Mail, MailExpires(m) PROVE Outside
    BY <2>7 DEF MailExpires, Outside
  <2> QED BY <1>2, <2>1, <2>2, <2>3, <2>4, <2>5, <2>6, <2>7 DEF Others
<1>3. ASSUME Provider PROVE Outside
  <2>1. CASE TurnStarts
    BY <2>1 DEF TurnStarts, Outside
  <2>2. CASE TurnEnds
    BY <2>2 DEF TurnEnds, Outside
  <2>3. CASE WorkingExpires
    BY <2>3 DEF WorkingExpires, Outside
  <2>4. CASE Unload
    BY <2>4 DEF Unload, Outside
  <2>5. CASE ConnectionLost
    BY <2>5 DEF ConnectionLost, Outside
  <2> QED BY <1>3, <2>1, <2>2, <2>3, <2>4, <2>5 DEF Provider
<1>4. ASSUME UNCHANGED vars PROVE Outside
  BY <1>4 DEF vars, Outside
<1> QED BY <1>1, <1>2, <1>3, <1>4

-----------------------------------------------------------------------------
(* Quiet.                                                                  *)

LEMMA QuietKept == QuietInv /\ [Next]_vars => QuietInv'
<1> SUFFICES ASSUME QuietInv, [Next]_vars PROVE QuietInv'
  OBVIOUS
<1> USE DEF QuietInv, agentVars, passFrame
<1>1. CASE Agent
  <2>1. UNCHANGED << paused, quiet >>
    BY <1>1 DEF Agent, AgentSetsContinuation, SetAwaiting, AgentUpdatesTask, MailRead, Finish
  <2> QED BY <2>1
<1>2. CASE Others
  <2>1. UNCHANGED << paused, quiet >> \/ paused' \/ ~quiet'
    BY <1>2 DEF Others, PersonInterrupts, PauseAutomaticInput, PersonSpeaks, GrantDecided, SignalContinuation,
                SendUrgent, Dispatch, MailExpires
  <2> QED BY <2>1
<1>3. CASE Provider
  <2>1. UNCHANGED << paused, quiet >>
    BY <1>3 DEF Provider, TurnStarts, TurnEnds, WorkingExpires, Unload, ConnectionLost
  <2> QED BY <2>1
<1>4. CASE Pass
  <2>1. UNCHANGED << paused, quiet >>
    BY <1>4 DEF Pass, BeginPass, Acknowledge, ProjectAnswers, Restored, RestoreFails, RefreshEnds, Submitted,
                NotSent, OutcomeUnknown, NotSubmitted
  <2> QED BY <2>1
<1>5. CASE Restart
  BY <1>5 DEF Restart
<1>6. CASE UNCHANGED vars
  BY <1>6 DEF vars
<1> QED BY <1>1, <1>2, <1>3, <1>4, <1>5, <1>6 DEF Next

\* Prompts and tries grow in one place only, and there nothing is paused.
LEMMA OnlySubmitPrompts ==
  ASSUME TypeOK, [Next]_vars
  PROVE  \/ prompts' <= prompts /\ tries' = tries
         \/ pc = "refreshing" /\ Allowed /\ \E due \in BOOLEAN : Submit(due)
<1>0. prompts \in Nat
  BY DEF TypeOK
<1>1. CASE Agent \/ Others \/ Provider \/ UNCHANGED vars
  <2>1. Outside
    BY <1>1, OutsideSteps
  <2>2. tries' = tries /\ (prompts' = prompts \/ prompts' = 0)
    BY <2>1 DEF Outside, SetContinuation
  <2> QED BY <1>0, <2>2
<1>2. CASE Pass
  <2>1. CASE RefreshEnds
    BY <1>0, <2>1 DEF RefreshEnds
  <2>2. CASE ~RefreshEnds
    <3>1. UNCHANGED << prompts, tries >>
      BY <1>2, <2>2 DEF Pass, BeginPass, Acknowledge, ProjectAnswers, Restored, RestoreFails, Submitted,
                        NotSent, OutcomeUnknown, NotSubmitted, sentVars
    <3> QED BY <1>0, <3>1
  <2> QED BY <2>1, <2>2
<1>3. CASE Restart
  <2>1. UNCHANGED << prompts, tries >>
    BY <1>3 DEF Restart
  <2> QED BY <1>0, <2>1
<1> QED BY <1>1, <1>2, <1>3 DEF Next

LEMMA QuietStep == TypeOK /\ QuietInv /\ [Next]_vars => [ quiet => prompts' <= prompts /\ tries' = tries ]_vars
<1> SUFFICES ASSUME TypeOK, QuietInv, [Next]_vars, quiet PROVE prompts' <= prompts /\ tries' = tries
  OBVIOUS
<1> QED BY OnlySubmitPrompts DEF QuietInv, Allowed

\* While the person wants quiet no automatic prompt leaves, whatever the agent, grants and results do.
THEOREM QuietUntilSpokenTo == Spec => QuietAfterStop
<1>1. Init => QuietInv
  BY DEF Init, QuietInv
<1> QED BY <1>1, InitTypes, NextTypes, QuietKept, QuietStep, PTL DEF Spec, QuietAfterStop


-----------------------------------------------------------------------------
(* Signals.                                                                *)

\* A signal that is owed stands near enough to the end of the list to outlast what it is owed for.
SignalInv ==
  \A s \in Signals : owed[s] > 0 =>
    \E i \in DOMAIN control.signals :
      control.signals[i] = s /\ Len(control.signals) - i + owed[s] <= MaxSignals

\* One more signal: the others move one place away from the end.
LEMMA SignalStep ==
  ASSUME TypeOK, SignalInv, NEW x \in Signals, ToSignal(x)
  PROVE  SignalInv'
<1> DEFINE longer == Append(control.signals, x)
<1>0. /\ control \in Control /\ control.signals \in Seq(Signals)
      /\ MaxSignals \in Nat /\ MaxSignals > 0 /\ owed \in [ Signals -> 0 .. MaxSignals ]
  BY SignalAssumption DEF TypeOK, Control
<1>1. /\ longer \in Seq(Signals) /\ Len(longer) = Len(control.signals) + 1
      /\ DOMAIN control.signals = 1 .. Len(control.signals) /\ Len(control.signals) \in Nat
      /\ DOMAIN longer = 1 .. Len(longer)
      /\ longer[Len(longer)] = x
      /\ \A i \in DOMAIN control.signals : longer[i] = control.signals[i]
  BY <1>0
<1> HIDE DEF longer
<1>2. control'.signals = Newest(longer, MaxSignals)
  BY <1>0 DEF ToSignal, Control, longer
<1>3. ASSUME NEW s \in Signals, owed'[s] > 0
      PROVE  \E i \in DOMAIN longer : longer[i] = s /\ Len(longer) - i + owed'[s] <= MaxSignals
  <2>1. owed'[s] = IF s = x THEN MaxSignals ELSE IF owed[s] > 0 THEN owed[s] - 1 ELSE 0
    BY DEF ToSignal, Owes
  <2>2. CASE s = x
    <3>1. Len(longer) \in DOMAIN longer /\ Len(longer) - Len(longer) + owed'[s] <= MaxSignals
      BY <1>0, <1>1, <2>1, <2>2
    <3> QED BY <1>1, <2>2, <3>1
  <2>3. CASE s # x
    <3>1. owed[s] \in Nat /\ owed[s] > 0 /\ owed'[s] = owed[s] - 1
      BY <1>0, <1>3, <2>1, <2>3
    <3>2. PICK i \in DOMAIN control.signals :
                 control.signals[i] = s /\ Len(control.signals) - i + owed[s] <= MaxSignals
      BY <3>1 DEF SignalInv
    <3>3. i \in DOMAIN longer /\ longer[i] = s
      BY <1>1, <3>2
    <3>4. Len(longer) - i + owed'[s] <= MaxSignals
      BY <1>0, <1>1, <3>1, <3>2
    <3> QED BY <3>3, <3>4
  <2> QED BY <2>2, <2>3
<1>4. ASSUME NEW s \in Signals, owed'[s] > 0
      PROVE  \E i \in DOMAIN control'.signals :
               control'.signals[i] = s /\ Len(control'.signals) - i + owed'[s] <= MaxSignals
  <2>1. PICK i \in DOMAIN longer : longer[i] = s /\ Len(longer) - i + owed'[s] <= MaxSignals
    BY <1>3, <1>4
  <2>2. owed'[s] \in Nat
    BY <1>0 DEF ToSignal, Owes
  <2>3. Len(longer) - i < MaxSignals
    BY <1>0, <1>1, <1>4, <2>1, <2>2
  <2>4. PICK j \in DOMAIN Newest(longer, MaxSignals) :
               /\ Newest(longer, MaxSignals)[j] = longer[i]
               /\ Len(Newest(longer, MaxSignals)) - j = Len(longer) - i
    BY <1>0, <1>1, <2>3, NewestKeeps
  <2> QED BY <1>2, <2>1, <2>4
<1> QED BY <1>4 DEF SignalInv

\* A prompt was taken: what it was not about stays.
LEMMA DeliveredStep ==
  ASSUME TypeOK, SignalInv, Delivered, call.work,
         control'.signals = Without(control.signals, call.consumed)
  PROVE  SignalInv'
<1>0. control.signals \in Seq(Signals) /\ MaxSignals \in Nat /\ owed \in [ Signals -> 0 .. MaxSignals ]
  BY SignalAssumption DEF TypeOK, Control
<1> DEFINE left == Without(control.signals, call.consumed)
<1>1. ASSUME NEW s \in Signals, owed'[s] > 0
      PROVE  \E i \in DOMAIN left : left[i] = s /\ Len(left) - i + owed'[s] <= MaxSignals
  <2>1. owed'[s] = owed[s] /\ s \notin call.consumed
    BY <1>1 DEF Delivered
  <2>2. PICK i \in DOMAIN control.signals :
               control.signals[i] = s /\ Len(control.signals) - i + owed[s] <= MaxSignals
    BY <1>1, <2>1 DEF SignalInv
  <2>3. PICK j \in DOMAIN left : left[j] = control.signals[i] /\ Len(left) - j <= Len(control.signals) - i
    BY <1>0, <2>1, <2>2, WithoutKeeps
  <2>4. /\ Len(left) \in Nat /\ j \in Nat /\ Len(control.signals) \in Nat /\ i \in Nat /\ owed[s] \in Nat
    <3>1. left \in Seq(Signals)
      BY <1>0, WithoutKeeps
    <3> HIDE DEF left
    <3> QED BY <1>0, <3>1, LenProperties
  <2> HIDE DEF left
  <2> QED BY <1>0, <2>1, <2>2, <2>3, <2>4
<1> QED BY <1>1 DEF SignalInv

LEMMA SignalsKept == TypeOK /\ SignalInv /\ [Next]_vars => SignalInv'
<1> SUFFICES ASSUME TypeOK, SignalInv, [Next]_vars PROVE SignalInv'
  OBVIOUS
<1>0. control \in Control /\ owed \in [ Signals -> 0 .. MaxSignals ]
  BY DEF TypeOK
<1>s. UNCHANGED << control.signals, owed >> => SignalInv'
  BY DEF SignalInv
<1>1. CASE Agent \/ Others \/ Provider \/ UNCHANGED vars
  <2>1. Outside
    BY <1>1, OutsideSteps
  <2>2. CASE UNCHANGED << control, prompts, unsure, owed >>
    BY <1>s, <2>2
  <2>3. ASSUME NEW permission \in Permissions, SetContinuation(permission) PROVE SignalInv'
    BY <2>3 DEF SetContinuation, NothingOwed, SignalInv
  <2>4. ASSUME NEW waits \in BOOLEAN, ToWait(waits), UNCHANGED owed PROVE SignalInv'
    <3>1. control'.signals = control.signals
      BY <1>0, <2>4 DEF ToWait, Control
    <3> QED BY <1>s, <2>4, <3>1
  <2>5. ASSUME NEW x \in Signals, ToSignal(x) PROVE SignalInv'
    BY <2>5, SignalStep
  <2> QED BY <2>1, <2>2, <2>3, <2>4, <2>5 DEF Outside
<1>2. CASE Pass
  <2>1. CASE Submitted
    <3>1. CASE call.work /\ Allowed
      <4>1. control'.signals = Without(control.signals, call.consumed)
        BY <1>0, <2>1, <3>1 DEF Submitted, Control
      <4> QED BY <2>1, <3>1, <4>1, DeliveredStep DEF Submitted
    <3>2. CASE ~(call.work /\ Allowed)
      <4>1. control' = control
        BY <2>1, <3>2 DEF Submitted
      <4>2. \A s \in Signals : owed'[s] > 0 => owed'[s] = owed[s]
        BY <2>1 DEF Submitted, Delivered
      <4> QED BY <4>1, <4>2 DEF SignalInv
    <3> QED BY <3>1, <3>2
  <2>2. CASE ~Submitted
    <3>1. owed' = owed
      BY <1>2, <2>2 DEF Pass, BeginPass, Acknowledge, ProjectAnswers, Restored, RestoreFails, RefreshEnds,
                        NotSent, OutcomeUnknown, NotSubmitted, passFrame
    <3>2. control'.signals = control.signals
      <4>1. CASE BeginPass
        <5>1. ASSUME NEW idle \in BOOLEAN, NEW due \in BOOLEAN, Decide(control, idle, due)
              PROVE  control'.signals = control.signals
          BY <1>0, <5>1, DecideTo, PrepareKeeps
        <5> QED BY <4>1, <5>1 DEF BeginPass
      <4>2. CASE Acknowledge
        <5>1. /\ [ control EXCEPT !.recovery = "blocked" ] \in Control
              /\ [ control EXCEPT !.recovery = "blocked" ].signals = control.signals
          BY <1>0 DEF Control, Recoveries
        <5>2. ASSUME NEW c \in Control, c.signals = control.signals, NEW idle \in BOOLEAN, NEW due \in BOOLEAN,
                     Decide(c, idle, due)
              PROVE  control'.signals = control.signals
          BY <5>2, DecideTo, PrepareKeeps
        <5> QED BY <1>0, <4>2, <5>1, <5>2 DEF Acknowledge
      <4>3. CASE ProjectAnswers \/ Restored
        BY <4>3 DEF ProjectAnswers, Restored
      <4>4. CASE RestoreFails
        BY <1>0, <4>4 DEF RestoreFails, Control
      <4>5. CASE RefreshEnds
        <5>1. ASSUME NEW due \in BOOLEAN, Submit(due) PROVE control'.signals = control.signals
          BY <1>0, <5>1 DEF Submit, Control
        <5> QED BY <4>5, <5>1 DEF RefreshEnds
      <4>6. ASSUME NEW status, NEW recovery, NotSubmitted(status, recovery) PROVE control'.signals = control.signals
        BY <1>0, <4>6 DEF NotSubmitted, Control
      <4>7. CASE NotSent \/ OutcomeUnknown
        BY <4>6, <4>7 DEF NotSent, OutcomeUnknown
      <4> QED BY <1>2, <2>2, <4>1, <4>2, <4>3, <4>4, <4>5, <4>7 DEF Pass
    <3> QED BY <1>s, <3>1, <3>2
  <2> QED BY <2>1, <2>2
<1>3. CASE Restart
  BY <1>s, <1>3 DEF Restart
<1> QED BY <1>1, <1>2, <1>3 DEF Next

\* A result that was signalled into a permission goes only when a prompt about it was taken, or
\* `MaxSignals` later ones pushed it out of the list.
THEOREM NoSignalIsDropped == Spec => []SignalNotLost
<1>1. Init => SignalInv
  BY DEF Init, SignalInv, NothingOwed
<1>2. SignalInv => SignalNotLost
  BY DEF SignalInv, SignalNotLost, Keys
<1> QED BY <1>1, <1>2, InitTypes, NextTypes, SignalsKept, PTL DEF Spec

-----------------------------------------------------------------------------
(* The budget.                                                             *)

\* What prepareContinuation() makes of the recovery `c`.
Recovers(c, p, due) ==
  /\ c.recovery # "none" => p.attempts = c.attempts /\ p.recovery # "none"
  /\ c.recovery = "none" => p = c \/ (p.recovery = "scheduled" /\ p.attempts = 0)
  /\ c.recovery \in { "submitting", "blocked" } => p.recovery \in { "submitting", "blocked" }
  /\ c.recovery # "none" /\ PendingContinuation(p, due) => p.attempts < Limit /\ p.recovery = "scheduled"

LEMMA PrepareRecovers ==
  ASSUME NEW c \in Control, NEW idle \in BOOLEAN, NEW due \in BOOLEAN
  PROVE  Recovers(c, Prepare(c, idle, due), due)
<1> DEFINE p == Prepare(c, idle, due)
<1>0. c.attempts \in Nat /\ Limit \in Nat /\ c.recovery \in Recoveries
  BY LimitAssumption DEF Control
<1>1. CASE c.permission # "unattended" \/ c.awaiting
  <2>1. p = c
    BY <1>1 DEF Prepare
  <2> HIDE DEF p
  <2>2. Recovers(c, p, due)
    BY <1>1, <2>1 DEF PendingContinuation, Recovers
  <2> QED BY <2>2 DEF p
<1>2. CASE ~(c.permission # "unattended" \/ c.awaiting)
  <2>1. CASE c.recovery = "submitting"
    <3>1. p = [ c EXCEPT !.recovery = "blocked" ]
      BY <1>2, <2>1 DEF Prepare
    <3> HIDE DEF p
    <3>2. Recovers(c, p, due)
      BY <2>1, <3>1 DEF PendingContinuation, Control, Recovers
    <3> QED BY <3>2 DEF p
  <2>2. CASE c.recovery \in { "scheduled", "submitted" } /\ c.attempts >= Limit
    <3>1. c.recovery # "submitting" /\ c.recovery # "none" /\ ~(c.attempts < Limit)
      BY <1>0, <2>2
    <3>2. p = [ c EXCEPT !.recovery = "stalled" ]
      BY <1>2, <2>2, <3>1 DEF Prepare
    <3> HIDE DEF p
    <3>3. Recovers(c, p, due)
      BY <2>2, <3>2 DEF PendingContinuation, Control, Recovers
    <3> QED BY <3>3 DEF p
  <2>3. CASE c.recovery = "none"
    <3>1. p = [ c EXCEPT !.recovery = "scheduled", !.attempts = 0 ] \/ p = c
      BY <1>2, <2>3 DEF Prepare
    <3> HIDE DEF p
    <3>2. Recovers(c, p, due)
      BY <2>3, <3>1 DEF Control, Recovers
    <3> QED BY <3>2 DEF p
  <2>4. CASE c.recovery = "submitted" /\ ~(c.attempts >= Limit)
    <3>1. p = [ c EXCEPT !.recovery = "scheduled" ] \/ p = c
      BY <1>2, <2>4 DEF Prepare
    <3> HIDE DEF p
    <3>2. Recovers(c, p, due)
      BY <1>0, <2>4, <3>1 DEF PendingContinuation, Control, Recovers
    <3> QED BY <3>2 DEF p
  <2>5. CASE c.recovery = "scheduled" /\ ~(c.attempts >= Limit)
    <3>1. p = c
      BY <1>2, <2>5 DEF Prepare
    <3> HIDE DEF p
    <3>2. Recovers(c, p, due)
      BY <1>0, <2>5, <3>1 DEF Recovers
    <3> QED BY <3>2 DEF p
  <2>6. CASE c.recovery \in { "blocked", "stalled" }
    <3>1. p = c
      BY <1>2, <2>6 DEF Prepare
    <3> HIDE DEF p
    <3>2. Recovers(c, p, due)
      BY <2>6, <3>1 DEF PendingContinuation, Recovers
    <3> QED BY <3>2 DEF p
  <2> QED BY <1>0, <2>1, <2>2, <2>3, <2>4, <2>5, <2>6 DEF Recoveries
<1> QED BY <1>1, <1>2

\* What a decision about `c` needs of it, and leaves.
Budget(c) ==
  /\ c.recovery = "none" => prompts = 0
  /\ prompts <= c.attempts
  /\ c.attempts <= Limit
  /\ unsure => c.recovery \in { "submitting", "blocked" }

LEMMA DecideKeepsBudget ==
  ASSUME TypeOK, NEW c \in Control, NEW idle \in BOOLEAN, NEW due \in BOOLEAN,
         Budget(c), c.revision = control.revision, Decide(c, idle, due), UNCHANGED << prompts, unsure >>
  PROVE  WorkInv'
<1> DEFINE p == Prepare(c, idle, due)
<1>0. /\ Limit \in Nat /\ prompts \in Nat /\ c.attempts \in Nat /\ c.revision \in Nat
      /\ c.recovery \in Recoveries
  BY LimitAssumption DEF Control, TypeOK
<1>1. Budget(p)
  <2>1. p \in Control /\ p.attempts \in Nat
    BY PrepareKeeps DEF Control
  <2> QED BY <1>0, <2>1, PrepareRecovers DEF Budget, Recovers
<1>2. p.revision = c.revision
  BY PrepareKeeps
<1>3. control' = c \/ control' = p
  BY DecideTo
<1>4. /\ control'.recovery = "none" => prompts = 0
      /\ prompts <= control'.attempts
      /\ control'.attempts <= Limit
      /\ unsure => control'.recovery \in { "submitting", "blocked" }
  <2> HIDE DEF p
  <2> QED BY <1>1, <1>3 DEF Budget
<1>5. CASE pc' = "idle"
  BY <1>4, <1>5 DEF WorkInv, Holds
<1>6. CASE /\ pc' = "project"
           /\ \E work \in BOOLEAN :
                /\ call' = [ NoCall EXCEPT !.work = work, !.revision = control'.revision ]
                /\ work => /\ control' = p /\ c.recovery # "none" /\ PendingContinuation(control', due)
  <2>1. PICK work \in BOOLEAN :
                /\ call' = [ NoCall EXCEPT !.work = work, !.revision = control'.revision ]
                /\ work => /\ control' = p /\ c.recovery # "none" /\ PendingContinuation(control', due)
    BY <1>6
  <2>2. call'.work = work /\ call'.revision = control'.revision /\ control'.revision \in Nat
    BY <1>0, <1>2, <1>3, <2>1 DEF NoCall
  <2>3. work => control'.recovery = "scheduled" /\ control'.attempts < Limit
    BY <2>1, PrepareRecovers DEF Recovers
  <2> QED BY <1>4, <1>6, <2>2, <2>3 DEF WorkInv, Holds
<1> QED BY <1>5, <1>6, DecideTo

LEMMA OutsideKeepsWork == TypeOK /\ WorkInv /\ Outside => WorkInv'
<1> SUFFICES ASSUME TypeOK, WorkInv, Outside PROVE WorkInv'
  OBVIOUS
<1>0. /\ control \in Control /\ call.revision \in Nat /\ control.revision \in Nat /\ control.attempts \in Nat
      /\ Limit \in Nat /\ UNCHANGED << pc, call >>
  BY LimitAssumption DEF TypeOK, Control, Calls, Outside, passVars
<1>1. CASE UNCHANGED << control, prompts, unsure, owed >>
  BY <1>0, <1>1 DEF WorkInv, Holds
<1>2. ASSUME NEW permission \in Permissions, SetContinuation(permission) PROVE WorkInv'
  <2>1. /\ control'.revision = control.revision + 1 /\ control'.attempts = 0 /\ control'.recovery = "none"
        /\ prompts' = 0 /\ unsure' = FALSE
    BY <1>0, <1>2 DEF SetContinuation, Control
  <2> QED BY <1>0, <2>1 DEF WorkInv, Holds
<1>3. ASSUME NEW waits \in BOOLEAN, ToWait(waits), UNCHANGED << prompts, unsure >> PROVE WorkInv'
  <2>1. /\ control'.revision = control.revision + 1 /\ control'.attempts = control.attempts
        /\ control'.recovery = control.recovery \/ (control.recovery = "submitted" /\ control'.recovery = "scheduled")
    BY <1>0, <1>3 DEF ToWait, Control
  <2> QED BY <1>0, <1>3, <2>1 DEF WorkInv, Holds
<1>4. ASSUME NEW x \in Signals, ToSignal(x), UNCHANGED << prompts, unsure >> PROVE WorkInv'
  <2>1. /\ control'.revision = control.revision /\ control'.attempts = control.attempts
        /\ control'.recovery = control.recovery
    BY <1>0, <1>4 DEF ToSignal, Control
  <2> QED BY <1>0, <1>4, <2>1 DEF WorkInv, Holds
<1> QED BY <1>1, <1>2, <1>3, <1>4 DEF Outside

\* A pass that ends keeps the budget when the recovery does.
LEMMA EndKeepsWork ==
  ASSUME pc' = "idle", (control.recovery = "none" => prompts = 0)', (prompts <= control.attempts)',
         (control.attempts <= Limit)', (unsure => control.recovery \in { "submitting", "blocked" })'
  PROVE  WorkInv'
BY DEF WorkInv, Holds

LEMMA PassKeepsWork == TypeOK /\ WorkInv /\ Pass => WorkInv'
<1> SUFFICES ASSUME TypeOK, WorkInv, Pass PROVE WorkInv'
  OBVIOUS
<1>0. /\ control \in Control /\ call \in Calls /\ control.attempts \in Nat /\ control.revision \in Nat
      /\ call.revision \in Nat /\ Limit \in Nat /\ prompts \in Nat /\ unsure \in BOOLEAN
      /\ control.recovery \in Recoveries
  BY LimitAssumption DEF TypeOK, Control, Calls
<1>b. /\ control.recovery = "none" => prompts = 0
      /\ prompts <= control.attempts /\ control.attempts <= Limit
      /\ unsure => control.recovery \in { "submitting", "blocked" }
  BY DEF WorkInv
<1>1. CASE BeginPass
  <2>1. UNCHANGED << prompts, unsure >>
    BY <1>1 DEF BeginPass, sentVars
  <2>2. CASE \E idle, due \in BOOLEAN : Decide(control, idle, due)
    <3>1. Budget(control)
      BY <1>b DEF Budget
    <3> QED BY <1>0, <2>1, <2>2, <3>1, DecideKeepsBudget
  <2>3. CASE pc' = "acknowledging" /\ call' = [ NoCall EXCEPT !.revision = control.revision ] /\ UNCHANGED control
    <3>1. call'.revision = control.revision
      BY <2>3 DEF NoCall
    <3> QED BY <1>0, <1>b, <2>1, <2>3, <3>1 DEF WorkInv, Holds
  <2> QED BY <1>1, <2>2, <2>3 DEF BeginPass
<1>2. CASE Acknowledge
  <2>1. UNCHANGED << prompts, unsure >>
    BY <1>2 DEF Acknowledge, sentVars
  <2> DEFINE given == ~acked /\ control.revision = call.revision /\ control.recovery = "submitted"
             blocked == [ control EXCEPT !.recovery = "blocked" ]
             c == IF given THEN blocked ELSE control
  <2>2. c \in Control /\ c.revision = control.revision /\ Budget(c)
    <3>1. /\ blocked \in Control /\ blocked.recovery = "blocked" /\ blocked.attempts = control.attempts
          /\ blocked.revision = control.revision
      BY <1>0 DEF Control, Recoveries
    <3>2. Budget(blocked) /\ Budget(control)
      BY <1>b, <3>1 DEF Budget
    <3> QED BY <1>0, <3>1, <3>2
  <2>3. \E idle, due \in BOOLEAN : Decide(c, idle, due)
    BY <1>2 DEF Acknowledge
  <2> HIDE DEF c
  <2> QED BY <2>1, <2>2, <2>3, DecideKeepsBudget
<1>3. CASE ProjectAnswers
  <2>1. UNCHANGED << control, prompts, unsure >>
    BY <1>3 DEF ProjectAnswers, sentVars
  <2>2. CASE pc' = "idle"
    BY <1>b, <2>1, <2>2, EndKeepsWork
  <2>3. CASE pc = "project" /\ pc' \in { "refreshing", "restoring" } /\ call' = call
    BY <1>0, <1>b, <2>1, <2>3 DEF WorkInv, Holds
  <2> QED BY <1>3, <2>2, <2>3 DEF ProjectAnswers, EndPass
<1>4. CASE Restored
  <2>1. UNCHANGED << control, prompts, unsure >>
    BY <1>4 DEF Restored, sentVars
  <2>2. CASE pc' = "idle"
    BY <1>b, <2>1, <2>2, EndKeepsWork
  <2>3. CASE pc = "restoring" /\ pc' = "refreshing" /\ call' = call
    BY <1>0, <1>b, <2>1, <2>3 DEF WorkInv, Holds
  <2> QED BY <1>4, <2>2, <2>3 DEF Restored, EndPass
<1>5. CASE RestoreFails
  <2>1. UNCHANGED << prompts, unsure >> /\ pc' = "idle"
    BY <1>5 DEF RestoreFails, sentVars, EndPass
  <2>2. CASE call.work /\ Unattended /\ control.revision = call.revision
    <3>1. control.recovery = "scheduled" /\ control.attempts < Limit
      BY <1>5, <2>2 DEF RestoreFails, WorkInv, Holds
    <3>2. control'.attempts = control.attempts + 1 /\ control'.recovery \in { "stalled", "scheduled" }
      BY <1>0, <1>5, <2>2 DEF RestoreFails, Control
    <3> QED BY <1>0, <1>b, <2>1, <3>1, <3>2, EndKeepsWork
  <2>3. CASE ~(call.work /\ Unattended /\ control.revision = call.revision)
    <3>1. control' = control
      BY <1>5, <2>3 DEF RestoreFails
    <3> QED BY <1>b, <2>1, <3>1, EndKeepsWork
  <2> QED BY <2>2, <2>3
<1>6. CASE RefreshEnds
  <2>0. pc = "refreshing" /\ unsure' = unsure
    BY <1>6 DEF RefreshEnds
  <2>1. CASE EndPass /\ UNCHANGED << control, tryVars, acked, coming, prompts, tries >>
    BY <1>b, <2>0, <2>1, EndKeepsWork DEF EndPass
  <2>2. CASE Allowed /\ \E due \in BOOLEAN : Submit(due)
    <3>1. PICK due \in BOOLEAN : Submit(due)
      BY <2>2
    <3>2. CASE call.work
      <4>1. control.recovery = "scheduled" /\ control.attempts < Limit /\ control.revision = call.revision
        BY <2>0, <2>2, <3>2 DEF Allowed, WorkInv, Holds
      <4>2. /\ control'.attempts = control.attempts + 1 /\ control'.revision = control.revision
            /\ \/ control'.recovery = "scheduled" /\ pc' = "idle" /\ prompts' = prompts
               \/ /\ control'.recovery = "submitting" /\ pc' = "sending" /\ prompts' \in { prompts, prompts + 1 }
                  /\ call'.revision = call.revision
        <5>1. CASE control' = [ control EXCEPT !.recovery = "scheduled", !.attempts = @ + 1 ]
                   /\ pc' = "idle" /\ prompts' = prompts
          BY <1>0, <5>1 DEF Control
        <5>2. CASE /\ control' = [ control EXCEPT !.recovery = "submitting", !.attempts = @ + 1 ]
                   /\ pc' = "sending" /\ prompts' \in { prompts, prompts + 1 } /\ call'.revision = call.revision
          BY <1>0, <5>2 DEF Control
        <5>3. [ [ control EXCEPT !.recovery = "submitting", !.attempts = @ + 1 ] EXCEPT !.recovery = "scheduled" ]
                = [ control EXCEPT !.recovery = "scheduled", !.attempts = @ + 1 ]
          BY <1>0 DEF Control
        <5> QED BY <1>0, <3>1, <3>2, <5>1, <5>2, <5>3 DEF Submit, EndPass, Calls
      <4>3. CASE pc' = "idle"
        BY <1>0, <1>b, <2>0, <4>1, <4>2, <4>3, EndKeepsWork
      <4>4. CASE pc' = "sending"
        BY <1>0, <1>b, <2>0, <4>1, <4>2, <4>4 DEF WorkInv, Holds
      <4> QED BY <4>2, <4>3, <4>4
    <3>3. CASE ~call.work
      <4>1. control' = control /\ prompts' = prompts
        BY <3>1, <3>3 DEF Submit
      <4>2. \/ pc' = "idle"
            \/ pc' = "sending" /\ call'.revision = call.revision /\ call'.work = call.work
        BY <1>0, <3>1 DEF Submit, EndPass, Calls
      <4>3. CASE pc' = "idle"
        BY <1>b, <2>0, <4>1, <4>3, EndKeepsWork
      <4>4. CASE pc' = "sending" /\ call'.revision = call.revision /\ call'.work = call.work
        BY <1>0, <1>b, <2>0, <3>3, <4>1, <4>4 DEF WorkInv, Holds
      <4> QED BY <4>2, <4>3, <4>4
    <3> QED BY <3>2, <3>3
  <2> QED BY <1>6, <2>1, <2>2 DEF RefreshEnds
<1>7. ASSUME pc = "sending", pc' = "idle", prompts' = prompts,
             unsure' \in { unsure, unsure \/ (call.work /\ control.revision = call.revision) },
             NEW recovery \in { "submitted", "scheduled", "blocked" },
             unsure' \in { unsure } \/ recovery = "blocked",
             \/ control' = control
             \/ /\ call.work /\ Allowed
                /\ control'.recovery = recovery /\ control'.attempts = control.attempts,
             call.work /\ Allowed => control'.recovery = recovery
      PROVE  WorkInv'
  <2>1. call.work /\ control.revision = call.revision => control.recovery = "submitting" /\ ~unsure
    BY <1>7 DEF WorkInv, Holds
  <2>2. (unsure => control.recovery \in { "submitting", "blocked" })'
    <3>1. CASE control' = control /\ ~(call.work /\ Allowed)
      BY <1>b, <1>7, <2>1, <3>1
    <3>2. CASE call.work /\ Allowed
      <4>1. control.revision = call.revision
        BY <3>2 DEF Allowed
      <4> QED BY <1>7, <2>1, <3>2, <4>1
    <3> QED BY <1>7, <3>1, <3>2
  <2>3. (control.recovery = "none" => prompts = 0)' /\ (prompts <= control.attempts)' /\ (control.attempts <= Limit)'
    BY <1>b, <1>7
  <2> QED BY <1>7, <2>2, <2>3, EndKeepsWork
<1>8. CASE Submitted
  <2>1. /\ pc = "sending" /\ pc' = "idle" /\ prompts' = prompts /\ unsure' = unsure
        /\ IF call.work /\ Allowed
             THEN control' = [ control EXCEPT !.recovery = "submitted", !.signals = Without(@, call.consumed) ]
             ELSE control' = control
    BY <1>8 DEF Submitted, EndPass, sentVars
  <2>2. /\ \/ control' = control
           \/ /\ call.work /\ Allowed
              /\ control'.recovery = "submitted" /\ control'.attempts = control.attempts
        /\ call.work /\ Allowed => control'.recovery = "submitted"
    BY <1>0, <2>1 DEF Control
  <2> QED BY <1>7, <2>1, <2>2
<1>9. ASSUME NEW status, NEW recovery \in { "scheduled", "blocked" }, NotSubmitted(status, recovery)
      PROVE  /\ pc' = "idle" /\ prompts' = prompts
             /\ \/ control' = control
                \/ call.work /\ Allowed /\ control'.recovery = recovery /\ control'.attempts = control.attempts
             /\ call.work /\ Allowed => control'.recovery = recovery
  BY <1>0, <1>9 DEF NotSubmitted, EndPass, Control
<1>10. CASE NotSent
  <2>1. pc = "sending" /\ unsure' = unsure
    BY <1>10 DEF NotSent
  <2>2. CASE NotSubmitted("deferred", "scheduled")
    BY <1>7, <1>9, <2>1, <2>2
  <2>3. CASE NotSubmitted("failed", "blocked")
    BY <1>7, <1>9, <2>1, <2>3
  <2> QED BY <1>10, <2>2, <2>3 DEF NotSent
<1>11. CASE OutcomeUnknown
  <2>1. pc = "sending" /\ unsure' \in { unsure, unsure \/ (call.work /\ control.revision = call.revision) }
    BY <1>11 DEF OutcomeUnknown
  <2> QED BY <1>7, <1>9, <1>11, <2>1 DEF OutcomeUnknown
<1> QED BY <1>1, <1>2, <1>3, <1>4, <1>5, <1>6, <1>8, <1>10, <1>11 DEF Pass

LEMMA WorkKept == TypeOK /\ WorkInv /\ [Next]_vars => WorkInv'
<1> SUFFICES ASSUME TypeOK, WorkInv, [Next]_vars PROVE WorkInv'
  OBVIOUS
<1>1. CASE Agent \/ Others \/ Provider \/ UNCHANGED vars
  BY <1>1, OutsideSteps, OutsideKeepsWork
<1>2. CASE Pass
  BY <1>2, PassKeepsWork
<1>3. CASE Restart
  <2>1. /\ UNCHANGED << control, prompts >> /\ pc' = "idle"
        /\ unsure' = (unsure \/ (pc = "sending" /\ call.work /\ control.revision = call.revision))
    BY <1>3 DEF Restart, EndPass
  <2>2. unsure' => control.recovery \in { "submitting", "blocked" }
    BY <2>1 DEF WorkInv, Holds
  <2>3. (control.recovery = "none" => prompts = 0) /\ prompts <= control.attempts /\ control.attempts <= Limit
    BY DEF WorkInv
  <2> QED BY <2>1, <2>2, <2>3, EndKeepsWork
<1> QED BY <1>1, <1>2, <1>3 DEF Next

-----------------------------------------------------------------------------
(* The prompts of one message.                                             *)

\* A pass takes up no message in doubt, none twice, and no dispatch a second time.
LEMMA PendingMail ==
  ASSUME TypeOK, NEW m \in Mail, MailInv(m), NEW due \in BOOLEAN
  PROVE  /\ m \in FirstTries(due) => /\ first[m] \in { "none", "deferred" } /\ second[m] = "none"
                                     /\ m \notin FollowUps(due) /\ m \notin unsureMail
         /\ m \in FollowUps(due) => /\ first[m] = "submitted" /\ second[m] \in { "none", "deferred" }
                                    /\ m \notin Dispatches /\ m \notin unsureMail
<1>1. m \in FirstTries(due) => first[m] \in { "none", "deferred" }
  BY DEF FirstTries
<1>2. m \in FollowUps(due) => first[m] = "submitted" /\ second[m] \in { "none", "deferred" } /\ m \in Urgent
  BY DEF FollowUps
<1> QED BY <1>1, <1>2, MailAssumption DEF MailInv

\* An attempt that is recorded with `status` where nothing was sent, or was sent and is over.
LEMMA SavedAttempt ==
  ASSUME TypeOK, NEW fresh, NEW again, NEW status, NEW m \in Mail, SaveAttempt(fresh, again, status)
  PROVE  /\ first'[m] = IF m \in fresh THEN status ELSE first[m]
         /\ second'[m] = IF m \in again THEN status ELSE second[m]
BY DEF SaveAttempt

LEMMA SameMail ==
  ASSUME TypeOK, NEW m \in Mail, MailInv(m), UNCHANGED << first, second, tries, unsureMail >>,
         \/ pc' # "sending"
         \/ pc' = pc /\ call'.fresh = call.fresh /\ call'.again = call.again /\ call'.reached = call.reached
  PROVE  MailInv(m)'
BY DEF MailInv, Carried

LEMMA PassKeepsMail ==
  ASSUME TypeOK, NEW m \in Mail, MailInv(m), Pass
  PROVE  MailInv(m)'
<1>0. tries[m] \in Nat /\ call.reached \in BOOLEAN
  BY DEF TypeOK, Calls
<1>1. CASE BeginPass
  <2>1. UNCHANGED << first, second, tries, unsureMail >>
    BY <1>1 DEF BeginPass, tryVars, sentVars
  <2>2. pc' # "sending"
    <3>1. ASSUME NEW idle \in BOOLEAN, NEW due \in BOOLEAN, Decide(control, idle, due) PROVE pc' # "sending"
      BY <3>1 DEF Decide, EndPass
    <3> QED BY <1>1, <3>1 DEF BeginPass
  <2> QED BY <2>1, <2>2, SameMail
<1>2. CASE Acknowledge
  <2>1. UNCHANGED << first, second, tries, unsureMail >>
    BY <1>2 DEF Acknowledge, tryVars, sentVars
  <2>2. pc' # "sending"
    <3>1. ASSUME NEW c, NEW idle \in BOOLEAN, NEW due \in BOOLEAN, Decide(c, idle, due) PROVE pc' # "sending"
      BY <3>1 DEF Decide, EndPass
    <3> QED BY <1>2, <3>1 DEF Acknowledge
  <2> QED BY <2>1, <2>2, SameMail
<1>3. CASE ProjectAnswers \/ Restored
  <2>1. UNCHANGED << first, second, tries, unsureMail >> /\ pc' # "sending"
    BY <1>3 DEF ProjectAnswers, Restored, tryVars, sentVars, EndPass
  <2> QED BY <2>1, SameMail
<1>4. CASE RestoreFails
  <2>1. pc' # "sending" /\ UNCHANGED << tries, unsureMail >>
    BY <1>4 DEF RestoreFails, sentVars, EndPass
  <2>2. CASE UNCHANGED tryVars
    BY <2>1, <2>2, SameMail DEF tryVars
  <2>3. CASE \E due \in BOOLEAN : SaveAttempt(FirstTries(due), FollowUps(due), "failed")
    <3>1. PICK due \in BOOLEAN : SaveAttempt(FirstTries(due), FollowUps(due), "failed")
      BY <2>3
    <3>2. /\ first'[m] = IF m \in FirstTries(due) THEN "failed" ELSE first[m]
          /\ second'[m] = IF m \in FollowUps(due) THEN "failed" ELSE second[m]
      BY <3>1, SavedAttempt
    <3> QED BY <1>0, <2>1, <3>2, PendingMail DEF MailInv
  <2> QED BY <1>4, <2>2, <2>3 DEF RestoreFails
<1>5. CASE RefreshEnds
  <2>0. unsureMail' = unsureMail
    BY <1>5 DEF RefreshEnds
  <2>1. CASE EndPass /\ UNCHANGED << control, tryVars, acked, coming, prompts, tries >>
    BY <2>0, <2>1, SameMail DEF EndPass, tryVars
  <2>2. CASE \E due \in BOOLEAN : Submit(due)
    <3>1. PICK due \in BOOLEAN : Submit(due)
      BY <2>2
    <3> DEFINE fresh == FirstTries(due)
               again == FollowUps(due)
    <3>2. /\ m \in fresh => /\ first[m] \in { "none", "deferred" } /\ second[m] = "none"
                            /\ m \notin again /\ m \notin unsureMail
          /\ m \in again => /\ first[m] = "submitted" /\ second[m] \in { "none", "deferred" }
                            /\ m \notin Dispatches /\ m \notin unsureMail
      BY PendingMail
    <3>3. CASE SaveAttempt(fresh, again, "deferred") /\ EndPass /\ UNCHANGED tries
      <4>1. /\ first'[m] = IF m \in fresh THEN "deferred" ELSE first[m]
            /\ second'[m] = IF m \in again THEN "deferred" ELSE second[m]
            /\ pc' = "idle" /\ tries'[m] = tries[m]
        BY <3>3, SavedAttempt DEF EndPass
      <4> HIDE DEF fresh, again
      <4> QED BY <1>0, <2>0, <3>2, <4>1 DEF MailInv
    <3>4. CASE /\ SaveAttempt(fresh, again, "submitting")
               /\ pc' = "sending"
               /\ \E reached \in BOOLEAN :
                    /\ call' = [ call EXCEPT !.fresh = fresh, !.again = again,
                                             !.consumed = Keys(control.signals), !.reached = reached ]
                    /\ tries' = [ n \in Mail |-> IF reached /\ n \in fresh \cup again THEN tries[n] + 1 ELSE tries[n] ]
      <4>1. PICK reached \in BOOLEAN :
                    /\ call' = [ call EXCEPT !.fresh = fresh, !.again = again,
                                             !.consumed = Keys(control.signals), !.reached = reached ]
                    /\ tries' = [ n \in Mail |-> IF reached /\ n \in fresh \cup again THEN tries[n] + 1 ELSE tries[n] ]
        BY <3>4
      <4>2. call'.fresh = fresh /\ call'.again = again /\ call'.reached = reached
        BY <4>1 DEF TypeOK, Calls
      <4>3. /\ first'[m] = IF m \in fresh THEN "submitting" ELSE first[m]
            /\ second'[m] = IF m \in again THEN "submitting" ELSE second[m]
            /\ tries'[m] = IF reached /\ m \in fresh \cup again THEN tries[m] + 1 ELSE tries[m]
        BY <3>4, <4>1, SavedAttempt
      <4> HIDE DEF fresh, again
      <4> QED BY <1>0, <2>0, <3>2, <3>4, <4>2, <4>3 DEF MailInv, Carried
    <3> QED BY <3>1, <3>3, <3>4 DEF Submit
  <2> QED BY <1>5, <2>1, <2>2 DEF RefreshEnds
<1>6. ASSUME NEW status \in { "submitted", "deferred", "failed" }, pc = "sending", pc' = "idle",
             SaveAttempt(call.fresh, call.again, status), tries' = tries,
             status = "deferred" => ~call.reached,
             unsureMail' = unsureMail \/ (unsureMail' = unsureMail \cup Carried /\ status = "failed")
      PROVE  MailInv(m)'
  <2>1. /\ first'[m] = IF m \in call.fresh THEN status ELSE first[m]
        /\ second'[m] = IF m \in call.again THEN status ELSE second[m]
        /\ tries'[m] = tries[m]
    BY <1>6, SavedAttempt
  <2>2. m \in unsureMail' => m \in unsureMail \/ (m \in Carried /\ status = "failed")
    BY <1>6
  <2> QED BY <1>0, <1>6, <2>1, <2>2 DEF MailInv, Carried
<1>7. CASE Submitted
  BY <1>6, <1>7 DEF Submitted, EndPass, sentVars
<1>8. CASE NotSent
  BY <1>6, <1>8 DEF NotSent, NotSubmitted, EndPass
<1>9. CASE OutcomeUnknown
  BY <1>6, <1>9 DEF OutcomeUnknown, NotSubmitted, EndPass
<1> QED BY <1>1, <1>2, <1>3, <1>4, <1>5, <1>7, <1>8, <1>9 DEF Pass

LEMMA MailKept == TypeOK /\ AllMail /\ [Next]_vars => AllMail'
<1> SUFFICES ASSUME TypeOK, AllMail, [Next]_vars, NEW m \in Mail PROVE MailInv(m)'
  BY DEF AllMail
<1>0. MailInv(m)
  BY DEF AllMail
<1>1. CASE Agent \/ Others \/ Provider \/ UNCHANGED vars
  <2>1. UNCHANGED << first, second, tries, unsureMail, pc, call >>
    BY <1>1, OutsideSteps DEF Outside, tryVars, passVars
  <2> QED BY <1>0, <2>1, SameMail
<1>2. CASE Pass
  BY <1>0, <1>2, PassKeepsMail
<1>3. CASE Restart
  <2>1. /\ UNCHANGED << first, second, tries >> /\ pc' = "idle"
        /\ unsureMail' = IF pc = "sending" THEN unsureMail \cup Carried ELSE unsureMail
    BY <1>3 DEF Restart, EndPass, tryVars
  <2> QED BY <1>0, <2>1 DEF MailInv, Carried
<1> QED BY <1>1, <1>2, <1>3 DEF Next

-----------------------------------------------------------------------------
(* The two theorems about the prompts.                                     *)

PromptInv == TypeOK /\ WorkInv /\ AllMail

LEMMA PromptInvHolds == Spec => []PromptInv
<1>1. Init => PromptInv
  <2>1. ASSUME Init PROVE WorkInv /\ AllMail
    <3>1. Limit \in Nat /\ \A m \in Mail : first[m] = "none" /\ second[m] = "none" /\ tries[m] = 0
      BY <2>1, LimitAssumption DEF Init
    <3> QED BY <2>1, <3>1 DEF Init, WorkInv, Holds, AllMail, MailInv
  <2> QED BY <2>1, InitTypes DEF PromptInv
<1>2. PromptInv /\ [Next]_vars => PromptInv'
  BY NextTypes, WorkKept, MailKept DEF PromptInv
<1> QED BY <1>1, <1>2, PTL DEF Spec

\* For any limit, any mail and any number of restarts: no more work prompts in a permission than the
\* limit, two for an urgent message, one for a dispatched task.
THEOREM PromptsAreBounded == Spec => []PromptsBounded
<1>1. PromptInv => PromptsBounded
  <2> SUFFICES ASSUME PromptInv PROVE PromptsBounded
    OBVIOUS
  <2>1. prompts <= Limit
    BY LimitAssumption DEF PromptInv, TypeOK, WorkInv, Control
  <2>2. ASSUME NEW m \in Mail PROVE tries[m] <= IF m \in Dispatches THEN 1 ELSE 2
    <3>1. MailInv(m)
      BY DEF PromptInv, AllMail
    <3> QED BY <3>1 DEF MailInv
  <2> QED BY <2>1, <2>2 DEF PromptsBounded
<1> QED BY <1>1, PromptInvHolds, PTL

\* A prompt in doubt is never followed by another one: of the work in its permission, or for its message.
THEOREM DoubtIsFinal == Spec => DoubtIsNotRepeated
<1>1. PromptInv /\ [Next]_vars => [ /\ unsure => prompts' <= prompts
                                    /\ \A m \in unsureMail : tries'[m] = tries[m] ]_vars
  <2> SUFFICES ASSUME PromptInv, [Next]_vars
               PROVE  /\ unsure => prompts' <= prompts
                      /\ \A m \in unsureMail : tries'[m] = tries[m]
    OBVIOUS
  <2>1. TypeOK /\ WorkInv /\ AllMail
    BY DEF PromptInv
  <2>2. CASE prompts' <= prompts /\ tries' = tries
    BY <2>2
  <2>3. CASE pc = "refreshing" /\ Allowed /\ \E due \in BOOLEAN : Submit(due)
    <3>1. PICK due \in BOOLEAN : Submit(due)
      BY <2>3
    <3>2. unsure => ~call.work
      BY <2>1, <2>3 DEF Allowed, WorkInv, Holds
    <3>3. ~call.work => prompts' = prompts
      BY <3>1 DEF Submit
    <3>4. ASSUME NEW m \in unsureMail PROVE tries'[m] = tries[m]
      <4>1. m \in Mail
        BY <2>1 DEF TypeOK
      <4>2. m \notin FirstTries(due) \cup FollowUps(due)
        BY <2>1, <4>1, PendingMail DEF AllMail
      <4> QED BY <3>1, <4>1, <4>2 DEF Submit
    <3>5. prompts \in Nat
      BY <2>1 DEF TypeOK
    <3> QED BY <3>2, <3>3, <3>4, <3>5
  <2> QED BY <2>1, <2>2, <2>3, OnlySubmitPrompts
<1> QED BY <1>1, PromptInvHolds, PTL DEF Spec, DoubtIsNotRepeated

=============================================================================
