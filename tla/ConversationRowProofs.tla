------------------------ MODULE ConversationRowProofs ------------------------
(***************************************************************************)
(* Proofs about one conversation row, for any questions, any commands and  *)
(* any number of turns, processes, connections lost and restarts.          *)
(*                                                                         *)
(* The properties speak of the moment when everything the provider said    *)
(* has been read.  The invariant Inv says what they come to while some of  *)
(* it is still unread: `Stream` and `Asked` say in which order events can  *)
(* stand in chan, `Agrees` that the session's active turn will be the      *)
(* provider's once they are read, `Shown` that its questions will be,      *)
(* `Ended` and `Telling` that nothing is passed on twice, `Clears` that    *)
(* something will still clear a working flag whose turn is over.           *)
(***************************************************************************)
EXTENDS ConversationRow, FiniteSetTheorems, FunctionTheorems, SequenceTheorems, TLAPS

-----------------------------------------------------------------------------
(***************************************************************************)
(* The invariant.                                                          *)
(***************************************************************************)
IsStart(e) == e.kind = "started"
IsEnd(e) == e.kind = "terminal"
OfTurn(e) == e.kind \in { "started", "terminal" }

\* The provider: turns are counted up, and what a turn holds goes with it.
Process ==
    /\ pid \in { 0, pids } /\ run \in { 0, turns }
    /\ pid = 0 => run = 0
    /\ run = 0 => held = {}
    /\ held \cap MessageMode = {}
    /\ \A q \in Questions : raisedBy[q] <= turns
    /\ \A q \in held : raisedBy[q] = run

\* A connection belongs to a loaded session, and that to the latest process.
Link ==
    /\ attached => loaded /\ pid # 0
    /\ loaded => spid = pids /\ spid # 0
    /\ ~loaded => chan = << >> /\ active = 0 /\ open = {}
    /\ stored = open
    /\ active <= turns

\* What one unread event says.
EventOK(e) ==
    /\ OfTurn(e) => e.turn \in 1..turns
    /\ e.kind = "error" \/ ~e.usable => ~attached
    /\ ~e.usable => PerSession
    /\ IsEnd(e) /\ e.usable => e.turn # run
    /\ e.kind \in { "opened", "closed" } => e.q \in asked

\* Turns stand in chan in their order, each behind its start, and none that began before an end
\* already handled.
Stream ==
    /\ \A i \in DOMAIN chan : EventOK(chan[i])
    /\ \A i, j \in DOMAIN chan : i < j /\ OfTurn(chan[i]) /\ OfTurn(chan[j]) =>
         /\ chan[i].turn <= chan[j].turn
         /\ IsStart(chan[j]) => chan[i].turn < chan[j].turn
    /\ \A t \in Range(seen) :
         /\ t <= turns /\ t # run
         /\ \A i \in DOMAIN chan : IsStart(chan[i]) => t < chan[i].turn

HasStart(t) == \E i \in DOMAIN chan : IsStart(chan[i]) /\ chan[i].turn = t
HasEnd(t) == \E i \in DOMAIN chan : IsEnd(chan[i]) /\ chan[i].turn = t

\* A turn whose end was handled is not the active one.
Fresh == active # 0 => active \notin Range(seen)

\* Once chan is read, the active turn is the provider's.
Agrees == attached =>
    /\ \A i \in DOMAIN chan : IsStart(chan[i]) /\ chan[i].turn # run => HasEnd(chan[i].turn)
    /\ active \notin { 0, run } => HasEnd(active)
    /\ run # 0 => HasStart(run) \/ (active = run /\ \A i \in DOMAIN chan : ~IsStart(chan[i]))

\* The turn a send has started: its start is unread, or it is the active one, or its end is
\* still remembered.
Sent == attached /\ pc = "sending" =>
    \/ HasStart(call) \/ call \in Range(seen)
    \/ active = call /\ \A i \in DOMAIN chan : IsStart(chan[i]) => call < chan[i].turn

\* A turn whose end was passed on has at most the repetition of it unread, next in line.
EndedOnce(t) ==
    /\ ends[t] <= 1
    /\ loaded /\ ends[t] = 1 =>
         /\ t <= turns /\ (attached => t # run)
         /\ \A i \in DOMAIN chan : OfTurn(chan[i]) => t <= chan[i].turn
         /\ HasEnd(t) => seen # << >> /\ seen[Len(seen)] = t
Ended == \A t \in Turns : EndedOnce(t)

Opens(e, q) == e.kind = "opened" /\ e.q = q
Closes(e, q) == (e.kind = "closed" /\ e.q = q) \/ (IsEnd(e) /\ e.turn = raisedBy[q])
HasOpen(q) == \E i \in DOMAIN chan : Opens(chan[i], q)

\* A question is announced once, between the start and the end of its turn.
AskedAbout(q) ==
    /\ q \in open =>
         /\ q \in asked
         /\ q \notin MessageMode => raisedBy[q] \notin Range(seen)
         /\ \A j \in DOMAIN chan : IsStart(chan[j]) => raisedBy[q] < chan[j].turn
    /\ \A i \in DOMAIN chan : Opens(chan[i], q) =>
         /\ q \notin open
         /\ \A j \in DOMAIN chan : Opens(chan[j], q) => j = i
         /\ q \notin MessageMode => raisedBy[q] \notin Range(seen)
         /\ \A j \in DOMAIN chan : IsEnd(chan[j]) /\ chan[j].turn = raisedBy[q] => i < j
         /\ \A j \in DOMAIN chan : IsStart(chan[j]) /\ i < j => raisedBy[q] < chan[j].turn
    /\ \A i \in DOMAIN chan : chan[i].kind = "closed" /\ chan[i].q = q /\ q \in held => ~attached /\ PerSession
Asked == \A q \in Questions : AskedAbout(q)

\* Once chan is read, the questions shown are those held.
ShownAbout(q) == attached =>
    /\ q \in held => q \in open \/ HasOpen(q)
    /\ q \in open => q \in held \cup MessageMode \/ \E i \in DOMAIN chan : Closes(chan[i], q)
    /\ \A i \in DOMAIN chan :
         Opens(chan[i], q) => q \in held \cup MessageMode \/ \E j \in DOMAIN chan : i < j /\ Closes(chan[j], q)
Shown == \A q \in Questions : ShownAbout(q)

\* A question being answered is not announced again; one answered by a message is held by nobody.
Answering ==
    /\ pc = "answering" /\ loaded => Running.q \in asked /\ ~HasOpen(Running.q)
    /\ pc \in { "sending", "steering" } /\ Running.kind = "answer" => Running.q \in MessageMode

\* What the person was told of is written down while it can come again.
Telling == ~PerSession =>
    /\ \A p \in 1..MaxPids, q \in Questions :
         /\ told[p][q] <= 1
         /\ told[p][q] = 1 => p <= pids /\ (p = pids => q \in asked)
    /\ loaded => \A q \in Questions : HasOpen(q) /\ told[spid][q] = 1 => q \in Announced
    /\ status # "ended" => \A q \in held : told[pid][q] = 1 => announced.pid = pid /\ q \in announced.ids

\* What the running command says of the row.
Control ==
    /\ pc # "idle" => lock # << >>
    /\ pc \in { "adopting", "resuming", "unloaded" } => ~loaded
    /\ pc = "adopting" => status = "bound"
    /\ pc = "resuming" => Live /\ ~working
    /\ loaded => status = "bound" \/ (status = "releasing" /\ pc = "releasing")
    /\ ~Live => pc \in { "idle", "releasing" } /\ ~working
    /\ pc = "releasing" => status = "releasing"
    /\ pc = "sending" => call \in 1..turns
    /\ pc = "stopping" => call # 0
    /\ pc = "unloaded" => ~working

\* No process is left where none may be, also while a release is under way.
NoneLeft ==
    PerSession /\ (asleep \/ status = "ended" \/ (status = "releasing" /\ pc # "releasing") \/ pc = "unloaded")
      => pid = 0

\* A refresh that the running command is not.
RefreshWaits == news /\ \E i \in DOMAIN lock : lock[i].kind = "refresh" /\ (pc # "idle" => i > 1)

\* A working flag without a turn has a timer or a refresh to clear it.
Clears ==
    /\ loaded /\ working /\ active = 0 /\ pc # "adopted" => timer \/ RefreshWaits
    /\ loaded /\ pc = "sending" /\ active = 0 => HasStart(call) \/ RefreshWaits

Inv ==
    /\ TypeOK /\ Process /\ Link /\ Stream /\ Fresh /\ Ended /\ Asked /\ Shown /\ Answering /\ Telling
    /\ Control /\ NoneLeft /\ Clears

\* Ends are remembered in the order they were passed on.
Kept == loaded => \A t \in Range(seen) : ends[t] # 0
Ordered == \A i, j \in DOMAIN seen : i < j => seen[i] < seen[j]

\* A send is answered before as many turns have begun after its own as there are ends remembered.
InTime == pc = "sending" => turns - call < Memory

\* What needs the end of a turn to be remembered for as long as its send takes.
Remembered == Agrees /\ Sent /\ Kept /\ Ordered

-----------------------------------------------------------------------------
(***************************************************************************)
(* Sequences of events.                                                    *)
(***************************************************************************)

\* What is left of a sequence, element by element.
LEMMA Rest ==
  ASSUME NEW S, NEW s \in Seq(S), s # << >>
  PROVE  /\ Tail(s) \in Seq(S) /\ Head(s) = s[1] /\ s[1] \in S /\ 1 \in DOMAIN s
         /\ \A i \in DOMAIN Tail(s) : i \in Nat /\ i > 0 /\ i + 1 \in DOMAIN s /\ Tail(s)[i] = s[i + 1]
         /\ \A i \in DOMAIN s : i \in Nat /\ (i # 1 => i > 1 /\ i - 1 \in DOMAIN Tail(s) /\ Tail(s)[i - 1] = s[i])
         /\ Len(Tail(s)) = Len(s) - 1
<1>1. Len(s) \in Nat /\ DOMAIN s = 1..Len(s) /\ Len(s) > 0
  BY EmptySeq, LenProperties
<1>2. Tail(s) \in Seq(S) /\ Len(Tail(s)) = Len(s) - 1 /\ \A i \in 1..Len(Tail(s)) : Tail(s)[i] = s[i + 1]
  BY HeadTailProperties
<1>3. DOMAIN Tail(s) = 1..(Len(s) - 1)
  BY <1>1, <1>2, LenProperties
<1>4. \A n \in Nat : n > 0 => 1 \in 1..n /\ (\A i \in 1..(n - 1) : i \in Nat /\ i > 0 /\ i + 1 \in 1..n)
                  /\ (\A i \in 1..n : i \in Nat /\ (i # 1 => i > 1 /\ i - 1 \in 1..(n - 1) /\ (i - 1) + 1 = i))
  OBVIOUS
<1>5. Head(s) = s[1] /\ s[1] \in S
  BY <1>1, <1>4, ElementOfSeq
<1> QED BY <1>1, <1>2, <1>3, <1>4, <1>5

\* A sequence with others behind it.
LEMMA Joined ==
  ASSUME NEW S, NEW s \in Seq(S), NEW t \in Seq(S)
  PROVE  /\ s \o t \in Seq(S)
         /\ Len(s) \in Nat /\ \A i \in DOMAIN s : i \in Nat /\ i > 0 /\ i <= Len(s)
         /\ \A i \in DOMAIN s : i \in DOMAIN (s \o t) /\ (s \o t)[i] = s[i]
         /\ \A i \in DOMAIN t : i \in Nat /\ i > 0 /\ Len(s) + i \in DOMAIN (s \o t) /\ (s \o t)[Len(s) + i] = t[i]
         /\ \A i \in DOMAIN (s \o t) : i \in Nat /\
              \/ i \in DOMAIN s /\ (s \o t)[i] = s[i]
              \/ i > Len(s) /\ i - Len(s) \in DOMAIN t /\ (s \o t)[i] = t[i - Len(s)]
<1>1. Len(s) \in Nat /\ DOMAIN s = 1..Len(s) /\ Len(t) \in Nat /\ DOMAIN t = 1..Len(t)
  BY LenProperties
<1>2. /\ s \o t \in Seq(S) /\ Len(s \o t) = Len(s) + Len(t)
      /\ \A i \in 1..Len(s) + Len(t) : (s \o t)[i] = IF i <= Len(s) THEN s[i] ELSE t[i - Len(s)]
  BY ConcatProperties
<1>3. DOMAIN (s \o t) = 1..Len(s) + Len(t)
  BY <1>2, LenProperties
<1>4. \A m, n \in Nat : /\ \A i \in 1..m : i \in Nat /\ i > 0 /\ i <= m /\ i \in 1..m + n
                        /\ \A i \in 1..n : i \in Nat /\ i > 0 /\ m + i \in 1..m + n /\ ~ (m + i <= m) /\ (m + i) - m = i
                        /\ \A i \in 1..m + n : i \in Nat /\ ((i <= m /\ i \in 1..m) \/ (~ (i <= m) /\ i > m /\ i - m \in 1..n))
  OBVIOUS
<1> QED BY <1>1, <1>2, <1>3, <1>4

\* One element behind a sequence.
LEMMA JoinedOne ==
  ASSUME NEW S, NEW s \in Seq(S), NEW e \in S
  PROVE  /\ s \o << e >> \in Seq(S)
         /\ Len(s) \in Nat /\ \A i \in DOMAIN s : i \in Nat /\ i > 0 /\ i <= Len(s)
         /\ \A i \in DOMAIN s : i \in DOMAIN (s \o << e >>) /\ (s \o << e >>)[i] = s[i]
         /\ Len(s) + 1 \in DOMAIN (s \o << e >>) /\ (s \o << e >>)[Len(s) + 1] = e
         /\ \A i \in DOMAIN (s \o << e >>) : i \in Nat /\
              \/ i \in DOMAIN s /\ (s \o << e >>)[i] = s[i]
              \/ i = Len(s) + 1 /\ (s \o << e >>)[i] = e
<1>1. << e >> \in Seq(S) /\ DOMAIN << e >> = {1} /\ << e >>[1] = e
  OBVIOUS
<1>2. Len(s) \in Nat
  BY LenProperties
<1>3. \A n \in Nat : \A i \in Nat : i - n = 1 => i = n + 1
  OBVIOUS
<1> QED BY <1>1, <1>2, <1>3, Joined

\* SetToSeq lists the elements of a finite set, each once.
LEMMA Listed ==
  ASSUME NEW S, IsFiniteSet(S)
  PROVE  /\ SetToSeq(S) \in Seq(S)
         /\ \A x \in S : \E i \in DOMAIN SetToSeq(S) : SetToSeq(S)[i] = x
         /\ \A i, j \in DOMAIN SetToSeq(S) : SetToSeq(S)[i] = SetToSeq(S)[j] => i = j
<1> DEFINE n == Cardinality(S)
<1>1. n \in Nat /\ ExistsBijection(1..n, S)
  BY FS_CardinalityType
<1>2. PICK f \in Bijection(1..n, S) : TRUE
  BY <1>1 DEF ExistsBijection
<1>3. f \in [1..n -> S] /\ IsInjective(f)
  BY <1>2 DEF Bijection, Injection
<1>4. SetToSeq(S) \in [1..n -> S] /\ IsInjective(SetToSeq(S))
  BY <1>3 DEF SetToSeq
<1> DEFINE s == SetToSeq(S)
<1> HIDE DEF s
<1>5. s \in Injection(1..n, S)
  BY <1>4 DEF Injection, s
<1>6. IsFiniteSet(1..n) /\ Cardinality(1..n) = n
  BY <1>1, FS_Interval
<1>7. s \in Surjection(1..n, S)
  BY <1>5, <1>6, FS_Injection
<1>8. s \in Seq(S) /\ DOMAIN s = 1..n
  BY <1>1, <1>4 DEF s
<1>9. \A x \in S : \E i \in 1..n : s[i] = x
  BY <1>7 DEF Surjection
<1> QED BY <1>4, <1>8, <1>9 DEF s, IsInjective

-----------------------------------------------------------------------------
(***************************************************************************)
(* Types.                                                                  *)
(***************************************************************************)

\* TypeOK by groups of variables.
ProcTypes ==
    /\ pid \in 0..MaxPids /\ pids \in 0..MaxPids /\ run \in 0..MaxTurns /\ turns \in 0..MaxTurns
    /\ held \subseteq asked /\ asked \subseteq Questions /\ raisedBy \in [Questions -> 0..MaxTurns]
LinkTypes == attached \in BOOLEAN /\ chan \in Seq(Events)
SesTypes ==
    /\ loaded \in BOOLEAN /\ active \in 0..MaxTurns /\ stopping \in 0..MaxTurns /\ spid \in 0..MaxPids
    /\ seen \in Seq(Turns) /\ Len(seen) <= Memory /\ open \subseteq Questions
RowTypes ==
    /\ status \in { "bound", "starting", "error", "releasing", "ended" }
    /\ working \in BOOLEAN /\ asleep \in BOOLEAN
ReqTypes == stored \subseteq Questions /\ announced \in [pid : 0..MaxPids, ids : SUBSET Questions]
LockTypes ==
    /\ lock \in Seq(Commands) /\ call \in 0..MaxTurns
    /\ pc \in { "idle", "adopting", "adopted", "resuming", "ready", "sending", "steering", "stopping", "answering",
                "unloaded", "releasing" }
TimeTypes == timer \in BOOLEAN /\ output \in { "none", "fresh", "done" } /\ news \in BOOLEAN
LossTypes == losing \in BOOLEAN /\ busy \in 0..BusyLimit
CapTypes == given \in 0..MaxCommands /\ boots \in 0..MaxBoots /\ losses \in 0..MaxLosses
HistTypes == told \in [1..MaxPids -> [Questions -> Nat]] /\ ends \in [Turns -> Nat]

LEMMA TypesByGroup ==
  TypeOK <=> /\ ProcTypes /\ LinkTypes /\ SesTypes /\ RowTypes /\ ReqTypes /\ LockTypes /\ TimeTypes /\ LossTypes
             /\ CapTypes /\ HistTypes
BY DEF TypeOK, ProcTypes, LinkTypes, SesTypes, RowTypes, ReqTypes, LockTypes, TimeTypes, LossTypes, CapTypes, HistTypes

LEMMA NextTypesByGroup ==
  ASSUME ProcTypes', LinkTypes', SesTypes', RowTypes', ReqTypes', LockTypes', TimeTypes', LossTypes', CapTypes', HistTypes'
  PROVE  TypeOK'
BY DEF TypeOK, ProcTypes, LinkTypes, SesTypes, RowTypes, ReqTypes, LockTypes, TimeTypes, LossTypes, CapTypes, HistTypes

\* Variables that stay keep their types.
LEMMA SameTypes ==
  /\ ProcTypes /\ UNCHANGED procVars => ProcTypes'
  /\ LinkTypes /\ UNCHANGED linkVars => LinkTypes'
  /\ SesTypes /\ UNCHANGED sesVars => SesTypes'
  /\ RowTypes /\ UNCHANGED rowVars => RowTypes'
  /\ ReqTypes /\ UNCHANGED reqVars => ReqTypes'
  /\ LockTypes /\ UNCHANGED lockVars => LockTypes'
  /\ TimeTypes /\ UNCHANGED timeVars => TimeTypes'
  /\ LossTypes /\ UNCHANGED lossVars => LossTypes'
  /\ CapTypes /\ UNCHANGED capVars => CapTypes'
  /\ HistTypes /\ UNCHANGED histVars => HistTypes'
BY DEF procVars, linkVars, sesVars, rowVars, reqVars, lockVars, timeVars, lossVars, capVars, histVars,
       ProcTypes, LinkTypes, SesTypes, RowTypes, ReqTypes, LockTypes, TimeTypes, LossTypes, CapTypes, HistTypes

LEMMA TurnEventType ==
  ASSUME NEW kind \in { "started", "item", "opened", "closed", "terminal", "error" }, NEW t \in 0..MaxTurns,
         NEW q \in Questions \cup { NoQuestion }
  PROVE  Event(kind, t, q) \in Events /\ TurnEvent(kind, t) \in Events /\ Unusable(t) \in Events
BY DEF Event, TurnEvent, Unusable, Events

LEMMA SaysTypes ==
  ASSUME chan \in Seq(Events), NEW events \in Seq(Events), Says(events)
  PROVE  chan' \in Seq(Events)
BY Joined DEF Says

LEMMA EnqueueTypes ==
  ASSUME lock \in Seq(Commands), NEW cmds \in Seq(Commands), Enqueue(cmds)
  PROVE  lock' \in Seq(Commands)
BY Joined DEF Enqueue

LEMMA CommandType ==
  ASSUME NEW kind \in { "adopt", "reconcile", "lost", "refresh" }
  PROVE  Command(kind) \in Commands /\ << Command(kind) >> \in Seq(Commands)
BY DEF Command, Commands

LEMMA FinishTypes ==
  ASSUME lock \in Seq(Commands), lock # << >>, Finish
  PROVE  lock' \in Seq(Commands) /\ pc' = "idle" /\ call' = 0
BY Rest DEF Finish

\* What a transport says when its connection is gone.
LEMMA LastWordsType ==
  ASSUME TypeOK, NEW b \in BOOLEAN
  PROVE  LastWords(b) \in Seq(Events)
<1> DEFINE qs == SetToSeq(held)
           closed == [i \in DOMAIN qs |-> Event("closed", raisedBy[qs[i]], qs[i])]
<1>1. IsFiniteSet(held) /\ held \subseteq Questions
  BY RowAssumption, FS_Subset DEF TypeOK
<1>2. qs \in Seq(held) /\ DOMAIN qs = 1..Len(qs) /\ Len(qs) \in Nat
  BY <1>1, Listed, LenProperties
<1>3. \A i \in 1..Len(qs) : Event("closed", raisedBy[qs[i]], qs[i]) \in Events
  BY <1>1, <1>2, ElementOfSeq, TurnEventType DEF TypeOK
<1>4. closed \in Seq(Events)
  BY <1>2, <1>3
<1>5. << Unusable(run) >> \in Seq(Events) /\ << TurnEvent("error", 0) >> \in Seq(Events) /\ << >> \in Seq(Events)
  BY TurnEventType, RowAssumption DEF TypeOK
<1> QED BY <1>4, <1>5, Joined DEF LastWords

LEMMA ReopenedType ==
  ASSUME TypeOK
  PROVE  Reopened \in Seq(Events)
<1> DEFINE qs == SetToSeq(held)
<1>1. IsFiniteSet(held) /\ held \subseteq Questions
  BY RowAssumption, FS_Subset DEF TypeOK
<1>2. qs \in Seq(held) /\ DOMAIN qs = 1..Len(qs) /\ Len(qs) \in Nat
  BY <1>1, Listed, LenProperties
<1>3. \A i \in 1..Len(qs) : Event("opened", raisedBy[qs[i]], qs[i]) \in Events
  BY <1>1, <1>2, ElementOfSeq, TurnEventType DEF TypeOK
<1> QED BY <1>2, <1>3 DEF Reopened

LEMMA ProviderTypes ==
  ASSUME TypeOK, Provider
  PROVE  TypeOK'
<1> USE RowAssumption, SameTypes
<1>0. /\ ProcTypes /\ LinkTypes /\ SesTypes /\ RowTypes /\ ReqTypes /\ LockTypes /\ TimeTypes /\ LossTypes
      /\ CapTypes /\ HistTypes
  BY TypesByGroup
<1> USE <1>0
<1>1. CASE ProviderStartsTurn
  <2>1. turns + 1 \in 0..MaxTurns /\ << TurnEvent("started", turns + 1) >> \in Seq(Events)
    BY <1>1, TurnEventType DEF ProviderStartsTurn, TypeOK
  <2>2. chan' \in Seq(Events)
    BY <1>1, <2>1, SaysTypes DEF ProviderStartsTurn, TypeOK
  <2> QED BY <1>1, <2>1, <2>2, NextTypesByGroup DEF ProviderStartsTurn, ProcTypes, LinkTypes, CapTypes
<1>2. CASE ProviderItem
  <2>1. << TurnEvent("item", run) >> \in Seq(Events)
    BY TurnEventType DEF TypeOK
  <2>2. chan' \in Seq(Events)
    BY <1>2, <2>1, SaysTypes DEF ProviderItem, TypeOK
  <2> QED BY <1>2, <2>2, NextTypesByGroup DEF ProviderItem, ProcTypes, LinkTypes, CapTypes
<1>3. CASE ProviderEndsTurn
  <2>1. PICK n \in 1..2 : Says([i \in 1..n |-> TurnEvent("terminal", run)])
    BY <1>3 DEF ProviderEndsTurn
  <2>2. [i \in 1..n |-> TurnEvent("terminal", run)] \in Seq(Events)
    BY TurnEventType DEF TypeOK
  <2>3. chan' \in Seq(Events)
    BY <2>1, <2>2, SaysTypes DEF TypeOK
  <2> QED BY <1>3, <2>3, NextTypesByGroup DEF ProviderEndsTurn, ProcTypes, LinkTypes, CapTypes
<1>4. CASE ProcessDies
  <2>1. chan' \in Seq(Events)
    BY <1>4, LastWordsType, SaysTypes DEF ProcessDies, TypeOK
  <2>2. CapTypes'
    BY <1>4 DEF ProcessDies, CapTypes
  <2>3. attached' = FALSE /\ ProcTypes'
    BY <1>4 DEF ProcessDies, ProcTypes
  <2>4. LinkTypes'
    BY <2>1, <2>3 DEF LinkTypes
  <2> QED BY <1>4, <2>2, <2>3, <2>4, NextTypesByGroup DEF ProcessDies
<1>5. CASE LinkLost
  <2>1. chan' \in Seq(Events)
    BY <1>5, LastWordsType, SaysTypes DEF LinkLost, TypeOK
  <2>2. CapTypes'
    BY <1>5 DEF LinkLost, CapTypes
  <2>3. attached' = FALSE /\ ProcTypes'
    BY <1>5 DEF LinkLost
  <2>4. LinkTypes'
    BY <2>1, <2>3 DEF LinkTypes
  <2> QED BY <1>5, <2>2, <2>3, <2>4, NextTypesByGroup DEF LinkLost
<1>6. ASSUME NEW q \in Questions, ProviderAsks(q) PROVE TypeOK'
  <2>1. << Event("opened", run, q) >> \in Seq(Events)
    BY TurnEventType DEF TypeOK
  <2>2. chan' \in Seq(Events)
    BY <1>6, <2>1, SaysTypes DEF ProviderAsks, TypeOK
  <2> QED BY <1>6, <2>2, NextTypesByGroup DEF ProviderAsks, ProcTypes, LinkTypes, CapTypes
<1>7. ASSUME NEW q \in Questions, ProviderWithdraws(q) PROVE TypeOK'
  <2>1. << Event("closed", raisedBy[q], q) >> \in Seq(Events)
    BY TurnEventType DEF TypeOK
  <2>2. chan' \in Seq(Events)
    BY <1>7, <2>1, SaysTypes DEF ProviderWithdraws, TypeOK
  <2> QED BY <1>7, <2>2, NextTypesByGroup DEF ProviderWithdraws, ProcTypes, LinkTypes, CapTypes
<1> QED BY <1>1, <1>2, <1>3, <1>4, <1>5, <1>6, <1>7 DEF Provider

\* What consume() hands on, and what is left.
LEMMA Arrived ==
  ASSUME TypeOK, Stream, chan # << >>
  PROVE  /\ Tail(chan) \in Seq(Events) /\ Next1 \in Events /\ Next1 = chan[1] /\ EventOK(Next1)
         /\ OfTurn(Next1) => Next1.turn \in Turns
<1>1. Tail(chan) \in Seq(Events) /\ Next1 = chan[1] /\ chan[1] \in Events /\ 1 \in DOMAIN chan
  BY Rest DEF Next1, TypeOK
<1>2. EventOK(chan[1])
  BY <1>1 DEF Stream
<1>3. \A t : t \in 1..turns => t \in Turns
  BY RowAssumption DEF Turns, TypeOK
<1> QED BY <1>1, <1>2, <1>3 DEF EventOK

LEMMA AnnounceTypes ==
  ASSUME ReqTypes, SesTypes, NEW ids \in SUBSET Questions
  PROVE  /\ Announced \subseteq Questions
         /\ Announce(ids) => announced' \in [pid : 0..MaxPids, ids : SUBSET Questions]
BY RowAssumption DEF Announced, Announce, ReqTypes, SesTypes

LEMMA CloseTypes ==
  ASSUME ReqTypes, SesTypes, NEW gone, CloseRequests(gone)
  PROVE  open' \subseteq Questions /\ ReqTypes'
<1>1. open' \subseteq Questions
  BY DEF CloseRequests, SesTypes
<1>2. Announced \ gone \in SUBSET Questions
  BY AnnounceTypes
<1>3. announced' \in [pid : 0..MaxPids, ids : SUBSET Questions]
  BY <1>2, AnnounceTypes DEF CloseRequests, reqVars, ReqTypes
<1>4. stored' \subseteq Questions
  BY DEF CloseRequests, reqVars, ReqTypes, SesTypes
<1> QED BY <1>1, <1>3, <1>4 DEF ReqTypes

LEMMA CountedTypes ==
  ASSUME told \in [1..MaxPids -> [Questions -> Nat]], NEW p \in 1..MaxPids, NEW q \in Questions
  PROVE  [told EXCEPT ![p][q] = @ + 1] \in [1..MaxPids -> [Questions -> Nat]]
<1>1. told[p] \in [Questions -> Nat]
  OBVIOUS
<1>2. told[p][q] + 1 \in Nat
  BY <1>1
<1>3. [told[p] EXCEPT ![q] = @ + 1] \in [Questions -> Nat]
  BY <1>1, <1>2
<1> QED BY <1>3

LEMMA ForgetTypes ==
  ASSUME SesTypes, ReqTypes, Forget
  PROVE  SesTypes' /\ stored' \subseteq Questions
<1>1. loaded' \in BOOLEAN /\ open' \subseteq Questions /\ UNCHANGED << seen, spid >> /\ active' = 0 /\ stopping' = 0
  BY DEF Forget
<1>2. 0 \in 0..MaxTurns
  BY RowAssumption
<1>3. stored' \subseteq Questions
  BY DEF Forget, ReqTypes
<1> QED BY <1>1, <1>2, <1>3 DEF SesTypes

LEMMA RememberTypes ==
  ASSUME SesTypes, NEW t \in Turns
  PROVE  Remember(t) \in Seq(Turns) /\ Len(Remember(t)) <= Memory
<1> DEFINE s == Append(seen, t)
<1>1. s \in Seq(Turns) /\ Len(s) = Len(seen) + 1 /\ s # << >> /\ Len(seen) \in Nat
  BY AppendProperties, LenProperties DEF SesTypes
<1>2. Tail(s) \in Seq(Turns) /\ Len(Tail(s)) = Len(s) - 1
  BY <1>1, Rest
<1>3. Memory \in Nat /\ Len(seen) <= Memory
  BY RowAssumption DEF SesTypes
<1> HIDE DEF s
<1> QED BY <1>1, <1>2, <1>3 DEF Remember, s

\* A turn that begins is not among those that ended.
LEMMA NotSeen ==
  ASSUME TypeOK, Stream, chan # << >>, IsStart(Next1)
  PROVE  Next1.turn \notin Range(seen) /\ RemoveFirst(seen, Next1.turn) = seen
<1>1. Next1 = chan[1] /\ 1 \in DOMAIN chan
  BY Rest DEF Next1, TypeOK
<1>2. \A t \in Range(seen) : t < chan[1].turn /\ t \in Turns
  BY <1>1, RangeOfSeq DEF Stream, TypeOK
<1>3. chan[1].turn \notin Range(seen)
  BY <1>2, RowAssumption DEF Turns
<1>4. ~ \E i \in 1..Len(seen) : seen[i] = chan[1].turn
  <2>1. seen \in Seq(Turns)
    BY DEF TypeOK
  <2>2. Range(seen) = { seen[i] : i \in 1..Len(seen) }
    BY <2>1, RangeEquality
  <2> QED BY <1>3, <2>2
<1> QED BY <1>1, <1>3, <1>4 DEF RemoveFirst

LEMMA HandleTypes ==
  ASSUME TypeOK, Stream, Link, HandleEvent
  PROVE  TypeOK'
<1> USE RowAssumption, SameTypes
<1>0. /\ ProcTypes /\ LinkTypes /\ SesTypes /\ RowTypes /\ ReqTypes /\ LockTypes /\ TimeTypes /\ LossTypes
      /\ CapTypes /\ HistTypes
  BY TypesByGroup
<1> USE <1>0
<1>a. chan # << >> /\ loaded
  BY DEF HandleEvent, HandleStarted, HandleItem, HandleOpened, HandleClosed, HandleTerminal, HandleLastTerminal, HandleError, Arrives
<1>b. Tail(chan) \in Seq(Events) /\ Next1 \in Events /\ EventOK(Next1) /\ (OfTurn(Next1) => Next1.turn \in Turns)
  BY <1>a, Arrived
<1>c. << Command("refresh") >> \in Seq(Commands)
  BY CommandType
<1>d. spid \in 1..MaxPids
  BY <1>a DEF Link, SesTypes
<1>1. CASE HandleStarted
  <2>1. Next1.turn \in Turns /\ seen' = seen
    BY <1>1, <1>a, <1>b, NotSeen DEF HandleStarted, Arrives, OfTurn, IsStart
  <2>2. open' \subseteq Questions /\ ReqTypes'
    BY <1>1, CloseTypes DEF HandleStarted, DropRequests
  <2>3. lock' \in Seq(Commands)
    BY <1>1, <1>c, EnqueueTypes DEF HandleStarted, LockTypes
  <2>4. chan' \in Seq(Events) /\ attached' = attached
    BY <1>1, <1>b DEF HandleStarted, Arrives
  <2>5. RowTypes' /\ TimeTypes'
    BY <1>1 DEF HandleStarted, RowTypes, TimeTypes, Sync
  <2>6. HistTypes'
    BY <1>1, <2>1 DEF HandleStarted, HistTypes
  <2>7. SesTypes'
    BY <1>1, <2>1, <2>2 DEF HandleStarted, SesTypes, Turns
  <2> QED BY <1>1, <2>2, <2>3, <2>4, <2>5, <2>6, <2>7, NextTypesByGroup DEF HandleStarted, LinkTypes, LockTypes
<1>2. CASE HandleItem
  <2>1. chan' \in Seq(Events) /\ attached' = attached
    BY <1>2, <1>b DEF HandleItem, Arrives
  <2>2. RowTypes' /\ TimeTypes'
    BY <1>2 DEF HandleItem, RowTypes, TimeTypes
  <2> QED BY <1>2, <2>1, <2>2, NextTypesByGroup DEF HandleItem, LinkTypes
<1>3. CASE HandleOpened
  <2>1. chan' \in Seq(Events) /\ attached' = attached
    BY <1>3, <1>b DEF HandleOpened, Arrives
  <2>2. Next1.q \in Questions
    <3>1. Next1.kind = "opened"
      BY <1>3 DEF HandleOpened, Arrives
    <3> QED BY <3>1, <1>b DEF EventOK, ProcTypes
  <2>3. Announced \cup { Next1.q } \in SUBSET Questions
    BY <2>2, AnnounceTypes
  <2>4. SesTypes' /\ stored' \subseteq Questions
    BY <1>3, <2>2 DEF HandleOpened, SesTypes, ReqTypes, reqVars
  <2>5. announced' \in [pid : 0..MaxPids, ids : SUBSET Questions]
    BY <1>3, <2>3, AnnounceTypes DEF HandleOpened, ReqTypes, reqVars
  <2>6. HistTypes'
    <3>1. told' = told \/ told' = [told EXCEPT ![spid][Next1.q] = @ + 1]
      BY <1>3 DEF HandleOpened
    <3>a. told \in [1..MaxPids -> [Questions -> Nat]]
      BY DEF HistTypes
    <3>b. [told EXCEPT ![spid][Next1.q] = @ + 1] \in [1..MaxPids -> [Questions -> Nat]]
      BY <3>a, <1>d, <2>2, CountedTypes, Zenon
    <3>2. told' \in [1..MaxPids -> [Questions -> Nat]]
      BY <3>1, <3>a, <3>b, Zenon
    <3> QED BY <1>3, <3>2 DEF HandleOpened, HistTypes
  <2> QED BY <1>3, <2>1, <2>4, <2>5, <2>6, NextTypesByGroup DEF HandleOpened, LinkTypes, ReqTypes
<1>4. CASE HandleClosed
  <2>1. chan' \in Seq(Events) /\ attached' = attached
    BY <1>4, <1>b DEF HandleClosed, Arrives
  <2>2. open' \subseteq Questions /\ ReqTypes'
    BY <1>4, CloseTypes DEF HandleClosed
  <2>3. SesTypes'
    BY <1>4, <2>2 DEF HandleClosed, SesTypes
  <2> QED BY <1>4, <2>1, <2>2, <2>3, NextTypesByGroup DEF HandleClosed, LinkTypes
<1>5. CASE HandleTerminal
  <2>1. Next1.turn \in Turns
    BY <1>5, <1>b DEF HandleTerminal, Arrives, OfTurn
  <2>2. open' \subseteq Questions /\ ReqTypes'
    BY <1>5, CloseTypes DEF HandleTerminal, DropRequests, SesTypes, ReqTypes, reqVars
  <2>3. lock' \in Seq(Commands)
    BY <1>5, <1>c, EnqueueTypes DEF HandleTerminal, LockTypes
  <2>4. chan' \in Seq(Events) /\ attached' = attached
    BY <1>5, <1>b DEF HandleTerminal, Arrives
  <2>5. RowTypes' /\ TimeTypes'
    BY <1>5 DEF HandleTerminal, RowTypes, TimeTypes, Sync
  <2>6. HistTypes'
    BY <1>5, <2>1 DEF HandleTerminal, HistTypes
  <2>7. seen' \in Seq(Turns) /\ Len(seen') <= Memory
    BY <1>5, <2>1, RememberTypes DEF HandleTerminal, SesTypes
  <2>8. active' \in 0..MaxTurns /\ stopping' \in 0..MaxTurns
    BY <1>5 DEF HandleTerminal, SesTypes
  <2>9. SesTypes'
    BY <1>5, <2>2, <2>7, <2>8 DEF HandleTerminal, SesTypes
  <2> QED BY <1>5, <2>2, <2>3, <2>4, <2>5, <2>6, <2>9, NextTypesByGroup DEF HandleTerminal, LinkTypes, LockTypes
<1>6. CASE HandleLastTerminal
  <2>1. Next1.turn \in Turns
    BY <1>6, <1>b DEF HandleLastTerminal, OfTurn
  <2>2. SesTypes' /\ stored' \subseteq Questions
    BY <1>6, ForgetTypes DEF HandleLastTerminal, Lose
  <2>3. lock' \in Seq(Commands)
    BY <1>6, <1>c, EnqueueTypes DEF HandleLastTerminal, LockTypes
  <2>4. chan' \in Seq(Events) /\ attached' = attached /\ LossTypes'
    BY <1>6 DEF HandleLastTerminal, Lose, LossTypes
  <2>5. RowTypes' /\ TimeTypes'
    BY <1>6 DEF HandleLastTerminal, RowTypes, TimeTypes, Sync
  <2>6. HistTypes'
    BY <1>6, <2>1 DEF HandleLastTerminal, HistTypes
  <2>7. announced' \in [pid : 0..MaxPids, ids : SUBSET Questions]
    <3> DEFINE gone == { q \in open \ MessageMode : raisedBy[q] = Next1.turn }
    <3>1. IF gone \cap Announced = {} THEN UNCHANGED announced ELSE Announce(Announced \ gone)
      BY <1>6 DEF HandleLastTerminal
    <3> HIDE DEF gone
    <3>2. Announced \ gone \in SUBSET Questions
      BY AnnounceTypes
    <3> QED BY <3>1, <3>2, AnnounceTypes DEF ReqTypes
  <2> QED BY <1>6, <2>2, <2>3, <2>4, <2>5, <2>6, <2>7, NextTypesByGroup DEF HandleLastTerminal, LinkTypes, LockTypes, ReqTypes
<1>7. CASE HandleError
  <2>1. SesTypes' /\ ReqTypes'
    BY <1>7, ForgetTypes DEF HandleError, Lose, ReqTypes
  <2>2. chan' \in Seq(Events) /\ attached' = attached /\ LossTypes'
    BY <1>7 DEF HandleError, Lose, LossTypes
  <2> QED BY <1>7, <2>1, <2>2, NextTypesByGroup DEF HandleError, LinkTypes
<1> QED BY <1>1, <1>2, <1>3, <1>4, <1>5, <1>6, <1>7 DEF HandleEvent

LEMMA FinishLockTypes ==
  ASSUME LockTypes, lock # << >>, Finish
  PROVE  LockTypes'
BY FinishTypes, RowAssumption DEF LockTypes

\* A command that goes on.
LEMMA StepLockTypes ==
  ASSUME LockTypes, lock' = lock, call' \in 0..MaxTurns,
         pc' \in { "idle", "adopting", "adopted", "resuming", "ready", "sending", "steering", "stopping", "answering",
                   "unloaded", "releasing" }
  PROVE  LockTypes'
BY DEF LockTypes

LEMMA SendTurnTypes ==
  ASSUME TypeOK, lock # << >>, SendTurn, UNCHANGED << pid, pids, held, asked, raisedBy, attached >>
  PROVE  ProcTypes' /\ LinkTypes' /\ LockTypes'
<1>0. ProcTypes /\ LinkTypes /\ LockTypes
  BY TypesByGroup
<1>1. CASE attached /\ run = 0 /\ turns < MaxTurns
  <2>1. turns + 1 \in 0..MaxTurns
    BY <1>0, <1>1, RowAssumption DEF ProcTypes
  <2>2. << TurnEvent("started", turns + 1) >> \in Seq(Events)
    BY <2>1, TurnEventType, RowAssumption
  <2>3. turns' = turns + 1 /\ run' = turns + 1 /\ Says(<< TurnEvent("started", turns + 1) >>)
        /\ pc' = "sending" /\ call' = turns + 1 /\ lock' = lock
    BY <1>1 DEF SendTurn
  <2>4. chan' \in Seq(Events)
    BY <2>2, <2>3, SaysTypes, <1>0 DEF LinkTypes
  <2> QED BY <1>0, <2>1, <2>3, <2>4, StepLockTypes DEF ProcTypes, LinkTypes
<1>2. CASE ~(attached /\ run = 0 /\ turns < MaxTurns)
  BY <1>0, <1>2, FinishLockTypes DEF SendTurn, ProcTypes, LinkTypes
<1> QED BY <1>1, <1>2

LEMMA AnsweredTypes ==
  ASSUME ReqTypes, SesTypes, Answered
  PROVE  open' \subseteq Questions /\ ReqTypes'
<1>1. CASE Running.kind = "answer"
  BY <1>1, CloseTypes DEF Answered
<1>2. CASE Running.kind # "answer"
  BY <1>2 DEF Answered, ReqTypes, SesTypes, reqVars
<1> QED BY <1>1, <1>2

LEMMA RegisterTypes ==
  ASSUME NEW p \in 0..MaxPids, NEW t \in 0..MaxTurns, NEW events \in Seq(Events), Register(p, t, events)
  PROVE  LinkTypes' /\ SesTypes' /\ stored' = {} /\ ends' \in [Turns -> Nat]
<1>1. << >> \in Seq(Turns) /\ Len(<< >>) = 0 /\ 0 \in 0..MaxTurns /\ Len(<< >>) <= Memory
  BY EmptySeq, RowAssumption
<1>2. ends' \in [Turns -> Nat]
  BY DEF Register
<1> QED BY <1>1, <1>2 DEF Register, LinkTypes, SesTypes

LEMMA SettleAndRestoreTypes ==
  ASSUME RowTypes, TimeTypes, LockTypes, lock # << >>, SettleAndRestore
  PROVE  status' \in { "bound", "starting", "error", "releasing", "ended" } /\ working' \in BOOLEAN
         /\ timer' \in BOOLEAN /\ news' \in BOOLEAN /\ LockTypes'
<1>1. working' \in BOOLEAN /\ timer' \in BOOLEAN /\ news' \in BOOLEAN
  BY DEF SettleAndRestore, ConnectionLost, RowTypes, TimeTypes
<1>2. CASE Running.kind = "reconcile" /\ status = "bound"
  BY <1>1, <1>2, FinishLockTypes DEF SettleAndRestore, RowTypes
<1>3. CASE ~(Running.kind = "reconcile" /\ status = "bound")
  <2>1. pc' = "resuming" /\ lock' = lock /\ call' = call /\ status' = IF status = "error" THEN "error" ELSE "starting"
    BY <1>3 DEF SettleAndRestore
  <2> QED BY <1>1, <2>1, StepLockTypes DEF LockTypes
<1> QED BY <1>2, <1>3

LEMMA LoadTypes ==
  ASSUME TypeOK, Control,
         BeginLoad \/ NothingToLoad \/ BeginAdopt \/ AdoptionSettles \/ NoSurvivor \/ SurvivorBusy
  PROVE  TypeOK'
<1> USE RowAssumption, SameTypes
<1>0. /\ ProcTypes /\ LinkTypes /\ SesTypes /\ RowTypes /\ ReqTypes /\ LockTypes /\ TimeTypes /\ LossTypes
      /\ CapTypes /\ HistTypes
  BY TypesByGroup
<1> USE <1>0
<1>h. told' = told /\ ends' = ends => HistTypes'
  BY DEF HistTypes
<1>1. CASE BeginLoad
  <2>1. lock # << >>
    BY <1>1 DEF BeginLoad, AtFront
  <2>2. CASE working /\ Candidate
    BY <1>1, <1>h, <2>2, StepLockTypes, NextTypesByGroup DEF BeginLoad, RowTypes, TimeTypes, LockTypes
  <2>3. CASE ~(working /\ Candidate)
    <3>1. SettleAndRestore
      BY <1>1, <2>3 DEF BeginLoad
    <3> QED BY <1>1, <1>h, <2>1, <3>1, SettleAndRestoreTypes, NextTypesByGroup DEF BeginLoad, RowTypes, TimeTypes
  <2> QED BY <2>2, <2>3
<1>2. CASE NothingToLoad
  <2>1. lock # << >>
    BY <1>2 DEF NothingToLoad, AtFront
  <2> QED BY <1>2, <2>1, FinishLockTypes, NextTypesByGroup DEF NothingToLoad
<1>3. CASE BeginAdopt
  BY <1>3, StepLockTypes, NextTypesByGroup DEF BeginAdopt, LockTypes
<1>4. CASE AdoptionSettles
  <2>1. lock # << >>
    BY <1>4 DEF AdoptionSettles, Control
  <2>2. LockTypes'
    BY <1>4, <2>1, FinishLockTypes, StepLockTypes DEF AdoptionSettles, LockTypes
  <2>3. RowTypes' /\ TimeTypes'
    BY <1>4 DEF AdoptionSettles, RowTypes, TimeTypes, ConnectionLost
  <2> QED BY <1>4, <1>h, <2>2, <2>3, NextTypesByGroup DEF AdoptionSettles
<1>5. ASSUME pc = "adopting", NothingAdopted, UNCHANGED << asleep, output >>
      PROVE  RowTypes' /\ TimeTypes' /\ LockTypes'
  <2>1. lock # << >>
    BY <1>5 DEF Control
  <2>2. CASE Running.kind = "adopt"
    BY <1>5, <2>1, <2>2, FinishLockTypes DEF NothingAdopted, RowTypes, TimeTypes
  <2>3. CASE Running.kind # "adopt"
    BY <1>5, <2>1, <2>3, SettleAndRestoreTypes DEF NothingAdopted, RowTypes, TimeTypes
  <2> QED BY <2>2, <2>3
<1>6. CASE NoSurvivor
  <2>1. LossTypes'
    BY <1>6 DEF NoSurvivor, LossTypes
  <2> QED BY <1>5, <1>6, <1>h, <2>1, NextTypesByGroup DEF NoSurvivor
<1>7. CASE SurvivorBusy
  <2>1. LossTypes'
    BY <1>7 DEF SurvivorBusy, LossTypes
  <2>2. RowTypes' /\ TimeTypes' /\ LockTypes'
    <3>1. lock # << >>
      BY <1>7 DEF SurvivorBusy, Control
    <3>2. CASE busy < BusyLimit
      BY <1>7, <3>1, <3>2, FinishLockTypes DEF SurvivorBusy, RowTypes, TimeTypes
    <3>3. CASE ~(busy < BusyLimit)
      BY <1>5, <1>7, <3>3 DEF SurvivorBusy
    <3> QED BY <3>2, <3>3
  <2> QED BY <1>7, <1>h, <2>1, <2>2, NextTypesByGroup DEF SurvivorBusy
<1> QED BY <1>1, <1>2, <1>3, <1>4, <1>6, <1>7

LEMMA AttachTypes ==
  ASSUME TypeOK, Control, Adopted \/ Resumed \/ ResumeFails
  PROVE  TypeOK'
<1> USE RowAssumption, SameTypes
<1>0. /\ ProcTypes /\ LinkTypes /\ SesTypes /\ RowTypes /\ ReqTypes /\ LockTypes /\ TimeTypes /\ LossTypes
      /\ CapTypes /\ HistTypes
  BY TypesByGroup
<1> USE <1>0
<1>1. lock # << >>
  BY DEF Adopted, Resumed, ResumeFails, Control
<1>2. CASE Adopted
  <2>1. LinkTypes' /\ SesTypes' /\ stored' = {} /\ ends' \in [Turns -> Nat]
    BY <1>2, RegisterTypes, ReopenedType DEF Adopted, ProcTypes
  <2>2. lock' \in Seq(Commands)
    BY <1>2, EnqueueTypes, CommandType DEF Adopted, LockTypes
  <2>3. RowTypes' /\ TimeTypes'
    BY <1>2 DEF Adopted, RowTypes, TimeTypes, Sync
  <2>4. LossTypes' /\ ReqTypes' /\ HistTypes'
    BY <1>2, <2>1 DEF Adopted, LossTypes, ReqTypes, HistTypes
  <2> QED BY <1>2, <2>1, <2>2, <2>3, <2>4, NextTypesByGroup DEF Adopted, LockTypes
<1>3. CASE Resumed
  <2>1. LinkTypes' /\ SesTypes' /\ stored' = {} /\ ends' \in [Turns -> Nat] /\ ProcTypes'
    <3>1. CASE pid # 0
      <4>1. << TurnEvent("started", run) >> \in Seq(Events) /\ << >> \in Seq(Events)
        BY TurnEventType DEF ProcTypes
      <4>2. ((IF run = 0 THEN << >> ELSE << TurnEvent("started", run) >>) \o Reopened) \in Seq(Events)
        BY <4>1, ReopenedType, Joined
      <4>3. Register(pid, 0, (IF run = 0 THEN << >> ELSE << TurnEvent("started", run) >>) \o Reopened)
        BY <1>3, <3>1 DEF Resumed
      <4>4. pid \in 0..MaxPids /\ 0 \in 0..MaxTurns
        BY DEF ProcTypes
      <4>5. LinkTypes' /\ SesTypes' /\ stored' = {} /\ ends' \in [Turns -> Nat]
        BY <4>2, <4>3, <4>4, RegisterTypes
      <4>6. UNCHANGED procVars
        BY <1>3, <3>1 DEF Resumed
      <4> QED BY <4>5, <4>6
    <3>2. CASE pid = 0
      <4>1. pids + 1 \in 0..MaxPids /\ << >> \in Seq(Events) /\ 0 \in 0..MaxTurns
        BY <1>3, <3>2 DEF Resumed, ProcTypes
      <4>2. Register(pids + 1, 0, << >>)
        BY <1>3, <3>2 DEF Resumed
      <4>3. ProcTypes'
        BY <1>3, <3>2, <4>1 DEF Resumed, ProcTypes
      <4> QED BY <4>1, <4>2, <4>3, RegisterTypes
    <3> QED BY <3>1, <3>2
  <2>2. LockTypes'
    BY <1>1, <1>3, FinishLockTypes, StepLockTypes DEF Resumed, LockTypes
  <2>3. RowTypes' /\ ReqTypes' /\ HistTypes'
    BY <1>3, <2>1 DEF Resumed, RowTypes, ReqTypes, HistTypes
  <2> QED BY <1>3, <2>1, <2>2, <2>3, NextTypesByGroup DEF Resumed
<1>4. CASE ResumeFails
  BY <1>1, <1>4, FinishLockTypes, NextTypesByGroup DEF ResumeFails, RowTypes
<1> QED BY <1>2, <1>3, <1>4

LEMMA InputTypes ==
  ASSUME TypeOK, Control, Link,
         SubmitHuman \/ DeliverAutomatic \/ SteerTaken \/ SteerRefused \/ SendResolves \/ SendFails
  PROVE  TypeOK'
<1> USE RowAssumption, SameTypes
<1>0. /\ ProcTypes /\ LinkTypes /\ SesTypes /\ RowTypes /\ ReqTypes /\ LockTypes /\ TimeTypes /\ LossTypes
      /\ CapTypes /\ HistTypes
  BY TypesByGroup
<1> USE <1>0
<1>1. lock # << >>
  BY DEF SubmitHuman, DeliverAutomatic, SteerTaken, SteerRefused, SendResolves, SendFails, Control, Ready, AtFront,
         AnswersByMessage
<1>2. CASE SubmitHuman
  <2>1. CASE loaded /\ active = 0
    <3>1. SendTurn /\ UNCHANGED << pid, pids, held, asked, raisedBy, attached >>
      BY <1>2, <2>1 DEF SubmitHuman
    <3>2. ProcTypes' /\ LinkTypes' /\ LockTypes'
      BY <1>1, <3>1, SendTurnTypes
    <3> QED BY <1>2, <3>2, NextTypesByGroup DEF SubmitHuman
  <2>2. CASE ~(loaded /\ active = 0)
    <3>1. LockTypes'
      BY <1>1, <1>2, <2>2, FinishLockTypes, StepLockTypes DEF SubmitHuman, SesTypes
    <3>2. UNCHANGED << procVars, linkVars >>
      BY <1>2, <2>2 DEF SubmitHuman, procVars, linkVars
    <3> QED BY <1>2, <3>1, <3>2, NextTypesByGroup DEF SubmitHuman
  <2> QED BY <2>1, <2>2
<1>3. CASE DeliverAutomatic
  <2>1. CASE loaded /\ active = 0 /\ open = {}
    <3>1. SendTurn /\ UNCHANGED << pid, pids, held, asked, raisedBy, attached >>
      BY <1>3, <2>1 DEF DeliverAutomatic
    <3>2. ProcTypes' /\ LinkTypes' /\ LockTypes'
      BY <1>1, <3>1, SendTurnTypes
    <3> QED BY <1>3, <3>2, NextTypesByGroup DEF DeliverAutomatic
  <2>2. CASE ~(loaded /\ active = 0 /\ open = {})
    <3>1. LockTypes'
      BY <1>1, <1>3, <2>2, FinishLockTypes DEF DeliverAutomatic
    <3>2. UNCHANGED << procVars, linkVars >>
      BY <1>3, <2>2 DEF DeliverAutomatic, procVars, linkVars
    <3> QED BY <1>3, <3>1, <3>2, NextTypesByGroup DEF DeliverAutomatic
  <2> QED BY <2>1, <2>2
<1>4. CASE SteerTaken
  <2>1. open' \subseteq Questions /\ ReqTypes'
    BY <1>4, AnsweredTypes DEF SteerTaken
  <2>2. SesTypes'
    BY <1>4, <2>1 DEF SteerTaken, SesTypes
  <2>3. LockTypes'
    BY <1>1, <1>4, FinishLockTypes DEF SteerTaken
  <2> QED BY <1>4, <2>1, <2>2, <2>3, NextTypesByGroup DEF SteerTaken
<1>5. CASE SteerRefused
  <2>1. ProcTypes' /\ LinkTypes' /\ LockTypes'
    BY <1>1, <1>5, SendTurnTypes DEF SteerRefused
  <2> QED BY <1>5, <2>1, NextTypesByGroup DEF SteerRefused
<1>6. CASE SendResolves
  <2>1. open' \subseteq Questions /\ ReqTypes'
    BY <1>6, AnsweredTypes DEF SendResolves
  <2>2. SesTypes'
    BY <1>6, <2>1 DEF SendResolves, SesTypes, TurnToOwn, LockTypes
  <2>3. LockTypes'
    BY <1>1, <1>6, FinishLockTypes DEF SendResolves
  <2>4. RowTypes'
    BY <1>6 DEF SendResolves, RowTypes
  <2> QED BY <1>6, <2>1, <2>2, <2>3, <2>4, NextTypesByGroup DEF SendResolves
<1>7. CASE SendFails
  BY <1>1, <1>7, FinishLockTypes, NextTypesByGroup DEF SendFails
<1> QED BY <1>2, <1>3, <1>4, <1>5, <1>6, <1>7

LEMMA StopAndAnswerTypes ==
  ASSUME TypeOK, Control, Process, Link,
         \/ StopUnreachable \/ Interrupt \/ InterruptAccepted \/ InterruptFails
         \/ RespondToNothing \/ Respond \/ RespondSettles \/ RespondFails
  PROVE  TypeOK'
<1> USE RowAssumption, SameTypes
<1>0. /\ ProcTypes /\ LinkTypes /\ SesTypes /\ RowTypes /\ ReqTypes /\ LockTypes /\ TimeTypes /\ LossTypes
      /\ CapTypes /\ HistTypes
  BY TypesByGroup
<1> USE <1>0
<1>1. lock # << >>
  BY DEF StopUnreachable, Interrupt, InterruptAccepted, InterruptFails, RespondToNothing, Respond, RespondSettles,
         RespondFails, Control, AtFront
<1>2. CASE StopUnreachable
  <2>1. RowTypes' /\ TimeTypes' /\ LossTypes'
    <3>1. 0 \in 0..BusyLimit
      OBVIOUS
    <3>2. CASE Live /\ working
      BY <1>2, <3>1, <3>2 DEF StopUnreachable, RowTypes, TimeTypes, LossTypes
    <3>3. CASE ~(Live /\ working)
      BY <1>2, <3>3 DEF StopUnreachable, RowTypes, TimeTypes, LossTypes
    <3> QED BY <3>2, <3>3
  <2> QED BY <1>1, <1>2, <2>1, FinishLockTypes, NextTypesByGroup DEF StopUnreachable
<1>3. CASE Interrupt
  <2> DEFINE turn == IF active # 0 THEN active ELSE IF attached THEN run ELSE 0
  <2>1. turn \in 0..MaxTurns
    BY DEF SesTypes, ProcTypes
  <2>2. IF turn = 0 THEN Finish /\ UNCHANGED stopping
                    ELSE pc' = "stopping" /\ call' = turn /\ stopping' = turn /\ UNCHANGED lock
    BY <1>3 DEF Interrupt
  <2> HIDE DEF turn
  <2>3. LockTypes' /\ stopping' \in 0..MaxTurns
    BY <1>1, <2>1, <2>2, FinishLockTypes, StepLockTypes DEF SesTypes
  <2>4. SesTypes'
    BY <1>3, <2>3 DEF Interrupt, SesTypes
  <2> QED BY <1>3, <2>3, <2>4, NextTypesByGroup DEF Interrupt
<1>4. CASE InterruptAccepted
  <2>1. << TurnEvent("terminal", call) >> \in Seq(Events)
    BY TurnEventType DEF LockTypes
  <2>2. chan' \in Seq(Events)
    BY <1>4, <2>1, SaysTypes DEF InterruptAccepted, LinkTypes
  <2>3. ProcTypes'
    BY <1>4 DEF InterruptAccepted, ProcTypes
  <2>4. LinkTypes'
    BY <1>4, <2>2 DEF InterruptAccepted, LinkTypes
  <2> QED BY <1>1, <1>4, <2>3, <2>4, FinishLockTypes, NextTypesByGroup DEF InterruptAccepted
<1>5. CASE InterruptFails
  <2>1. SesTypes'
    BY <1>5 DEF InterruptFails, SesTypes
  <2> QED BY <1>1, <1>5, <2>1, FinishLockTypes, NextTypesByGroup DEF InterruptFails
<1>6. CASE RespondToNothing
  BY <1>1, <1>6, FinishLockTypes, NextTypesByGroup DEF RespondToNothing
<1>7. CASE Respond
  BY <1>7, StepLockTypes, NextTypesByGroup DEF Respond, LockTypes
<1>8. CASE RespondSettles
  <2>1. open' \subseteq Questions /\ ReqTypes'
    BY <1>8, CloseTypes DEF RespondSettles
  <2>2. SesTypes'
    BY <1>8, <2>1 DEF RespondSettles, SesTypes
  <2>3. ProcTypes'
    BY <1>8 DEF RespondSettles, ProcTypes
  <2> QED BY <1>1, <1>8, <2>1, <2>2, <2>3, FinishLockTypes, NextTypesByGroup DEF RespondSettles
<1>9. CASE RespondFails
  BY <1>1, <1>9, FinishLockTypes, NextTypesByGroup DEF RespondFails
<1> QED BY <1>2, <1>3, <1>4, <1>5, <1>6, <1>7, <1>8, <1>9

LEMMA EndTypes ==
  ASSUME TypeOK, Control,
         Sleep \/ FallAsleep \/ StayAwake \/ BeginRelease \/ AlreadyReleased \/ Released \/ ReleaseFails \/ SettleLoss \/ Refresh
  PROVE  TypeOK'
<1> USE RowAssumption, SameTypes
<1>0. /\ ProcTypes /\ LinkTypes /\ SesTypes /\ RowTypes /\ ReqTypes /\ LockTypes /\ TimeTypes /\ LossTypes
      /\ CapTypes /\ HistTypes
  BY TypesByGroup
<1> USE <1>0
<1>1. lock # << >>
  BY DEF Sleep, FallAsleep, StayAwake, BeginRelease, AlreadyReleased, Released, ReleaseFails, SettleLoss, Refresh,
         Control, AtFront
<1>n. [pid |-> 0, ids |-> {}] \in [pid : 0..MaxPids, ids : SUBSET Questions] /\ 0 \in 0..BusyLimit /\ << >> \in Seq(Events)
  OBVIOUS
<1>p. LeaveProcess /\ UNCHANGED << pids, turns, asked, raisedBy >> => ProcTypes' /\ LinkTypes'
  <2> SUFFICES ASSUME LeaveProcess, UNCHANGED << pids, turns, asked, raisedBy >> PROVE ProcTypes' /\ LinkTypes'
    OBVIOUS
  <2>1. pid' \in 0..MaxPids /\ run' \in 0..MaxTurns /\ held' \subseteq asked
    BY DEF LeaveProcess, ProcTypes
  <2>2. attached' = FALSE /\ chan' = << >>
    BY DEF LeaveProcess
  <2> QED BY <1>n, <2>1, <2>2 DEF ProcTypes, LinkTypes
<1>2. CASE Sleep
  <2>1. SesTypes' /\ ReqTypes'
    BY <1>2, <1>n, ForgetTypes DEF Sleep, ReqTypes
  <2> QED BY <1>2, <1>p, <2>1, StepLockTypes, NextTypesByGroup DEF Sleep, LockTypes
<1>3. CASE FallAsleep
  <2>1. RowTypes' /\ TimeTypes'
    BY <1>3 DEF FallAsleep, RowTypes, TimeTypes
  <2> QED BY <1>1, <1>3, <2>1, FinishLockTypes, NextTypesByGroup DEF FallAsleep
<1>4. CASE StayAwake
  BY <1>1, <1>4, FinishLockTypes, NextTypesByGroup DEF StayAwake
<1>5. CASE BeginRelease
  <2>a. RowTypes'
    BY <1>5 DEF BeginRelease, RowTypes
  <2>b. lock' = lock /\ call' \in {0, 1} /\ pc' = "releasing"
    BY <1>5 DEF BeginRelease
  <2>c. call' \in 0..MaxTurns
    BY <2>b
  <2>1. RowTypes' /\ LockTypes'
    BY <2>a, <2>b, <2>c, StepLockTypes
  <2> QED BY <1>5, <2>1, NextTypesByGroup DEF BeginRelease
<1>6. CASE AlreadyReleased
  BY <1>1, <1>6, FinishLockTypes, NextTypesByGroup DEF AlreadyReleased
<1>7. CASE Released
  <2>1. SesTypes' /\ ReqTypes'
    BY <1>7, <1>n, ForgetTypes DEF Released, ReqTypes
  <2>2. RowTypes' /\ TimeTypes' /\ LossTypes'
    BY <1>7, <1>n DEF Released, RowTypes, TimeTypes, LossTypes
  <2> QED BY <1>1, <1>7, <1>p, <2>1, <2>2, FinishLockTypes, NextTypesByGroup DEF Released
<1>8. CASE ReleaseFails
  <2>1. SesTypes' /\ ReqTypes'
    BY <1>8, <1>n, ForgetTypes DEF ReleaseFails, ReqTypes
  <2>2. RowTypes' /\ LinkTypes'
    BY <1>8, <1>n DEF ReleaseFails, RowTypes, LinkTypes
  <2> QED BY <1>1, <1>8, <2>1, <2>2, FinishLockTypes, NextTypesByGroup DEF ReleaseFails
<1>9. CASE SettleLoss
  <2>1. RowTypes' /\ TimeTypes'
    BY <1>9 DEF SettleLoss, RowTypes, TimeTypes, ConnectionLost
  <2>2. HistTypes'
    BY <1>9 DEF SettleLoss, HistTypes
  <2> QED BY <1>1, <1>9, <2>1, <2>2, FinishLockTypes, NextTypesByGroup DEF SettleLoss
<1>10. CASE Refresh
  <2>1. RowTypes' /\ TimeTypes'
    BY <1>10 DEF Refresh, RowTypes, TimeTypes, Sync
  <2> QED BY <1>1, <1>10, <2>1, FinishLockTypes, NextTypesByGroup DEF Refresh
<1> QED BY <1>2, <1>3, <1>4, <1>5, <1>6, <1>7, <1>8, <1>9, <1>10

LEMMA AloneTypes ==
  ASSUME TypeOK,
         \/ ReportLoss \/ TimerFires \/ Reconcile \/ Restart
         \/ \E kind \in Kinds, q \in Questions \cup { NoQuestion } : Ask(kind, q)
  PROVE  TypeOK'
<1> USE RowAssumption, SameTypes
<1>0. /\ ProcTypes /\ LinkTypes /\ SesTypes /\ RowTypes /\ ReqTypes /\ LockTypes /\ TimeTypes /\ LossTypes
      /\ CapTypes /\ HistTypes
  BY TypesByGroup
<1> USE <1>0
<1>1. CASE ReportLoss
  <2>1. lock' \in Seq(Commands)
    BY <1>1, EnqueueTypes, CommandType DEF ReportLoss, LockTypes
  <2>2. LockTypes' /\ LossTypes'
    BY <1>1, <2>1 DEF ReportLoss, LockTypes, LossTypes
  <2> QED BY <1>1, <2>2, NextTypesByGroup DEF ReportLoss
<1>2. CASE TimerFires
  <2>1. RowTypes' /\ TimeTypes'
    BY <1>2 DEF TimerFires, RowTypes, TimeTypes
  <2> QED BY <1>2, <2>1, NextTypesByGroup DEF TimerFires
<1>3. CASE Reconcile
  <2>1. LockTypes'
    BY <1>3, CommandType DEF Reconcile, LockTypes
  <2> QED BY <1>3, <2>1, NextTypesByGroup DEF Reconcile
<1>4. CASE Restart
  <2>1. << >> \in Seq(Turns) /\ Len(<< >>) = 0 /\ 0 \in 0..MaxTurns /\ Len(<< >>) <= Memory /\ 0 \in 0..BusyLimit
        /\ << >> \in Seq(Events) /\ << >> \in Seq(Commands) /\ 0 \in 0..MaxPids
    BY EmptySeq
  <2>2. SesTypes' /\ ReqTypes'
    BY <1>4, <2>1 DEF Restart, SesTypes, ReqTypes
  <2>3. lock' \in Seq(Commands)
    BY <1>4, <2>1, CommandType DEF Restart
  <2>4. LockTypes' /\ LinkTypes'
    BY <1>4, <2>1, <2>3 DEF Restart, LockTypes, LinkTypes
  <2>5. TimeTypes' /\ LossTypes'
    BY <1>4, <2>1 DEF Restart, TimeTypes, LossTypes
  <2>6. ProcTypes' /\ CapTypes'
    BY <1>4 DEF Restart, ProcTypes, CapTypes
  <2>7. HistTypes'
    BY <1>4 DEF Restart, HistTypes
  <2> QED BY <1>4, <2>2, <2>4, <2>5, <2>6, <2>7, NextTypesByGroup DEF Restart
<1>5. ASSUME NEW kind \in Kinds, NEW q \in Questions \cup { NoQuestion }, Ask(kind, q) PROVE TypeOK'
  <2>1. [kind |-> kind, q |-> q] \in Commands
    BY DEF Commands
  <2>2. lock' \in Seq(Commands)
    BY <1>5, <2>1, AppendProperties DEF Ask, LockTypes
  <2>3. LockTypes' /\ CapTypes'
    BY <1>5, <2>2 DEF Ask, LockTypes, CapTypes
  <2> QED BY <1>5, <2>3, NextTypesByGroup DEF Ask
<1> QED BY <1>1, <1>2, <1>3, <1>4, <1>5

LEMMA NextTypes ==
  ASSUME TypeOK, Process, Stream, Link, Control, [Next]_vars
  PROVE  TypeOK'
<1>1. CASE Next
  BY <1>1, ProviderTypes, HandleTypes, LoadTypes, AttachTypes, InputTypes, StopAndAnswerTypes, EndTypes, AloneTypes
     DEF Next, RunCommand
<1>2. CASE UNCHANGED vars
  BY <1>2, TypesByGroup, SameTypes, NextTypesByGroup DEF vars
<1> QED BY <1>1, <1>2

-----------------------------------------------------------------------------
(***************************************************************************)
(* The running command.                                                    *)
(***************************************************************************)

\* Waiting commands keep their places.
LEMMA QueueKept ==
  ASSUME TypeOK, NEW cmds \in Seq(Commands), Enqueue(cmds)
  PROVE  /\ \A i \in DOMAIN lock : i \in DOMAIN lock' /\ lock'[i] = lock[i]
         /\ lock # << >> => lock' # << >> /\ Head(lock') = Head(lock)
<1>1. lock \in Seq(Commands)
  BY DEF TypeOK
<1>2. \A i \in DOMAIN lock : i \in DOMAIN lock' /\ lock'[i] = lock[i]
  BY <1>1, Joined DEF Enqueue
<1>3. ASSUME lock # << >> PROVE lock' # << >> /\ Head(lock') = Head(lock)
  <2>1. 1 \in DOMAIN lock /\ Head(lock) = lock[1]
    BY <1>1, <1>3, Rest
  <2>2. 1 \in DOMAIN lock' /\ lock'[1] = lock[1]
    BY <1>2, <2>1
  <2>3. lock' \in Seq(Commands)
    BY <1>1, EnqueueTypes
  <2>4. lock' # << >>
    BY <2>2
  <2> QED BY <2>1, <2>2, <2>3, <2>4, Rest
<1> QED BY <1>2, <1>3

LEMMA RefreshKept ==
  ASSUME TypeOK, Enqueue(<< Command("refresh") >>)
  PROVE  /\ \A i \in DOMAIN lock : i \in DOMAIN lock' /\ lock'[i] = lock[i]
         /\ lock # << >> => lock' # << >> /\ Head(lock') = Head(lock)
BY QueueKept, CommandType

\* Events, the timer and what waits leave the running command where it is.
LEMMA ControlStays ==
  ASSUME TypeOK, Control, UNCHANGED << pc, call, status >>, lock # << >> => lock' # << >>,
         turns' \in Nat, turns <= turns', loaded' => loaded, working' => working \/ (loaded /\ Live)
  PROVE  Control'
<1>1. turns \in Nat /\ turns' \in Nat
  BY RowAssumption DEF TypeOK
<1>2. call \in 1..turns => call \in 1..turns'
  BY <1>1
<1> QED BY <1>2 DEF Control, Live

\* A command that ends.
LEMMA ControlEnds ==
  ASSUME TypeOK, Control, pc' = "idle", status' = status, pc # "releasing", loaded' => loaded, working' => working \/ Live
  PROVE  Control'
BY DEF Control, Live

LEMMA ProviderControl ==
  ASSUME TypeOK, Control, Provider
  PROVE  Control'
<1>1. UNCHANGED << pc, call, status, lock, loaded, working >>
  BY DEF Provider, ProviderStartsTurn, ProviderItem, ProviderEndsTurn, ProcessDies, LinkLost, ProviderAsks, ProviderWithdraws,
         procVars, sesVars, rowVars, lockVars
<1>2. turns' \in {turns, turns + 1}
  BY DEF Provider, ProviderStartsTurn, ProviderItem, ProviderEndsTurn, ProcessDies, LinkLost, ProviderAsks, ProviderWithdraws,
         procVars
<1>3. turns' \in Nat /\ turns <= turns'
  BY <1>2, RowAssumption DEF TypeOK
<1> QED BY <1>1, <1>3, ControlStays

LEMMA HandleControl ==
  ASSUME TypeOK, Stream, Control, HandleEvent
  PROVE  Control'
<1>1. UNCHANGED << pc, call, status, turns >> /\ loaded
  BY DEF HandleEvent, HandleStarted, HandleItem, HandleOpened, HandleClosed, HandleTerminal, HandleLastTerminal, HandleError,
         Arrives, procVars, rowVars, lockVars
<1>2. working' => working \/ Live
  BY DEF HandleEvent, HandleStarted, HandleItem, HandleOpened, HandleClosed, HandleTerminal, HandleLastTerminal, HandleError,
         rowVars
<1>3. lock' = lock \/ Enqueue(<< Command("refresh") >>)
  BY DEF HandleEvent, HandleStarted, HandleItem, HandleOpened, HandleClosed, HandleTerminal, HandleLastTerminal, HandleError,
         lockVars
<1>4. lock # << >> => lock' # << >>
  BY <1>3, RefreshKept
<1>5. turns \in Nat
  BY RowAssumption DEF TypeOK
<1>6. turns' \in Nat /\ turns <= turns'
  BY <1>1, <1>5
<1> QED BY <1>1, <1>2, <1>4, <1>6, ControlStays

LEMMA AloneControl ==
  ASSUME TypeOK, Control,
         \/ ReportLoss \/ TimerFires \/ Reconcile \/ Restart
         \/ \E kind \in Kinds, q \in Questions \cup { NoQuestion } : Ask(kind, q)
  PROVE  Control'
<1>0. turns \in Nat /\ turns <= turns
  BY RowAssumption DEF TypeOK
<1>1. CASE ReportLoss
  <2>1. lock # << >> => lock' # << >>
    BY <1>1, QueueKept, CommandType DEF ReportLoss
  <2>2. UNCHANGED << pc, call, status, turns, loaded, working >>
    BY <1>1 DEF ReportLoss, procVars, sesVars, rowVars
  <2> QED BY <1>0, <2>1, <2>2, ControlStays
<1>2. CASE TimerFires
  <2>1. UNCHANGED << pc, call, lock, status, turns, loaded >> /\ (working' => working)
    BY <1>2 DEF TimerFires, procVars, sesVars, lockVars
  <2> QED BY <1>0, <2>1, ControlStays
<1>3. CASE Reconcile
  <2>1. UNCHANGED << pc, call, status, turns, loaded, working >> /\ lock = << >>
    BY <1>3 DEF Reconcile, procVars, sesVars, rowVars
  <2> QED BY <1>0, <2>1, ControlStays
<1>4. CASE Restart
  BY <1>4 DEF Restart, Control, Live, rowVars
<1>5. ASSUME NEW kind \in Kinds, NEW q \in Questions \cup { NoQuestion }, Ask(kind, q) PROVE Control'
  <2>1. UNCHANGED << pc, call, status, turns, loaded, working >>
    BY <1>5 DEF Ask, procVars, sesVars, rowVars
  <2>2. lock' # << >>
    <3>1. [kind |-> kind, q |-> q] \in Commands /\ lock \in Seq(Commands)
      BY DEF Commands, TypeOK
    <3> QED BY <1>5, <3>1, AppendProperties DEF Ask
  <2> QED BY <1>0, <2>1, <2>2, ControlStays
<1> QED BY <1>1, <1>2, <1>3, <1>4, <1>5

LEMMA LoadControl ==
  ASSUME TypeOK, Control, Link,
         \/ BeginLoad \/ NothingToLoad \/ BeginAdopt \/ Adopted \/ AdoptionSettles \/ NoSurvivor \/ SurvivorBusy
         \/ Resumed \/ ResumeFails
  PROVE  Control'
<1>s. ASSUME SettleAndRestore, status \in { "bound", "starting", "error" }, ~loaded, UNCHANGED loaded, lock # << >>
      PROVE  Control'
  <2>1. ~working'
    BY <1>s DEF SettleAndRestore, ConnectionLost
  <2>2. CASE Running.kind = "reconcile" /\ status = "bound"
    BY <1>s, <2>1, <2>2 DEF SettleAndRestore, Finish, Control, Live
  <2>3. CASE ~(Running.kind = "reconcile" /\ status = "bound")
    <3>1. pc' = "resuming" /\ status' \in { "error", "starting" } /\ lock' = lock
      BY <1>s, <2>3 DEF SettleAndRestore
    <3> QED BY <1>s, <2>1, <3>1 DEF Control, Live
  <2> QED BY <2>2, <2>3
<1>1. CASE BeginLoad
  <2>1. lock # << >> /\ ~loaded /\ UNCHANGED loaded /\ status \in { "bound", "starting", "error" }
    BY <1>1 DEF BeginLoad, AtFront, Live, sesVars, TypeOK
  <2>2. CASE working /\ Candidate
    BY <1>1, <2>1, <2>2 DEF BeginLoad, Control, Live, Candidate
  <2>3. CASE ~(working /\ Candidate)
    BY <1>1, <1>s, <2>1, <2>3 DEF BeginLoad
  <2> QED BY <2>2, <2>3
<1>2. CASE NothingToLoad
  <2>1. pc' = "idle" /\ pc = "idle" /\ UNCHANGED << status, loaded, working >>
    BY <1>2 DEF NothingToLoad, Finish, AtFront, rowVars, sesVars
  <2> QED BY <2>1, ControlEnds
<1>3. CASE BeginAdopt
  BY <1>3 DEF BeginAdopt, AtFront, Control, Live, Candidate, rowVars, sesVars
<1>4. CASE Adopted
  <2>1. lock' # << >>
    BY <1>4, RefreshKept DEF Adopted, Control
  <2> QED BY <1>4, <2>1 DEF Adopted, Control, Live
<1>5. CASE AdoptionSettles
  <2>1. UNCHANGED << status, loaded >> /\ pc = "adopted" /\ (working' => working)
    BY <1>5 DEF AdoptionSettles, ConnectionLost, sesVars
  <2>2. CASE Running.kind \in { "adopt", "poll", "reconcile" }
    <3>1. pc' = "idle"
      BY <1>5, <2>2 DEF AdoptionSettles, Finish
    <3> QED BY <2>1, <3>1, ControlEnds
  <2>3. CASE Running.kind \notin { "adopt", "poll", "reconcile" }
    <3>1. pc' = "ready" /\ lock' = lock
      BY <1>5, <2>3 DEF AdoptionSettles
    <3> QED BY <2>1, <3>1 DEF Control, Live
  <2> QED BY <2>2, <2>3
<1>n. ASSUME pc = "adopting", NothingAdopted, UNCHANGED loaded PROVE Control'
  <2>1. lock # << >> /\ ~loaded /\ status = "bound"
    BY <1>n DEF Control
  <2>2. CASE Running.kind = "adopt"
    <3>1. pc' = "idle" /\ UNCHANGED << status, working >>
      BY <1>n, <2>2 DEF NothingAdopted, Finish
    <3> QED BY <1>n, <3>1, ControlEnds
  <2>3. CASE Running.kind # "adopt"
    BY <1>n, <1>s, <2>1, <2>3 DEF NothingAdopted
  <2> QED BY <2>2, <2>3
<1>6. CASE NoSurvivor
  BY <1>6, <1>n DEF NoSurvivor, sesVars
<1>7. CASE SurvivorBusy
  <2>1. CASE busy < BusyLimit
    <3>1. pc' = "idle" /\ pc = "adopting" /\ UNCHANGED << status, loaded, working >>
      BY <1>7, <2>1 DEF SurvivorBusy, Finish, sesVars
    <3> QED BY <3>1, ControlEnds
  <2>2. CASE ~(busy < BusyLimit)
    BY <1>7, <1>n, <2>2 DEF SurvivorBusy, sesVars
  <2> QED BY <2>1, <2>2
<1>8. CASE Resumed
  BY <1>8 DEF Resumed, Finish, Control, Live
<1>9. CASE ResumeFails
  BY <1>9 DEF ResumeFails, Finish, Control, Live, sesVars
<1> QED BY <1>1, <1>2, <1>3, <1>4, <1>5, <1>6, <1>7, <1>8, <1>9

LEMMA InputControl ==
  ASSUME TypeOK, Control, Link,
         SubmitHuman \/ DeliverAutomatic \/ SteerTaken \/ SteerRefused \/ SendResolves \/ SendFails
  PROVE  Control'
<1>1. lock # << >> /\ pc # "releasing"
  BY DEF SubmitHuman, DeliverAutomatic, SteerTaken, SteerRefused, SendResolves, SendFails, Control, Ready, AtFront,
         AnswersByMessage
<1>2. UNCHANGED status /\ loaded' = loaded
  BY DEF SubmitHuman, DeliverAutomatic, SteerTaken, SteerRefused, SendResolves, SendFails, rowVars, sesVars
<1>3. working' => working \/ Live
  BY DEF SubmitHuman, DeliverAutomatic, SteerTaken, SteerRefused, SendResolves, SendFails, rowVars
<1>4. CASE pc' = "idle"
  BY <1>1, <1>2, <1>3, <1>4, ControlEnds
<1>5. ASSUME SendTurn, pc' # "idle", Live, UNCHANGED working PROVE Control'
  <2>1. pc' = "sending" /\ call' = turns + 1 /\ turns' = turns + 1 /\ lock' = lock
    BY <1>5 DEF SendTurn, Finish
  <2>2. turns + 1 \in 1..turns + 1
    BY RowAssumption DEF TypeOK
  <2>3. call' \in 1..turns'
    BY <2>1, <2>2
  <2> QED BY <1>1, <1>2, <1>5, <2>1, <2>3 DEF Control, Live
<1>6. CASE pc' # "idle"
  <2>1. CASE SubmitHuman
    <3>1. loaded
      BY <1>6, <2>1 DEF SubmitHuman, Finish
    <3>2. Live /\ UNCHANGED working
      BY <1>1, <2>1, <3>1 DEF SubmitHuman, Control, Live, rowVars
    <3>3. CASE SendTurn
      BY <1>5, <1>6, <3>2, <3>3
    <3>4. CASE ~SendTurn
      BY <1>1, <1>2, <1>6, <2>1, <3>2, <3>4 DEF SubmitHuman, Finish, Control, Live
    <3> QED BY <3>3, <3>4
  <2>2. CASE DeliverAutomatic
    <3>1. loaded /\ SendTurn
      BY <1>6, <2>2 DEF DeliverAutomatic, Finish
    <3>2. Live /\ UNCHANGED working
      BY <1>1, <2>2, <3>1 DEF DeliverAutomatic, Control, Live, rowVars
    <3> QED BY <1>5, <1>6, <3>1, <3>2
  <2>3. CASE SteerRefused
    <3>1. Live /\ UNCHANGED working
      BY <2>3 DEF SteerRefused, Control, rowVars
    <3> QED BY <1>5, <1>6, <2>3, <3>1 DEF SteerRefused
  <2> QED BY <1>6, <2>1, <2>2, <2>3 DEF SteerTaken, SendResolves, SendFails, Finish
<1> QED BY <1>4, <1>6

LEMMA OtherControl ==
  ASSUME TypeOK, Control, Link,
         \/ StopUnreachable \/ Interrupt \/ InterruptAccepted \/ InterruptFails
         \/ RespondToNothing \/ Respond \/ RespondSettles \/ RespondFails
         \/ Sleep \/ FallAsleep \/ StayAwake \/ BeginRelease \/ AlreadyReleased \/ Released \/ ReleaseFails
         \/ SettleLoss \/ Refresh
  PROVE  Control'
<1>1. CASE StopUnreachable \/ InterruptAccepted \/ InterruptFails \/ RespondToNothing \/ RespondSettles \/ RespondFails
             \/ StayAwake \/ AlreadyReleased \/ SettleLoss \/ FallAsleep
  <2>1. pc' = "idle" /\ UNCHANGED << status, loaded >> /\ pc # "releasing"
    BY <1>1 DEF StopUnreachable, InterruptAccepted, InterruptFails, RespondToNothing, RespondSettles, RespondFails,
         StayAwake, AlreadyReleased, SettleLoss, FallAsleep, Finish, AtFront, rowVars, sesVars
  <2>2. working' => working
    BY <1>1 DEF StopUnreachable, InterruptAccepted, InterruptFails, RespondToNothing, RespondSettles, RespondFails,
         StayAwake, AlreadyReleased, SettleLoss, FallAsleep, ConnectionLost, rowVars
  <2> QED BY <2>1, <2>2, ControlEnds
<1>2. CASE Interrupt \/ Respond
  BY <1>2 DEF Interrupt, Respond, Finish, AtFront, Control, Live, rowVars, sesVars
<1>3. CASE Sleep
  BY <1>3 DEF Sleep, AtFront, MaySleep, Forget, Control, Live, rowVars
<1>4. CASE BeginRelease
  BY <1>4 DEF BeginRelease, AtFront, Control, Live, sesVars
<1>5. CASE Released
  BY <1>5 DEF Released, Forget, Finish, Control, Live
<1>6. CASE ReleaseFails
  BY <1>6 DEF ReleaseFails, Forget, Finish, Control, Live
<1>7. CASE Refresh
  <2>1. pc' = "idle" /\ UNCHANGED << status, loaded >> /\ pc = "idle"
    BY <1>7 DEF Refresh, Finish, AtFront, sesVars
  <2>2. working' => working \/ Live
    BY <1>7 DEF Refresh, Live
  <2> QED BY <2>1, <2>2, ControlEnds
<1> QED BY <1>1, <1>2, <1>3, <1>4, <1>5, <1>6, <1>7

LEMMA NextControl ==
  ASSUME TypeOK, Stream, Control, Link, [Next]_vars
  PROVE  Control'
<1>1. CASE Next
  BY <1>1, ProviderControl, HandleControl, AloneControl, LoadControl, InputControl, OtherControl DEF Next, RunCommand
<1>2. CASE UNCHANGED vars
  BY <1>2 DEF vars, procVars, sesVars, rowVars, lockVars, Control, Live
<1> QED BY <1>1, <1>2

-----------------------------------------------------------------------------
(***************************************************************************)
(* No process is left.                                                     *)
(***************************************************************************)

\* A step that starts no process, puts nothing to sleep and releases nothing.
LEMMA NoneLeftStays ==
  ASSUME NoneLeft, Control, pid' \in { pid, 0 }, UNCHANGED asleep,
         status' = status \/ status' \notin { "releasing", "ended" },
         pc' = pc \/ (pc # "releasing" /\ pc' # "unloaded")
  PROVE  NoneLeft'
BY DEF NoneLeft, Control

LEMMA NextNoneLeft ==
  ASSUME TypeOK, Link, Control, NoneLeft, [Next]_vars
  PROVE  NoneLeft'
<1>1. CASE Provider
  <2>1. pid' \in { pid, 0 } /\ UNCHANGED << asleep, status, pc >>
    BY <1>1 DEF Provider, ProviderStartsTurn, ProviderItem, ProviderEndsTurn, ProcessDies, LinkLost, ProviderAsks,
                ProviderWithdraws, procVars, rowVars, lockVars
  <2> QED BY <2>1, NoneLeftStays
<1>2. CASE HandleEvent
  <2>1. UNCHANGED << pid, asleep, status, pc >>
    BY <1>2 DEF HandleEvent, HandleStarted, HandleItem, HandleOpened, HandleClosed, HandleTerminal, HandleLastTerminal,
                HandleError, procVars, rowVars, lockVars
  <2> QED BY <2>1, NoneLeftStays
<1>3. CASE ReportLoss \/ TimerFires \/ Reconcile \/ \E kind \in Kinds, q \in Questions \cup { NoQuestion } : Ask(kind, q)
  <2>1. UNCHANGED << pid, asleep, status, pc >>
    BY <1>3 DEF ReportLoss, TimerFires, Reconcile, Ask, procVars, rowVars, lockVars
  <2> QED BY <2>1, NoneLeftStays
<1>4. CASE Restart
  BY <1>4 DEF Restart, NoneLeft, Live, rowVars
<1>5. CASE BeginLoad \/ NothingToLoad \/ BeginAdopt \/ Adopted \/ AdoptionSettles \/ NoSurvivor \/ SurvivorBusy \/ ResumeFails
  <2>1. SettleAndRestore /\ (status # "ended" /\ status # "releasing") /\ pc # "releasing"
          => (status' = status \/ status' \notin { "releasing", "ended" }) /\ pc' # "unloaded"
    BY DEF SettleAndRestore, Finish
  <2>2. NothingAdopted /\ pc = "adopting"
          => (status' = status \/ status' \notin { "releasing", "ended" }) /\ pc' # "unloaded"
    BY <2>1 DEF NothingAdopted, Finish, Control
  <2>3. UNCHANGED << pid, asleep >>
    BY <1>5 DEF BeginLoad, NothingToLoad, BeginAdopt, Adopted, AdoptionSettles, NoSurvivor, SurvivorBusy, ResumeFails,
                procVars, rowVars
  <2>4. pc # "releasing" /\ pc' # "unloaded" /\ (status' = status \/ status' \notin { "releasing", "ended" })
    <3>1. CASE BeginLoad
      BY <2>1, <3>1 DEF BeginLoad, AtFront, Live
    <3>2. CASE NothingToLoad \/ BeginAdopt
      BY <3>2 DEF NothingToLoad, BeginAdopt, AtFront, Finish, rowVars
    <3>3. CASE Adopted \/ AdoptionSettles \/ ResumeFails
      BY <3>3 DEF Adopted, AdoptionSettles, ResumeFails, Finish
    <3>4. CASE NoSurvivor
      BY <2>2, <3>4 DEF NoSurvivor
    <3>5. CASE SurvivorBusy
      BY <2>2, <3>5 DEF SurvivorBusy, Finish
    <3> QED BY <1>5, <3>1, <3>2, <3>3, <3>4, <3>5
  <2> QED BY <2>3, <2>4, NoneLeftStays
<1>6. CASE Resumed
  BY <1>6 DEF Resumed, NoneLeft, Finish
<1>7. CASE SubmitHuman \/ DeliverAutomatic \/ SteerTaken \/ SteerRefused \/ SendResolves \/ SendFails
  <2>1. UNCHANGED << pid, asleep, status >> /\ pc # "releasing" /\ pc' # "unloaded"
    BY <1>7 DEF SubmitHuman, DeliverAutomatic, SteerTaken, SteerRefused, SendResolves, SendFails, SendTurn, Finish, Ready,
                AtFront, AnswersByMessage, procVars, rowVars
  <2> QED BY <2>1, NoneLeftStays
<1>8. CASE StopUnreachable \/ Interrupt \/ InterruptAccepted \/ InterruptFails \/ RespondToNothing \/ Respond
             \/ RespondSettles \/ RespondFails \/ StayAwake \/ AlreadyReleased \/ SettleLoss \/ Refresh
  <2>1. UNCHANGED << pid, asleep, status >> /\ pc # "releasing" /\ pc' # "unloaded"
    BY <1>8 DEF StopUnreachable, Interrupt, InterruptAccepted, InterruptFails, RespondToNothing, Respond, RespondSettles,
                RespondFails, StayAwake, AlreadyReleased, SettleLoss, Refresh, Finish, AtFront, procVars, rowVars
  <2> QED BY <2>1, NoneLeftStays
<1>9. CASE Sleep \/ Released
  BY <1>9 DEF Sleep, Released, LeaveProcess, NoneLeft
<1>10. CASE FallAsleep
  BY <1>10 DEF FallAsleep, NoneLeft, procVars
<1>11. CASE BeginRelease
  BY <1>11 DEF BeginRelease, AtFront, NoneLeft, procVars
<1>12. CASE ReleaseFails
  BY <1>12 DEF ReleaseFails, Finish, NoneLeft, procVars
<1>13. CASE UNCHANGED vars
  BY <1>13 DEF vars, procVars, rowVars, lockVars, NoneLeft
<1> QED BY <1>1, <1>2, <1>3, <1>4, <1>5, <1>6, <1>7, <1>8, <1>9, <1>10, <1>11, <1>12, <1>13 DEF Next, RunCommand

-----------------------------------------------------------------------------
(***************************************************************************)
(* What a step does to the provider, the connection and the session.       *)
(***************************************************************************)
convVars == << pid, pids, run, turns, held, asked, raisedBy, attached, chan, loaded, active, seen, open, spid, stored,
               announced, told, ends >>

SessionStays == UNCHANGED << loaded, active, seen, open, spid, stored, announced, told, ends >>

TurnBegins ==
    /\ pid # 0 /\ run = 0 /\ turns < MaxTurns /\ turns' = turns + 1 /\ run' = turns + 1
    /\ Says(<< TurnEvent("started", turns + 1) >>)
    /\ UNCHANGED << pid, pids, held, asked, raisedBy, attached >> /\ SessionStays

TurnEnds ==
    /\ run # 0 /\ run' = 0 /\ held' = {}
    /\ \E n \in 1..2 : Says([i \in 1..n |-> TurnEvent("terminal", run)])
    /\ UNCHANGED << pid, pids, turns, asked, raisedBy, attached >> /\ SessionStays

\* A session attaches to the process that runs, adopting its turn or being told of it.
Attaches ==
    /\ ~loaded /\ pid # 0
    /\ \/ Register(pid, run, Reopened)
       \/ Register(pid, 0, (IF run = 0 THEN << >> ELSE << TurnEvent("started", run) >>) \o Reopened)
    /\ UNCHANGED << procVars, announced, told >>

Launches ==
    /\ ~loaded /\ pid = 0 /\ pids < MaxPids
    /\ pid' = pids + 1 /\ pids' = pids + 1 /\ run' = 0 /\ held' = {} /\ asked' = {}
    /\ raisedBy' = [q \in Questions |-> 0]
    /\ Register(pids + 1, 0, << >>)
    /\ UNCHANGED << turns, announced, told >>

\* The session goes, and a turn with it or not.
Leaves ==
    /\ loaded' = FALSE /\ active' = 0 /\ open' = {} /\ stored' = {} /\ attached' = FALSE /\ chan' = << >>
    /\ seen' = seen \/ seen' = << >>
    /\ ends' = ends \/ ends' = [t \in Turns |-> 0]
    /\ UNCHANGED << pids, turns, asked, raisedBy, told >>
    /\ \/ UNCHANGED << pid, run, held >>
       \/ run' = 0 /\ held' = {} /\ ((pid' = 0 /\ PerSession) \/ pid' = pid)
    /\ PerSession \/ UNCHANGED announced \/ held' = {} \/ status' = "ended"

\* A question was answered, by a message or otherwise; the send may have made its turn the active one.
Settles(q) ==
    /\ q \in MessageMode \/ ~HasOpen(q)
    /\ held' = held \ {q} /\ CloseRequests({q})
    /\ active' = active \/ (pc = "sending" /\ active' = TurnToOwn)
    /\ UNCHANGED << pid, pids, run, turns, asked, raisedBy, attached, chan, loaded, seen, spid, told, ends >>

Owns ==
    /\ pc = "sending" /\ active' = TurnToOwn
    /\ UNCHANGED << procVars, linkVars, loaded, seen, open, spid, stored, announced, told, ends >>

ProviderSteps ==
    \/ TurnBegins \/ ProviderItem \/ TurnEnds \/ ProcessDies \/ LinkLost
    \/ \E q \in Questions : ProviderAsks(q) \/ ProviderWithdraws(q)

SessionSteps == Attaches \/ Launches \/ Leaves \/ (\E q : Settles(q)) \/ Owns

LEMMA ProviderKinds ==
  ASSUME Provider
  PROVE  ProviderSteps
<1>1. CASE ProviderStartsTurn
  BY <1>1 DEF ProviderStartsTurn, ProviderSteps, TurnBegins, SessionStays, sesVars, reqVars, histVars
<1>2. CASE ProviderEndsTurn
  BY <1>2 DEF ProviderEndsTurn, ProviderSteps, TurnEnds, SessionStays, sesVars, reqVars, histVars
<1> QED BY <1>1, <1>2 DEF Provider, ProviderSteps

LEMMA SendTurnKinds ==
  ASSUME Link, SendTurn, UNCHANGED << pid, pids, held, asked, raisedBy, attached, sesVars, reqVars, histVars >>
  PROVE  UNCHANGED convVars \/ TurnBegins
<1>1. CASE attached /\ run = 0 /\ turns < MaxTurns
  BY <1>1 DEF SendTurn, TurnBegins, SessionStays, sesVars, reqVars, histVars, Link
<1>2. CASE ~(attached /\ run = 0 /\ turns < MaxTurns)
  BY <1>2 DEF SendTurn, convVars, sesVars, reqVars, histVars
<1> QED BY <1>1, <1>2

LEMMA ForgetLeaves ==
  ASSUME Link, Forget
  PROVE  loaded' = FALSE /\ active' = 0 /\ open' = {} /\ stored' = {} /\ seen' = seen
BY DEF Forget, Link

LEMMA AnsweredKinds ==
  ASSUME Process, Answering, pc \in { "sending", "steering" }, Answered,
         active' = active \/ (pc = "sending" /\ active' = TurnToOwn),
         UNCHANGED << procVars, linkVars, loaded, seen, spid, histVars >>
  PROVE  \/ \E q : Settles(q)
         \/ UNCHANGED << procVars, linkVars, loaded, seen, open, spid, stored, announced, told, ends >>
<1>1. CASE Running.kind = "answer"
  <2>1. Running.q \in MessageMode /\ held \ { Running.q } = held
    BY <1>1 DEF Answering, Process
  <2>2. Settles(Running.q)
    BY <1>1, <2>1 DEF Answered, Settles, procVars, linkVars, histVars
  <2> QED BY <2>2
<1>2. CASE Running.kind # "answer"
  BY <1>2 DEF Answered, reqVars, histVars
<1> QED BY <1>1, <1>2

LEMMA StepKinds ==
  ASSUME TypeOK, Process, Link, Control, Answering, [Next]_vars
  PROVE  UNCHANGED convVars \/ ProviderSteps \/ HandleEvent \/ SessionSteps
<1>1. CASE Provider
  BY <1>1, ProviderKinds
<1>2. CASE ReportLoss \/ TimerFires \/ Reconcile \/ \E kind \in Kinds, q \in Questions \cup { NoQuestion } : Ask(kind, q)
  BY <1>2 DEF ReportLoss, TimerFires, Reconcile, Ask, convVars, procVars, linkVars, sesVars, reqVars, histVars
<1>3. CASE Restart
  <2>1. \/ UNCHANGED << pid, run, held >>
        \/ run' = 0 /\ held' = {} /\ pid' = 0 /\ PerSession
    BY <1>3 DEF Restart
  <2>2. Leaves
    BY <1>3, <2>1 DEF Restart, Leaves
  <2> QED BY <2>2 DEF SessionSteps
<1>4. CASE BeginLoad \/ NothingToLoad \/ BeginAdopt \/ AdoptionSettles \/ NoSurvivor \/ SurvivorBusy \/ ResumeFails
  BY <1>4 DEF BeginLoad, NothingToLoad, BeginAdopt, AdoptionSettles, NoSurvivor, SurvivorBusy, ResumeFails,
              convVars, procVars, linkVars, sesVars, reqVars, histVars
<1>5. CASE Adopted
  <2>1. Attaches
    BY <1>5 DEF Adopted, Attaches, Control
  <2> QED BY <2>1 DEF SessionSteps
<1>6. CASE Resumed
  <2>1. ~loaded
    BY <1>6 DEF Resumed, Control
  <2>2. CASE pid # 0
    <3>1. Attaches
      BY <1>6, <2>1, <2>2 DEF Resumed, Attaches
    <3> QED BY <3>1 DEF SessionSteps
  <2>3. CASE pid = 0
    <3>1. Launches
      BY <1>6, <2>1, <2>3 DEF Resumed, Launches
    <3> QED BY <3>1 DEF SessionSteps
  <2> QED BY <2>2, <2>3
<1>7. CASE SubmitHuman
  <2>1. CASE SendTurn
    BY <1>7, <2>1, SendTurnKinds DEF SubmitHuman, ProviderSteps
  <2>2. CASE ~SendTurn
    BY <1>7, <2>2 DEF SubmitHuman, convVars, sesVars, reqVars, histVars
  <2> QED BY <2>1, <2>2
<1>8. CASE DeliverAutomatic
  <2>1. CASE SendTurn
    BY <1>8, <2>1, SendTurnKinds DEF DeliverAutomatic, ProviderSteps
  <2>2. CASE ~SendTurn
    BY <1>8, <2>2 DEF DeliverAutomatic, convVars, sesVars, reqVars, histVars
  <2> QED BY <2>1, <2>2
<1>9. CASE SteerRefused
  BY <1>9, SendTurnKinds DEF SteerRefused, ProviderSteps
<1>10. CASE SteerTaken
  <2>1. pc = "steering" /\ Answered /\ active' = active /\ UNCHANGED << procVars, linkVars, loaded, seen, spid, histVars >>
    BY <1>10 DEF SteerTaken
  <2>2. \/ \E q : Settles(q)
        \/ UNCHANGED << procVars, linkVars, loaded, seen, open, spid, stored, announced, told, ends >>
    BY <2>1, AnsweredKinds
  <2> QED BY <2>1, <2>2 DEF SessionSteps, convVars, procVars, linkVars
<1>11. CASE SendResolves
  <2>1. pc = "sending" /\ Answered /\ active' = TurnToOwn /\ UNCHANGED << procVars, linkVars, loaded, seen, spid, histVars >>
    BY <1>11 DEF SendResolves
  <2>2. \/ \E q : Settles(q)
        \/ UNCHANGED << procVars, linkVars, loaded, seen, open, spid, stored, announced, told, ends >>
    BY <2>1, AnsweredKinds
  <2> QED BY <2>1, <2>2 DEF SessionSteps, Owns
<1>12. CASE SendFails \/ StopUnreachable \/ Interrupt \/ InterruptFails \/ RespondToNothing \/ Respond \/ RespondFails
  BY <1>12 DEF SendFails, StopUnreachable, Interrupt, InterruptFails, RespondToNothing, Respond, RespondFails,
               convVars, procVars, linkVars, sesVars, reqVars, histVars
<1>13. CASE InterruptAccepted
  <2>1. attached /\ run = call /\ run' = 0 /\ held' = {} /\ Says(<< TurnEvent("terminal", run) >>)
        /\ UNCHANGED << pid, pids, turns, asked, raisedBy, attached >> /\ SessionStays
    BY <1>13 DEF InterruptAccepted, SessionStays, sesVars, reqVars, histVars
  <2>2. CASE run # 0
    <3>1. 1 \in 1..2 /\ << TurnEvent("terminal", run) >> = [i \in 1..1 |-> TurnEvent("terminal", run)]
      OBVIOUS
    <3>2. TurnEnds
      BY <2>1, <2>2, <3>1 DEF TurnEnds
    <3> QED BY <3>2 DEF ProviderSteps
  <2>3. CASE run = 0
    BY <1>13, <2>3 DEF InterruptAccepted, Control
  <2> QED BY <2>2, <2>3
<1>14. CASE RespondSettles
  <2>1. attached => loaded
    BY DEF Link
  <2>2. ~HasOpen(Running.q)
    BY <1>14, <2>1 DEF RespondSettles, Answering
  <2>3. Settles(Running.q)
    BY <1>14, <2>2 DEF RespondSettles, Settles, linkVars, histVars
  <2> QED BY <2>3 DEF SessionSteps
<1>15. CASE Sleep \/ Released
  <2>1. loaded' = FALSE /\ active' = 0 /\ open' = {} /\ stored' = {} /\ seen' = seen
    BY <1>15, ForgetLeaves DEF Sleep, Released
  <2>2. /\ attached' = FALSE /\ chan' = << >> /\ UNCHANGED << pids, turns, asked, raisedBy, told, ends >>
        /\ \/ UNCHANGED << pid, run, held >>
           \/ run' = 0 /\ held' = {} /\ ((pid' = 0 /\ PerSession) \/ pid' = pid)
    BY <1>15 DEF Sleep, Released, LeaveProcess, histVars
  <2>3. PerSession \/ UNCHANGED announced \/ held' = {} \/ status' = "ended"
    BY <1>15 DEF Sleep, Released, LeaveProcess
  <2>4. Leaves
    BY <2>1, <2>2, <2>3 DEF Leaves
  <2> QED BY <2>4 DEF SessionSteps
<1>16. CASE ReleaseFails
  <2>1. loaded' = FALSE /\ active' = 0 /\ open' = {} /\ stored' = {} /\ seen' = seen
    BY <1>16, ForgetLeaves DEF ReleaseFails
  <2>2. Leaves
    BY <1>16, <2>1 DEF ReleaseFails, Leaves, procVars, histVars
  <2> QED BY <2>2 DEF SessionSteps
<1>17. CASE FallAsleep \/ StayAwake \/ BeginRelease \/ AlreadyReleased \/ SettleLoss \/ Refresh
  BY <1>17 DEF FallAsleep, StayAwake, BeginRelease, AlreadyReleased, SettleLoss, Refresh,
               convVars, procVars, linkVars, sesVars, reqVars, histVars
<1>18. CASE UNCHANGED vars
  BY <1>18 DEF vars, convVars, procVars, linkVars, sesVars, reqVars, histVars
<1> QED BY <1>1, <1>2, <1>3, <1>4, <1>5, <1>6, <1>7, <1>8, <1>9, <1>10, <1>11, <1>12, <1>13, <1>14, <1>15, <1>16, <1>17,
           <1>18 DEF Next, RunCommand

-----------------------------------------------------------------------------
(***************************************************************************)
(* The provider, and the connection to it.                                 *)
(***************************************************************************)

\* What every event leaves alone.
LEMMA Handled ==
  ASSUME TypeOK, Link, Stream, HandleEvent
  PROVE  /\ UNCHANGED << procVars, attached, spid >>
         /\ loaded /\ chan # << >> /\ Tail(chan) \in Seq(Events) /\ Next1 = chan[1] /\ 1 \in DOMAIN chan
         /\ Next1 \in Events /\ EventOK(Next1)
         /\ \/ loaded' = loaded /\ chan' = Tail(chan)
            \/ Lose /\ ~attached
<1>1. /\ UNCHANGED << procVars, attached, spid >> /\ loaded /\ chan # << >>
      /\ \/ loaded' = loaded /\ chan' = Tail(chan)
         \/ Lose /\ (Next1.kind = "error" \/ ~Next1.usable)
  BY DEF HandleEvent, HandleStarted, HandleItem, HandleOpened, HandleClosed, HandleTerminal, HandleLastTerminal, HandleError,
         Arrives, Lose, Forget, sesVars
<1>2. Tail(chan) \in Seq(Events) /\ Next1 \in Events /\ Next1 = chan[1] /\ EventOK(Next1)
  BY <1>1, Arrived
<1>3. 1 \in DOMAIN chan
  BY <1>1, Rest DEF TypeOK
<1> QED BY <1>1, <1>2, <1>3 DEF EventOK

LEMMA NextProcess ==
  ASSUME TypeOK, Process, Link, Stream, Control, Answering, [Next]_vars
  PROVE  Process'
<1>t. /\ turns \in Nat /\ run \in Nat /\ pids \in Nat /\ turns <= turns + 1 /\ turns + 1 # 0
      /\ raisedBy \in [Questions -> Nat] /\ held \subseteq Questions
  BY RowAssumption DEF TypeOK
<1>1. CASE UNCHANGED << pid, pids, run, turns, held, asked, raisedBy >>
  BY <1>1 DEF Process
<1>2. CASE TurnBegins
  <2>1. \A q \in Questions : raisedBy[q] <= turns + 1
    <3> TAKE q \in Questions
    <3>1. raisedBy[q] \in Nat /\ raisedBy[q] <= turns
      BY <1>t DEF Process
    <3> QED BY <1>t, <3>1
  <2>2. held = {}
    BY <1>2 DEF TurnBegins, Process
  <2> QED BY <1>2, <2>1, <2>2 DEF TurnBegins, Process
<1>3. CASE TurnEnds
  BY <1>3 DEF TurnEnds, Process
<1>4. CASE ProcessDies
  BY <1>4 DEF ProcessDies, Process
<1>5. ASSUME NEW q \in Questions, ProviderAsks(q) PROVE Process'
  <2>1. run <= turns
    BY <1>t DEF Process
  <2>2. \A p \in Questions : raisedBy'[p] = IF p = q THEN run ELSE raisedBy[p]
    BY <1>5, <1>t DEF ProviderAsks
  <2>3. held' \cap MessageMode = {} /\ held' \subseteq Questions /\ \A p \in held' : p \in held \/ p = q
    BY <1>5, <1>t DEF ProviderAsks, Process
  <2> QED BY <1>5, <1>t, <2>1, <2>2, <2>3 DEF ProviderAsks, Process
<1>6. ASSUME NEW q \in Questions, ProviderWithdraws(q) PROVE Process'
  BY <1>6 DEF ProviderWithdraws, Process
<1>7. CASE Launches
  <2>1. \A q \in Questions : raisedBy'[q] = 0 /\ 0 <= turns
    BY <1>7, <1>t DEF Launches
  <2> QED BY <1>7, <2>1 DEF Launches, Process
<1>8. CASE Leaves
  BY <1>8 DEF Leaves, Process
<1>9. ASSUME NEW q, Settles(q) PROVE Process'
  BY <1>9 DEF Settles, Process
<1>10. CASE ProviderItem \/ LinkLost \/ HandleEvent \/ Attaches \/ Owns
  <2>1. UNCHANGED procVars
    BY <1>10, Handled DEF ProviderItem, LinkLost, Attaches, Owns
  <2> QED BY <1>1, <2>1 DEF procVars
<1> QED BY StepKinds, <1>1, <1>2, <1>3, <1>4, <1>5, <1>6, <1>7, <1>8, <1>9, <1>10 DEF ProviderSteps, SessionSteps, convVars

LEMMA CloseStored ==
  ASSUME Link, NEW gone, CloseRequests(gone)
  PROVE  stored' = open' /\ open' = open \ gone
BY DEF CloseRequests, Link, reqVars

LEMMA NextLink ==
  ASSUME TypeOK, Process, Link, Stream, Control, Answering, [Next]_vars
  PROVE  Link'
<1>t. /\ turns \in Nat /\ run \in Nat /\ active \in Nat /\ pids \in Nat /\ pid \in Nat
      /\ turns <= turns + 1 /\ pids + 1 # 0 /\ 0 <= turns /\ active <= turns + 1
  BY RowAssumption DEF TypeOK, Link
<1>1. CASE UNCHANGED convVars
  BY <1>1 DEF convVars, Link
<1>2. CASE TurnBegins
  BY <1>2, <1>t DEF TurnBegins, SessionStays, Says, Link
<1>3. CASE TurnEnds \/ ProviderItem \/ \E q \in Questions : ProviderAsks(q) \/ ProviderWithdraws(q)
  <2>1. UNCHANGED << pid, pids, turns, attached, loaded, active, open, spid, stored >> /\ (chan' = chan \/ attached)
    BY <1>3 DEF TurnEnds, SessionStays, ProviderItem, ProviderAsks, ProviderWithdraws, Says, sesVars, reqVars, procVars
  <2> QED BY <2>1 DEF Link
<1>4. CASE ProcessDies \/ LinkLost
  <2>1. UNCHANGED << pids, turns, loaded, active, open, spid, stored >> /\ attached' = FALSE /\ (chan' = chan \/ attached)
    BY <1>4 DEF ProcessDies, LinkLost, Says, sesVars, reqVars, procVars
  <2> QED BY <2>1 DEF Link
<1>5. CASE HandleEvent
  <2>0. /\ UNCHANGED << pid, pids, turns, attached, spid >> /\ loaded /\ EventOK(Next1)
        /\ (loaded' = loaded \/ (Lose /\ ~attached))
    BY <1>5, Handled DEF procVars
  <2>1. CASE Lose
    <3>1. ~attached' /\ ~loaded' /\ active' = 0 /\ open' = {} /\ stored' = {} /\ chan' = << >>
      BY <1>5, <2>0, <2>1, Handled, ForgetLeaves DEF Lose, EventOK, Forget
    <3> QED BY <1>t, <2>0, <3>1 DEF Link
  <2>2. CASE loaded' = loaded
    <3>1. active' <= turns
      <4>1. CASE HandleStarted
        <5>1. active' = Next1.turn /\ Next1.turn \in 1..turns
          BY <2>0, <4>1 DEF HandleStarted, Arrives, EventOK, OfTurn
        <5> QED BY <1>t, <5>1
      <4>2. CASE ~HandleStarted
        <5>1. active' = active \/ active' = 0
          BY <1>5, <4>2 DEF HandleEvent, HandleItem, HandleOpened, HandleClosed, HandleTerminal, HandleLastTerminal,
                            HandleError, Lose, Forget, sesVars
        <5> QED BY <1>t, <5>1 DEF Link
      <4> QED BY <4>1, <4>2
    <3>2. stored' = open'
      <4>1. (\E gone : CloseRequests(gone)) \/ UNCHANGED << open, stored >> \/ stored' = open' \/ loaded' = FALSE
        BY <1>5 DEF HandleEvent, HandleStarted, HandleItem, HandleOpened, HandleClosed, HandleTerminal, HandleLastTerminal,
                    HandleError, Lose, Forget, DropRequests, sesVars, reqVars
      <4> QED BY <2>0, <2>2, <4>1, CloseStored DEF Link
    <3> QED BY <2>0, <2>2, <3>1, <3>2 DEF Link
  <2> QED BY <2>0, <2>1, <2>2
<1>6. CASE Attaches
  <2>1. run <= turns /\ UNCHANGED << pid, pids, turns >> /\ pid # 0 /\ pids = pid
    BY <1>6, <1>t DEF Attaches, Process, procVars
  <2>2. loaded' = TRUE /\ active' \in {0, run} /\ open' = {} /\ spid' = pid /\ stored' = {}
    BY <1>6 DEF Attaches, Register
  <2> QED BY <1>t, <2>1, <2>2 DEF Link
<1>7. CASE Launches
  BY <1>7, <1>t DEF Launches, Register, Link
<1>8. CASE Leaves
  BY <1>8, <1>t DEF Leaves, Link
<1>9. ASSUME NEW q, Settles(q) PROVE Link'
  <2>1. stored' = open' /\ open' = open \ {q}
    BY <1>9, CloseStored DEF Settles
  <2>2. active' <= turns /\ (~loaded => active' = 0)
    BY <1>9, <1>t DEF Settles, TurnToOwn, Control, Link
  <2> QED BY <1>9, <2>1, <2>2 DEF Settles, Link
<1>10. CASE Owns
  <2>1. active' <= turns /\ (~loaded => active' = 0)
    BY <1>10, <1>t DEF Owns, TurnToOwn, Control, Link
  <2> QED BY <1>10, <2>1 DEF Owns, Link, procVars, linkVars
<1> QED BY StepKinds, <1>1, <1>2, <1>3, <1>4, <1>5, <1>6, <1>7, <1>8, <1>9, <1>10 DEF ProviderSteps, SessionSteps

-----------------------------------------------------------------------------
(***************************************************************************)
(* The order of events.                                                    *)
(***************************************************************************)
LEMMA EventFields ==
  ASSUME NEW e \in Events
  PROVE  e.turn \in Nat /\ e.usable \in BOOLEAN /\ e.q \in Questions \cup { NoQuestion }
         /\ e.kind \in { "started", "item", "opened", "closed", "terminal", "error" }
BY RowAssumption DEF Events

LEMMA JoinedEvents ==
  ASSUME NEW s \in Seq(Events), NEW t \in Seq(Events)
  PROVE  /\ s \o t \in Seq(Events)
         /\ Len(s) \in Nat /\ \A i \in DOMAIN s : i \in Nat /\ i > 0 /\ i <= Len(s)
         /\ \A i \in DOMAIN s : i \in DOMAIN (s \o t) /\ (s \o t)[i] = s[i]
         /\ \A i \in DOMAIN t : i \in Nat /\ i > 0 /\ Len(s) + i \in DOMAIN (s \o t) /\ (s \o t)[Len(s) + i] = t[i]
         /\ \A i \in DOMAIN (s \o t) : i \in Nat /\
              \/ i \in DOMAIN s /\ (s \o t)[i] = s[i]
              \/ i > Len(s) /\ i - Len(s) \in DOMAIN t /\ (s \o t)[i] = t[i - Len(s)]
BY Joined

LEMMA Unread ==
  ASSUME TypeOK, NEW i \in DOMAIN chan
  PROVE  i \in Nat /\ i > 0 /\ chan[i] \in Events /\ chan[i].turn \in Nat
<1>1. chan \in Seq(Events) /\ DOMAIN chan = 1..Len(chan) /\ Len(chan) \in Nat
  BY LenProperties DEF TypeOK
<1>2. chan[i] \in Events
  BY <1>1, ElementOfSeq
<1> QED BY <1>1, <1>2, EventFields

LEMMA SeenTurns ==
  ASSUME TypeOK, NEW t \in Range(seen)
  PROVE  t \in Turns /\ t \in Nat /\ t # 0
BY RangeOfSeq, RowAssumption DEF TypeOK, Turns

\* What a transport says when its connection is gone.
LEMMA LastWordsSay ==
  ASSUME TypeOK, NEW b \in BOOLEAN, NEW i \in DOMAIN LastWords(b)
  PROVE  \/ /\ PerSession \/ b
            /\ \E q \in held : LastWords(b)[i] = Event("closed", raisedBy[q], q)
         \/ PerSession /\ run # 0 /\ LastWords(b)[i] = Unusable(run)
         \/ LastWords(b)[i] = TurnEvent("error", 0)
<1> DEFINE qs == SetToSeq(held)
           closed == [k \in DOMAIN qs |-> Event("closed", raisedBy[qs[k]], qs[k])]
           c == IF PerSession \/ b THEN closed ELSE << >>
           u == IF PerSession /\ run # 0 THEN << Unusable(run) >> ELSE << >>
           e == << TurnEvent("error", 0) >>
<1>1. IsFiniteSet(held) /\ held \subseteq Questions
  BY RowAssumption, FS_Subset DEF TypeOK
<1>2. qs \in Seq(held) /\ DOMAIN qs = 1..Len(qs) /\ Len(qs) \in Nat
  BY <1>1, Listed, LenProperties
<1>3. \A k \in 1..Len(qs) : qs[k] \in held /\ Event("closed", raisedBy[qs[k]], qs[k]) \in Events
  BY <1>1, <1>2, ElementOfSeq, TurnEventType DEF TypeOK
<1>4. closed \in Seq(Events) /\ DOMAIN closed = DOMAIN qs
  BY <1>2, <1>3
<1>5. \A k \in DOMAIN closed : \E q \in held : closed[k] = Event("closed", raisedBy[q], q)
  BY <1>2, <1>3, <1>4
<1>6. /\ << Unusable(run) >> \in Seq(Events) /\ e \in Seq(Events) /\ << >> \in Seq(Events)
      /\ DOMAIN << Unusable(run) >> = {1} /\ << Unusable(run) >>[1] = Unusable(run)
      /\ DOMAIN e = {1} /\ e[1] = TurnEvent("error", 0) /\ DOMAIN << >> = {}
  BY TurnEventType, RowAssumption DEF TypeOK
<1> HIDE DEF closed, qs, e
<1>7. /\ c \in Seq(Events) /\ u \in Seq(Events)
      /\ \A k \in DOMAIN c : (PerSession \/ b) /\ \E q \in held : c[k] = Event("closed", raisedBy[q], q)
      /\ \A k \in DOMAIN u : PerSession /\ run # 0 /\ u[k] = Unusable(run)
  BY <1>4, <1>5, <1>6
<1>8. LastWords(b) = (c \o u) \o e
  BY DEF LastWords, closed, qs, e
<1> HIDE DEF c, u
<1>9. c \o u \in Seq(Events)
  BY <1>7, Joined
<1>10. PICK k : \/ k \in DOMAIN (c \o u) /\ LastWords(b)[i] = (c \o u)[k]
                \/ k \in DOMAIN e /\ LastWords(b)[i] = e[k]
  <2>1. i \in DOMAIN ((c \o u) \o e) /\ e \in Seq(Events)
    BY <1>6, <1>8
  <2>2. \/ i \in DOMAIN (c \o u) /\ ((c \o u) \o e)[i] = (c \o u)[i]
        \/ i - Len(c \o u) \in DOMAIN e /\ ((c \o u) \o e)[i] = e[i - Len(c \o u)]
    BY <1>9, <2>1, JoinedEvents
  <2> QED BY <1>8, <2>2
<1>11. CASE k \in DOMAIN (c \o u) /\ LastWords(b)[i] = (c \o u)[k]
  <2>1. PICK m : \/ m \in DOMAIN c /\ (c \o u)[k] = c[m]
                 \/ m \in DOMAIN u /\ (c \o u)[k] = u[m]
    BY <1>7, <1>11, JoinedEvents
  <2> QED BY <1>7, <1>11, <2>1
<1>12. CASE k \in DOMAIN e /\ LastWords(b)[i] = e[k]
  BY <1>6, <1>12
<1> QED BY <1>10, <1>11, <1>12

\* The questions read back by the session that attaches.
LEMMA ReopenedSay ==
  ASSUME TypeOK
  PROVE  /\ \A i \in DOMAIN Reopened : \E q \in held : Reopened[i] = Event("opened", raisedBy[q], q)
         /\ \A q \in held : \E i \in DOMAIN Reopened : Reopened[i] = Event("opened", raisedBy[q], q)
         /\ \A i, j \in DOMAIN Reopened : Reopened[i].q = Reopened[j].q => i = j
<1> DEFINE qs == SetToSeq(held)
<1>1. IsFiniteSet(held) /\ held \subseteq Questions
  BY RowAssumption, FS_Subset DEF TypeOK
<1>2. qs \in Seq(held) /\ DOMAIN qs = 1..Len(qs) /\ Len(qs) \in Nat
      /\ (\A q \in held : \E i \in DOMAIN qs : qs[i] = q) /\ (\A i, j \in DOMAIN qs : qs[i] = qs[j] => i = j)
  BY <1>1, Listed, LenProperties
<1>3. \A k \in DOMAIN qs : qs[k] \in held
  BY <1>2, ElementOfSeq
<1>4. DOMAIN Reopened = DOMAIN qs /\ \A k \in DOMAIN qs : Reopened[k] = Event("opened", raisedBy[qs[k]], qs[k])
  BY DEF Reopened
<1>5. \A k \in DOMAIN qs : Reopened[k].q = qs[k]
  BY <1>4 DEF Event
<1> HIDE DEF qs
<1> QED BY <1>2, <1>3, <1>4, <1>5

\* What may be said with the next state.
NextOK(e) ==
    /\ OfTurn(e) => e.turn \in 1..turns'
    /\ e.kind = "error" \/ ~e.usable => ~attached'
    /\ ~e.usable => PerSession
    /\ IsEnd(e) /\ e.usable => e.turn # run'
    /\ e.kind \in { "opened", "closed" } => e.q \in asked'

\* Events may be said that are of the latest turn, or start the next one.
LEMMA SaysStream ==
  ASSUME TypeOK, Process, Stream, NEW events \in Seq(Events), Says(events), seen' = seen,
         turns' \in { turns, turns + 1 }, asked \subseteq asked', attached' => attached,
         run' = run \/ run' = 0 \/ run' = turns + 1,
         \A i \in DOMAIN events : NextOK(events[i]),
         \A i \in DOMAIN events : OfTurn(events[i]) =>
           \/ IsEnd(events[i]) /\ events[i].turn = run
           \/ IsStart(events[i]) /\ events[i].turn = turns + 1 /\ \A j \in DOMAIN events : i = j
  PROVE  Stream'
<1>t. turns \in Nat /\ run \in Nat /\ (run = 0 \/ run = turns)
  BY RowAssumption DEF TypeOK, Process
<1>1. \A i \in DOMAIN chan : NextOK(chan[i])
  <2> SUFFICES ASSUME NEW i \in DOMAIN chan PROVE NextOK(chan[i])
    OBVIOUS
  <2>1. EventOK(chan[i]) /\ chan[i].turn \in Nat
    BY Unread DEF Stream
  <2>2. OfTurn(chan[i]) => chan[i].turn \in 1..turns' /\ chan[i].turn # turns + 1 /\ chan[i].turn # 0
    BY <1>t, <2>1 DEF EventOK
  <2>3. IsEnd(chan[i]) => OfTurn(chan[i])
    BY DEF IsEnd, OfTurn
  <2> QED BY <2>1, <2>2, <2>3 DEF EventOK, NextOK
<1>2. \A t \in Range(seen) : t \in Nat /\ t <= turns' /\ t # run' /\ t < turns + 1
  <2> TAKE t \in Range(seen)
  <2>1. t \in Nat /\ t # 0 /\ t <= turns /\ t # run
    BY SeenTurns DEF Stream
  <2> QED BY <1>t, <2>1
<1>3. CASE ~attached
  <2>1. chan' = chan
    BY <1>3 DEF Says
  <2>2. \A i \in DOMAIN chan' : EventOK(chan[i])'
    BY <1>1, <2>1 DEF NextOK, EventOK
  <2> QED BY <1>2, <2>1, <2>2 DEF Stream
<1>4. CASE attached
  <2>1. chan' = chan \o events
    BY <1>4 DEF Says
  <2>2. /\ Len(chan) \in Nat /\ \A i \in DOMAIN chan : i \in Nat /\ i > 0 /\ i <= Len(chan)
        /\ \A i \in DOMAIN chan' : i \in Nat /\
              \/ i \in DOMAIN chan /\ chan'[i] = chan[i]
              \/ i > Len(chan) /\ i - Len(chan) \in DOMAIN events /\ chan'[i] = events[i - Len(chan)]
    <3>1. chan \in Seq(Events)
      BY DEF TypeOK
    <3> QED BY <2>1, <3>1, JoinedEvents
  <2>3. \A i \in DOMAIN chan' : NextOK(chan'[i])
    BY <1>1, <2>2
  <2>4. \A i \in DOMAIN chan' : EventOK(chan[i])'
    BY <2>3 DEF NextOK, EventOK
  <2>5. ASSUME NEW i \in DOMAIN chan', NEW j \in DOMAIN chan', i < j, OfTurn(chan'[i]), OfTurn(chan'[j])
        PROVE  chan'[i].turn <= chan'[j].turn /\ (IsStart(chan'[j]) => chan'[i].turn < chan'[j].turn)
    <3>1. CASE j \in DOMAIN chan /\ chan'[j] = chan[j]
      <4>1. i \in DOMAIN chan /\ chan'[i] = chan[i]
        BY <2>2, <2>5, <3>1
      <4> QED BY <2>5, <3>1, <4>1 DEF Stream
    <3>2. CASE j > Len(chan) /\ j - Len(chan) \in DOMAIN events /\ chan'[j] = events[j - Len(chan)]
      <4>1. \/ IsEnd(chan'[j]) /\ chan'[j].turn = run
            \/ IsStart(chan'[j]) /\ chan'[j].turn = turns + 1 /\ \A k \in DOMAIN events : j - Len(chan) = k
        BY <2>5, <3>2
      <4>2. CASE i \in DOMAIN chan /\ chan'[i] = chan[i]
        <5>1. chan[i].turn \in 1..turns /\ chan[i].turn \in Nat
          BY <2>5, <4>2, Unread DEF Stream, EventOK
        <5>2. CASE IsEnd(chan'[j]) /\ chan'[j].turn = run
          <6>1. ~IsStart(chan'[j])
            BY <5>2 DEF IsEnd, IsStart
          <6>2. run # 0
            BY <2>3, <2>5, <5>2 DEF NextOK
          <6> QED BY <1>t, <4>2, <5>1, <5>2, <6>1, <6>2
        <5>3. CASE chan'[j].turn = turns + 1
          BY <1>t, <4>2, <5>1, <5>3
        <5> QED BY <4>1, <5>2, <5>3
      <4>3. CASE i > Len(chan) /\ i - Len(chan) \in DOMAIN events /\ chan'[i] = events[i - Len(chan)]
        <5>1. i - Len(chan) # j - Len(chan)
          BY <2>2, <2>5
        <5>2. IsEnd(chan'[j]) /\ chan'[j].turn = run /\ ~IsStart(chan'[j])
          BY <4>1, <4>3, <5>1 DEF IsEnd, IsStart
        <5>3. chan'[i].turn = run
          BY <2>5, <3>2, <4>3, <5>1
        <5> QED BY <1>t, <5>2, <5>3
      <4> QED BY <2>2, <4>2, <4>3
    <3> QED BY <2>2, <3>1, <3>2
  <2>6. ASSUME NEW t \in Range(seen), NEW i \in DOMAIN chan', IsStart(chan'[i]) PROVE t < chan'[i].turn
    <3>1. CASE i \in DOMAIN chan /\ chan'[i] = chan[i]
      BY <2>6, <3>1 DEF Stream
    <3>2. CASE i - Len(chan) \in DOMAIN events /\ chan'[i] = events[i - Len(chan)]
      <4>1. chan'[i].turn = turns + 1
        BY <2>6, <3>2 DEF IsStart, IsEnd, OfTurn
      <4> QED BY <1>2, <4>1
    <3> QED BY <2>2, <3>1, <3>2
  <2> QED BY <1>2, <2>4, <2>5, <2>6 DEF Stream
<1> QED BY <1>3, <1>4

\* What is left unread after an event.
LEMMA Shifted ==
  ASSUME TypeOK, chan # << >>, chan' = Tail(chan)
  PROVE  /\ \A i \in DOMAIN chan' : i \in Nat /\ i > 0 /\ i + 1 \in DOMAIN chan /\ 1 < i + 1 /\ chan'[i] = chan[i + 1]
         /\ \A i \in DOMAIN chan : i = 1 \/ (i > 1 /\ i - 1 \in DOMAIN chan' /\ chan'[i - 1] = chan[i])
         /\ 1 \in DOMAIN chan /\ chan[1] = Next1
<1>1. chan \in Seq(Events)
  BY DEF TypeOK
<1>2. /\ 1 \in DOMAIN chan /\ Head(chan) = chan[1]
      /\ \A i \in DOMAIN Tail(chan) : i \in Nat /\ i > 0 /\ i + 1 \in DOMAIN chan /\ Tail(chan)[i] = chan[i + 1]
      /\ \A i \in DOMAIN chan : i \in Nat /\ (i # 1 => i > 1 /\ i - 1 \in DOMAIN Tail(chan) /\ Tail(chan)[i - 1] = chan[i])
  BY <1>1, Rest
<1>3. \A i \in Nat : i > 0 => 1 < i + 1
  OBVIOUS
<1> QED BY <1>2, <1>3 DEF Next1

\* The last end is remembered whatever else is not.
LEMMA Remembers ==
  ASSUME TypeOK, NEW t \in Turns
  PROVE  /\ Range(Remember(t)) \subseteq Range(seen) \cup {t}
         /\ Remember(t) # << >> /\ Remember(t)[Len(Remember(t))] = t /\ t \in Range(Remember(t))
         /\ Len(seen) + 1 <= Memory => Remember(t) = Append(seen, t)
<1> DEFINE s == Append(seen, t)
<1>1. seen \in Seq(Turns) /\ Len(seen) \in Nat /\ Memory \in Nat /\ Memory >= 1
  BY RowAssumption, LenProperties DEF TypeOK
<1>2. /\ s \in Seq(Turns) /\ Len(s) = Len(seen) + 1
      /\ \A i \in 1..Len(seen) : s[i] = seen[i]
      /\ s[Len(seen) + 1] = t
  BY <1>1, AppendProperties
<1>3. s # << >> /\ Len(s) \in Nat
  BY <1>1, <1>2, EmptySeq
<1> HIDE DEF s
<1>4. Tail(s) \in Seq(Turns) /\ Len(Tail(s)) = Len(s) - 1 /\ \A i \in 1..Len(Tail(s)) : Tail(s)[i] = s[i + 1]
  BY <1>2, <1>3, HeadTailProperties
<1>5. Range(s) \subseteq Range(seen) \cup {t}
  <2>1. Range(s) = { s[i] : i \in 1..Len(s) } /\ Range(seen) = { seen[i] : i \in 1..Len(seen) }
    BY <1>1, <1>2, RangeEquality
  <2>2. \A i \in 1..Len(s) : i \in 1..Len(seen) \/ i = Len(seen) + 1
    BY <1>1, <1>2
  <2> QED BY <1>2, <2>1, <2>2
<1>6. CASE Len(s) > Memory
  <2>1. Remember(t) = Tail(s)
    BY <1>6 DEF Remember, s
  <2>2. Len(s) - 1 \in Nat /\ Len(s) - 1 >= 1 /\ (Len(s) - 1) + 1 = Len(seen) + 1
    BY <1>1, <1>2, <1>6
  <2>3. Tail(s)[Len(Tail(s))] = t
    BY <1>2, <1>4, <2>2
  <2>4. Range(Tail(s)) = { Tail(s)[i] : i \in 1..Len(Tail(s)) } /\ Range(s) = { s[i] : i \in 1..Len(s) }
    <3>1. Range(Tail(s)) = { Tail(s)[i] : i \in 1..Len(Tail(s)) }
      BY <1>4, RangeEquality
    <3>2. Range(s) = { s[i] : i \in 1..Len(s) }
      BY <1>2, RangeEquality
    <3> QED BY <3>1, <3>2
  <2>5. \A i \in 1..Len(Tail(s)) : i + 1 \in 1..Len(s)
    BY <1>1, <1>2, <1>4
  <2>6. Range(Tail(s)) \subseteq Range(s)
    BY <1>4, <2>4, <2>5
  <2>7. Len(Tail(s)) \in 1..Len(Tail(s)) /\ Tail(s) # << >>
    <3>1. Len(Tail(s)) = Len(s) - 1 /\ Len(<< >>) = 0
      BY <1>4
    <3>2. \A n \in Nat : n >= 1 => n \in 1..n /\ n # 0
      OBVIOUS
    <3>3. Len(Tail(s)) \in 1..Len(Tail(s)) /\ Len(Tail(s)) # 0
      BY <2>2, <3>1, <3>2
    <3> QED BY <3>1, <3>3
  <2> QED BY <1>1, <1>2, <1>5, <1>6, <2>1, <2>3, <2>4, <2>6, <2>7
<1>7. CASE ~(Len(s) > Memory)
  <2>1. Remember(t) = s
    BY <1>7 DEF Remember, s
  <2>2. Range(s) = { s[i] : i \in 1..Len(s) } /\ Len(s) \in 1..Len(s)
    BY <1>1, <1>2, RangeEquality
  <2> QED BY <1>2, <1>3, <1>5, <2>1, <2>2 DEF s
<1> QED BY <1>6, <1>7

\* How an event changes what is remembered.
LEMMA HandledSeen ==
  ASSUME TypeOK, Link, Stream, HandleEvent
  PROVE  \/ seen' = seen
         \/ /\ HandleTerminal /\ seen' = Remember(Next1.turn) /\ Next1.turn \in Turns
            /\ Next1.turn \notin Range(seen) /\ Next1.usable /\ IsEnd(Next1)
<1>1. CASE HandleStarted
  <2>1. chan # << >> /\ IsStart(Next1)
    BY <1>1 DEF HandleStarted, Arrives, IsStart
  <2> QED BY <1>1, <2>1, NotSeen DEF HandleStarted
<1>2. CASE HandleTerminal
  <2>1. chan # << >> /\ OfTurn(Next1) /\ IsEnd(Next1)
    BY <1>2 DEF HandleTerminal, Arrives, OfTurn, IsEnd
  <2>2. Next1.turn \in Turns
    BY <2>1, Arrived
  <2> QED BY <1>2, <2>1, <2>2 DEF HandleTerminal
<1>3. CASE HandleItem \/ HandleOpened \/ HandleClosed \/ HandleLastTerminal \/ HandleError
  BY <1>3 DEF HandleItem, HandleOpened, HandleClosed, HandleLastTerminal, HandleError, Lose, Forget, sesVars
<1> QED BY <1>1, <1>2, <1>3 DEF HandleEvent

LEMMA HandleStream ==
  ASSUME TypeOK, Link, Process, Stream, HandleEvent
  PROVE  Stream'
<1>1. /\ UNCHANGED << pid, pids, run, turns, held, asked, raisedBy, attached >>
      /\ chan # << >> /\ Next1 = chan[1] /\ 1 \in DOMAIN chan /\ EventOK(Next1) /\ Next1 \in Events
      /\ (chan' = Tail(chan) \/ chan' = << >>)
  BY Handled DEF procVars, Lose
<1>2. \A i \in DOMAIN chan' : i \in Nat /\ i > 0 /\ i + 1 \in DOMAIN chan /\ 1 < i + 1 /\ chan'[i] = chan[i + 1]
  BY <1>1, Shifted
<1>3. \A i, j \in DOMAIN chan' : i < j => i + 1 < j + 1
  BY <1>2
<1>4. \A i \in DOMAIN chan' : EventOK(chan[i])'
  <2> TAKE i \in DOMAIN chan'
  <2>1. EventOK(chan[i + 1])
    BY <1>2 DEF Stream
  <2> QED BY <1>1, <1>2, <2>1 DEF EventOK
<1>5. \A i, j \in DOMAIN chan' : i < j /\ OfTurn(chan'[i]) /\ OfTurn(chan'[j]) =>
         chan'[i].turn <= chan'[j].turn /\ (IsStart(chan'[j]) => chan'[i].turn < chan'[j].turn)
  BY <1>2, <1>3 DEF Stream
<1>6. \A t \in Range(seen) : t <= turns' /\ t # run' /\ \A i \in DOMAIN chan' : IsStart(chan'[i]) => t < chan'[i].turn
  BY <1>1, <1>2 DEF Stream
<1>7. CASE seen' = seen
  BY <1>4, <1>5, <1>6, <1>7 DEF Stream
<1>8. CASE seen' # seen
  <2>1. /\ seen' = Remember(Next1.turn) /\ Next1.turn \in Turns /\ Next1.usable /\ IsEnd(Next1)
    BY <1>8, HandledSeen
  <2>2. Range(seen') \subseteq Range(seen) \cup {Next1.turn}
    BY <2>1, Remembers
  <2>3. Next1.turn \in 1..turns /\ Next1.turn # run /\ OfTurn(Next1)
    BY <1>1, <2>1 DEF EventOK, IsEnd, OfTurn
  <2>4. Next1.turn <= turns
    BY <2>3
  <2>5. ASSUME NEW i \in DOMAIN chan', IsStart(chan'[i]) PROVE Next1.turn < chan'[i].turn
    <3>1. OfTurn(chan'[i])
      BY <2>5 DEF IsStart, OfTurn
    <3> QED BY <1>1, <1>2, <2>3, <2>5, <3>1 DEF Stream
  <2> QED BY <1>1, <1>4, <1>5, <1>6, <2>2, <2>3, <2>4, <2>5 DEF Stream
<1> QED BY <1>7, <1>8

\* What a session finds when it attaches.
LEMMA AttachedSession ==
  ASSUME Attaches
  PROVE  /\ loaded' /\ attached' /\ open' = {} /\ stored' = {} /\ seen' = << >> /\ spid' = pid /\ pid # 0
         /\ ends' = [t \in Turns |-> 0] /\ UNCHANGED << pid, pids, run, turns, held, asked, raisedBy, announced, told >>
BY DEF Attaches, Register, procVars

\* And what it reads.
LEMMA AttachedChan ==
  ASSUME TypeOK, Attaches
  PROVE  /\ chan' \in Seq(Events)
         /\ \/ active' = run /\ chan' = Reopened
            \/ active' = 0 /\ run = 0 /\ chan' = Reopened
            \/ active' = 0 /\ run # 0 /\ chan' = << TurnEvent("started", run) >> \o Reopened
         /\ \A i \in DOMAIN chan' : i \in Nat /\ i > 0 /\
              \/ i = 1 /\ run # 0 /\ chan'[i] = TurnEvent("started", run) /\ active' = 0
              \/ \E q \in held : chan'[i] = Event("opened", raisedBy[q], q)
         /\ \A q \in held : \E i \in DOMAIN chan' : chan'[i] = Event("opened", raisedBy[q], q)
         /\ \A i, j \in DOMAIN chan' : chan'[i].kind = "opened" /\ chan'[j].kind = "opened" /\ chan'[i].q = chan'[j].q => i = j
         /\ run # 0 => active' = run \/ \E i \in DOMAIN chan' : chan'[i] = TurnEvent("started", run)
<1> DEFINE st == << TurnEvent("started", run) >>
<1>0. Reopened \in Seq(Events) /\ st \in Seq(Events) /\ DOMAIN st = {1} /\ st[1] = TurnEvent("started", run)
  <2>1. Reopened \in Seq(Events)
    BY ReopenedType
  <2>2. run \in 0..MaxTurns
    BY DEF TypeOK
  <2>3. TurnEvent("started", run) \in Events
    BY <2>2, TurnEventType
  <2> QED BY <2>1, <2>3
<1>a. << >> \o Reopened = Reopened
  BY <1>0
<1>1. /\ loaded' /\ attached' /\ open' = {} /\ stored' = {} /\ seen' = << >> /\ spid' = pid /\ pid # 0
      /\ ends' = [t \in Turns |-> 0] /\ UNCHANGED << pid, pids, run, turns, held, asked, raisedBy, announced, told >>
      /\ \/ active' = run /\ chan' = Reopened
         \/ active' = 0 /\ run = 0 /\ chan' = Reopened
         \/ active' = 0 /\ run # 0 /\ chan' = st \o Reopened
  BY <1>a DEF Attaches, Register, procVars
<1>2. \A i \in DOMAIN Reopened : i \in Nat /\ i > 0
  BY <1>0, LenProperties
<1>3. CASE chan' = Reopened
  <2>1. run # 0 => active' = run
    <3>1. CASE active' = run
      BY <3>1
    <3>2. CASE active' = 0 /\ run # 0 /\ chan' = st \o Reopened
      <4>1. Len(Reopened) \in Nat /\ Len(st) = 1 /\ Len(st \o Reopened) = Len(st) + Len(Reopened)
        BY <1>0, LenProperties, ConcatProperties
      <4> QED BY <1>3, <3>2, <4>1
    <3> QED BY <1>1, <3>1, <3>2
  <2>2. /\ chan' \in Seq(Events)
        /\ \A i \in DOMAIN chan' : i \in Nat /\ i > 0
    BY <1>0, <1>2, <1>3
  <2>3. /\ \A i \in DOMAIN chan' : \E q \in held : chan'[i] = Event("opened", raisedBy[q], q)
        /\ \A q \in held : \E i \in DOMAIN chan' : chan'[i] = Event("opened", raisedBy[q], q)
        /\ \A i, j \in DOMAIN chan' : chan'[i].q = chan'[j].q => i = j
    BY <1>3, ReopenedSay
  <2>4. \/ active' = run /\ chan' = Reopened
        \/ active' = 0 /\ run = 0 /\ chan' = Reopened
    BY <1>1, <1>3, <2>1
  <2>5. \A i \in DOMAIN chan' : i \in Nat /\ i > 0 /\
              \/ i = 1 /\ run # 0 /\ chan'[i] = TurnEvent("started", run) /\ active' = 0
              \/ \E q \in held : chan'[i] = Event("opened", raisedBy[q], q)
    BY <2>2, <2>3
  <2>6. \A i, j \in DOMAIN chan' : chan'[i].kind = "opened" /\ chan'[j].kind = "opened" /\ chan'[i].q = chan'[j].q => i = j
    BY <2>3
  <2> HIDE DEF st
  <2>7. \/ active' = run /\ chan' = Reopened
        \/ active' = 0 /\ run = 0 /\ chan' = Reopened
        \/ active' = 0 /\ run # 0 /\ chan' = << TurnEvent("started", run) >> \o Reopened
    BY <2>4
  <2>8. run # 0 => active' = run \/ \E i \in DOMAIN chan' : chan'[i] = TurnEvent("started", run)
    BY <2>1
  <2>9. /\ chan' \in Seq(Events)
        /\ \A q \in held : \E i \in DOMAIN chan' : chan'[i] = Event("opened", raisedBy[q], q)
    BY <2>2, <2>3
  <2> QED BY <2>5, <2>6, <2>7, <2>8, <2>9
<1>4. CASE active' = 0 /\ run # 0 /\ chan' = st \o Reopened
  <2> HIDE DEF st
  <2>1. /\ chan' \in Seq(Events) /\ Len(st) \in Nat
        /\ \A i \in DOMAIN st : i \in DOMAIN chan' /\ chan'[i] = st[i]
        /\ \A i \in DOMAIN Reopened : i \in Nat /\ Len(st) + i \in DOMAIN chan' /\ chan'[Len(st) + i] = Reopened[i]
        /\ \A i \in DOMAIN chan' : i \in Nat /\
             \/ i \in DOMAIN st /\ chan'[i] = st[i]
             \/ i > Len(st) /\ i - Len(st) \in DOMAIN Reopened /\ chan'[i] = Reopened[i - Len(st)]
    <3> DEFINE c == st \o Reopened
    <3>1. /\ c \in Seq(Events) /\ Len(st) \in Nat
          /\ \A i \in DOMAIN st : i \in DOMAIN c /\ c[i] = st[i]
          /\ \A i \in DOMAIN Reopened : i \in Nat /\ Len(st) + i \in DOMAIN c /\ c[Len(st) + i] = Reopened[i]
          /\ \A i \in DOMAIN c : i \in Nat /\
               \/ i \in DOMAIN st /\ c[i] = st[i]
               \/ i > Len(st) /\ i - Len(st) \in DOMAIN Reopened /\ c[i] = Reopened[i - Len(st)]
      BY <1>0, JoinedEvents
    <3>2. chan' = c
      BY <1>4
    <3> HIDE DEF c
    <3> QED BY <3>1, <3>2
  <2>2. \A i \in DOMAIN chan' : i > 0
    BY <2>1, <1>0
  <2>3. \A q : \A t : TurnEvent("started", run).kind = "started" /\ Event("opened", t, q).kind = "opened"
    BY DEF TurnEvent, Event
  <2>4. \A i \in DOMAIN chan' :
              \/ i = 1 /\ run # 0 /\ chan'[i] = TurnEvent("started", run) /\ active' = 0
              \/ \E q \in held : chan'[i] = Event("opened", raisedBy[q], q)
    <3> TAKE i \in DOMAIN chan'
    <3>1. CASE i \in DOMAIN st
      BY <1>0, <1>4, <2>1, <3>1
    <3>2. CASE i - Len(st) \in DOMAIN Reopened /\ chan'[i] = Reopened[i - Len(st)]
      BY <3>2, ReopenedSay
    <3> QED BY <2>1, <3>1, <3>2
  <2>5. \A q \in held : \E i \in DOMAIN chan' : chan'[i] = Event("opened", raisedBy[q], q)
    BY <2>1, ReopenedSay
  <2>6. ASSUME NEW i \in DOMAIN chan', NEW j \in DOMAIN chan',
               chan'[i].kind = "opened", chan'[j].kind = "opened", chan'[i].q = chan'[j].q
        PROVE  i = j
    <3>1. i \notin DOMAIN st /\ j \notin DOMAIN st
      BY <1>0, <2>1, <2>3, <2>6
    <3>2. /\ i - Len(st) \in DOMAIN Reopened /\ chan'[i] = Reopened[i - Len(st)] /\ i \in Nat
          /\ j - Len(st) \in DOMAIN Reopened /\ chan'[j] = Reopened[j - Len(st)] /\ j \in Nat
      BY <2>1, <3>1
    <3>3. i - Len(st) = j - Len(st)
      BY <2>6, <3>2, ReopenedSay
    <3> QED BY <2>1, <3>2, <3>3
  <2>7. 1 \in DOMAIN chan' /\ chan'[1] = TurnEvent("started", run)
    BY <1>0, <2>1
  <2>8. \A i \in DOMAIN chan' : i \in Nat /\ i > 0 /\
              \/ i = 1 /\ run # 0 /\ chan'[i] = TurnEvent("started", run) /\ active' = 0
              \/ \E q \in held : chan'[i] = Event("opened", raisedBy[q], q)
    BY <2>1, <2>2, <2>4
  <2>9. \A i, j \in DOMAIN chan' : chan'[i].kind = "opened" /\ chan'[j].kind = "opened" /\ chan'[i].q = chan'[j].q => i = j
    BY <2>6
  <2>10. active' = 0 /\ run # 0 /\ chan' = << TurnEvent("started", run) >> \o Reopened
    BY <1>4 DEF st
  <2>11. chan' \in Seq(Events)
    BY <2>1
  <2>12. run # 0 => active' = run \/ \E i \in DOMAIN chan' : chan'[i] = TurnEvent("started", run)
    BY <2>7
  <2> QED BY <2>5, <2>8, <2>9, <2>10, <2>11, <2>12
<1> QED BY <1>1, <1>3, <1>4

LEMMA LostStream ==
  ASSUME TypeOK, Process, Stream, NEW b \in BOOLEAN, Says(LastWords(b)), attached' = FALSE,
         UNCHANGED << turns, asked, seen >>, run' = run \/ run' = 0
  PROVE  Stream'
<1>t. turns \in Nat /\ run \in Nat /\ (run = 0 \/ run = turns)
  BY RowAssumption DEF TypeOK, Process
<1>1. LastWords(b) \in Seq(Events)
  BY LastWordsType
<1>2. \A i \in DOMAIN LastWords(b) :
        /\ NextOK(LastWords(b)[i])
        /\ OfTurn(LastWords(b)[i]) => IsEnd(LastWords(b)[i]) /\ LastWords(b)[i].turn = run
  <2> TAKE i \in DOMAIN LastWords(b)
  <2>1. CASE \E q \in held : LastWords(b)[i] = Event("closed", raisedBy[q], q)
    <3>1. LastWords(b)[i].kind = "closed" /\ LastWords(b)[i].usable = TRUE /\ LastWords(b)[i].q \in asked'
      BY <2>1 DEF Event, TypeOK
    <3> QED BY <3>1 DEF NextOK, OfTurn, IsEnd
  <2>2. CASE PerSession /\ run # 0 /\ LastWords(b)[i] = Unusable(run)
    <3>1. LastWords(b)[i].kind = "terminal" /\ LastWords(b)[i].usable = FALSE /\ LastWords(b)[i].turn = run
      BY <2>2 DEF Unusable, TurnEvent, Event
    <3> QED BY <1>t, <2>2, <3>1 DEF NextOK, OfTurn, IsEnd
  <2>3. CASE LastWords(b)[i] = TurnEvent("error", 0)
    <3>1. LastWords(b)[i].kind = "error" /\ LastWords(b)[i].usable = TRUE
      BY <2>3 DEF TurnEvent, Event
    <3> QED BY <3>1 DEF NextOK, OfTurn, IsEnd
  <2> QED BY <2>1, <2>2, <2>3, LastWordsSay
<1> QED BY <1>1, <1>2, SaysStream

LEMMA NextStream ==
  ASSUME TypeOK, Process, Link, Stream, Control, Answering, [Next]_vars
  PROVE  Stream'
<1>t. turns \in Nat /\ run \in Nat /\ (run = 0 \/ run = turns)
  BY RowAssumption DEF TypeOK, Process
<1>1. CASE UNCHANGED convVars
  BY <1>1 DEF convVars, Stream, EventOK
<1>2. CASE TurnBegins
  <2> DEFINE e == TurnEvent("started", turns + 1)
  <2>1. e \in Events
    <3>1. run' \in 0..MaxTurns /\ run' = turns + 1
      BY <1>2, NextTypes DEF TurnBegins, TypeOK
    <3> QED BY <3>1, TurnEventType
  <2>2. e.kind = "started" /\ e.turn = turns + 1 /\ e.usable = TRUE
    BY DEF TurnEvent, Event
  <2> HIDE DEF e
  <2>3. turns + 1 \in 1..turns'
    BY <1>2, <1>t DEF TurnBegins
  <2>4. NextOK(e) /\ IsStart(e) /\ e.turn = turns + 1
    BY <2>2, <2>3 DEF NextOK, IsStart, IsEnd, OfTurn
  <2>5. << e >> \in Seq(Events) /\ DOMAIN << e >> = {1} /\ << e >>[1] = e
    BY <2>1
  <2>6. /\ Says(<< e >>) /\ seen' = seen /\ turns' = turns + 1 /\ asked' = asked /\ attached' = attached /\ run' = turns + 1
    BY <1>2 DEF TurnBegins, SessionStays, e
  <2>7. \A i \in DOMAIN << e >> : NextOK(<< e >>[i]) /\ IsStart(<< e >>[i]) /\ << e >>[i].turn = turns + 1 /\ \A j \in DOMAIN << e >> : i = j
    BY <2>4, <2>5
  <2> QED BY <2>5, <2>6, <2>7, SaysStream
<1>3. CASE TurnEnds
  <2>1. PICK n \in 1..2 : Says([i \in 1..n |-> TurnEvent("terminal", run)])
    BY <1>3 DEF TurnEnds
  <2> DEFINE e == TurnEvent("terminal", run)
             s == [i \in 1..n |-> e]
  <2>2. s \in Seq(Events) /\ DOMAIN s = 1..n /\ \A i \in 1..n : s[i] = e
    <3>1. e \in Events
      BY TurnEventType DEF TypeOK
    <3> HIDE DEF e
    <3> QED BY <3>1
  <2>3. e.kind = "terminal" /\ e.turn = run /\ e.usable = TRUE
    BY DEF TurnEvent, Event
  <2>4. Says(s) /\ seen' = seen /\ turns' = turns /\ asked' = asked /\ attached' = attached /\ run' = 0 /\ run # 0
    BY <1>3, <2>1 DEF TurnEnds, SessionStays
  <2> HIDE DEF e, s
  <2>5. run \in 1..turns'
    BY <1>t, <2>4
  <2>6. NextOK(e) /\ IsEnd(e) /\ e.turn = run
    BY <2>3, <2>4, <2>5 DEF NextOK, IsEnd, OfTurn
  <2>7. \A i \in DOMAIN s : NextOK(s[i]) /\ IsEnd(s[i]) /\ s[i].turn = run
    BY <2>2, <2>6
  <2> QED BY <2>2, <2>4, <2>7, SaysStream
<1>4. ASSUME NEW e \in Events, Says(<< e >>), UNCHANGED << turns, run, seen, attached >>, asked \subseteq asked', e.usable = TRUE,
             e.kind = "item" \/ (e.kind \in { "closed", "opened" } /\ e.q \in asked')
      PROVE  Stream'
  <2>1. NextOK(e) /\ ~OfTurn(e)
    BY <1>4 DEF NextOK, IsEnd, OfTurn
  <2>2. << e >> \in Seq(Events) /\ \A i \in DOMAIN << e >> : << e >>[i] = e
    OBVIOUS
  <2> QED BY <1>4, <2>1, <2>2, SaysStream
<1>5. ASSUME NEW q \in Questions, ProviderAsks(q) PROVE Stream'
  <2>1. Event("opened", run, q) \in Events
    BY TurnEventType DEF TypeOK
  <2> QED BY <1>4, <1>5, <2>1 DEF ProviderAsks, Event, sesVars
<1>6. ASSUME NEW q \in Questions, ProviderWithdraws(q) PROVE Stream'
  <2>1. Event("closed", raisedBy[q], q) \in Events
    BY TurnEventType DEF TypeOK
  <2>2. q \in asked
    BY <1>6 DEF ProviderWithdraws, TypeOK
  <2> QED BY <1>4, <1>6, <2>1, <2>2 DEF ProviderWithdraws, Event, sesVars
<1>7. CASE ProviderItem
  <2>1. TurnEvent("item", run) \in Events
    BY TurnEventType DEF TypeOK
  <2> QED BY <1>4, <1>7, <2>1 DEF ProviderItem, TurnEvent, Event, sesVars, procVars
<1>8. CASE ProcessDies
  BY <1>8, LostStream DEF ProcessDies, sesVars
<1>9. CASE LinkLost
  BY <1>9, LostStream DEF LinkLost, sesVars, procVars
<1>10. CASE HandleEvent
  BY <1>10, HandleStream
<1>11. CASE Attaches
  <2>1. attached' /\ seen' = << >> /\ UNCHANGED << run, turns, asked >> /\ held \subseteq asked
    BY <1>11, AttachedSession DEF TypeOK
  <2>2. \A i \in DOMAIN chan' :
            \/ i = 1 /\ run # 0 /\ chan'[i] = TurnEvent("started", run)
            \/ \E q \in held : chan'[i] = Event("opened", raisedBy[q], q)
    BY <1>11, AttachedChan
  <2>3. run # 0 => run \in 1..turns
    BY <1>t
  <2>4. \A i \in DOMAIN chan' : EventOK(chan[i])' /\ (OfTurn(chan'[i]) => i = 1)
    <3> TAKE i \in DOMAIN chan'
    <3>1. CASE i = 1 /\ run # 0 /\ chan'[i] = TurnEvent("started", run)
      <4>1. chan'[i].kind = "started" /\ chan'[i].turn = run /\ chan'[i].usable = TRUE
        BY <3>1 DEF TurnEvent, Event
      <4> QED BY <2>1, <2>3, <3>1, <4>1 DEF EventOK, OfTurn, IsEnd
    <3>2. CASE \E q \in held : chan'[i] = Event("opened", raisedBy[q], q)
      <4>1. chan'[i].kind = "opened" /\ chan'[i].q \in held /\ chan'[i].usable = TRUE
        BY <3>2 DEF Event
      <4> QED BY <2>1, <4>1 DEF EventOK, OfTurn, IsEnd
    <3> QED BY <2>2, <3>1, <3>2
  <2>5. Range(seen') = {}
    BY <2>1 DEF Range
  <2>6. ~(1 < 1)
    OBVIOUS
  <2> QED BY <2>4, <2>5, <2>6 DEF Stream
<1>12. CASE Launches
  <2>1. seen' = << >> /\ chan' = << >>
    BY <1>12 DEF Launches, Register
  <2>2. Range(seen') = {} /\ DOMAIN chan' = {}
    BY <2>1 DEF Range
  <2> QED BY <2>2 DEF Stream
<1>13. CASE Leaves
  <2>1. (seen' = seen \/ seen' = << >>) /\ chan' = << >> /\ turns' = turns /\ (run' = run \/ run' = 0)
    BY <1>13 DEF Leaves
  <2>2. Range(seen') \subseteq Range(seen) /\ DOMAIN chan' = {}
    BY <2>1 DEF Range
  <2>3. \A t \in Range(seen) : t # 0
    BY SeenTurns
  <2> QED BY <2>1, <2>2, <2>3 DEF Stream
<1>14. ASSUME NEW q, Settles(q) PROVE Stream'
  BY <1>14 DEF Settles, Stream, EventOK
<1>15. CASE Owns
  BY <1>15 DEF Owns, Stream, EventOK, procVars, linkVars
<1> QED BY StepKinds, <1>1, <1>2, <1>3, <1>5, <1>6, <1>7, <1>8, <1>9, <1>10, <1>11, <1>12, <1>13, <1>14, <1>15
        DEF ProviderSteps, SessionSteps

-----------------------------------------------------------------------------
(***************************************************************************)
(* Ends of turns.                                                          *)
(***************************************************************************)
LEMMA NextFresh ==
  ASSUME TypeOK, Process, Link, Stream, Control, Answering, Fresh, [Next]_vars
  PROVE  Fresh'
<1>1. CASE UNCHANGED << active, seen >>
  BY <1>1 DEF Fresh
<1>2. CASE HandleEvent
  <2>1. CASE HandleStarted
    <3>1. chan # << >> /\ IsStart(Next1) /\ active' = Next1.turn
      BY <2>1 DEF HandleStarted, Arrives, IsStart
    <3>2. Next1.turn \notin Range(seen) /\ seen' = seen
      BY <2>1, <3>1, NotSeen DEF HandleStarted
    <3> QED BY <3>1, <3>2 DEF Fresh
  <2>2. CASE ~HandleStarted
    <3>1. active' = active \/ active' = 0
      BY <1>2, <2>2 DEF HandleEvent, HandleItem, HandleOpened, HandleClosed, HandleTerminal, HandleLastTerminal,
                        HandleError, Lose, Forget, sesVars
    <3>2. CASE seen' = seen
      BY <3>1, <3>2 DEF Fresh
    <3>3. CASE seen' # seen
      <4>1. HandleTerminal /\ seen' = Remember(Next1.turn) /\ Next1.turn \in Turns /\ Next1.turn \notin Range(seen)
        BY <1>2, <3>3, HandledSeen
      <4>2. active' # 0 => active' = active /\ active # Next1.turn
        BY <4>1 DEF HandleTerminal
      <4>3. Range(seen') \subseteq Range(seen) \cup {Next1.turn}
        BY <4>1, Remembers
      <4> QED BY <4>2, <4>3 DEF Fresh
    <3> QED BY <3>2, <3>3
  <2> QED BY <2>1, <2>2
<1>3. CASE Attaches \/ Launches
  <2>1. seen' = << >>
    BY <1>3 DEF Attaches, Launches, Register
  <2>2. Range(seen') = {}
    BY <2>1 DEF Range
  <2> QED BY <2>2 DEF Fresh
<1>4. CASE Leaves
  BY <1>4 DEF Leaves, Fresh
<1>5. CASE (\E q : Settles(q)) \/ Owns
  BY <1>5 DEF Settles, Owns, TurnToOwn, Fresh
<1>6. CASE UNCHANGED convVars \/ ProviderSteps
  <2>1. UNCHANGED << active, seen >>
    BY <1>6 DEF convVars, ProviderSteps, TurnBegins, TurnEnds, SessionStays, ProviderItem, ProcessDies, LinkLost, ProviderAsks,
                ProviderWithdraws, sesVars
  <2> QED BY <1>1, <2>1
<1> QED BY StepKinds, <1>2, <1>3, <1>4, <1>5, <1>6 DEF SessionSteps

\* What is said is of the latest turn or of the next.
LEMMA SaysEnded ==
  ASSUME TypeOK, Process, NEW t \in Turns, EndedOnce(t), NEW events \in Seq(Events), Says(events),
         UNCHANGED << ends, loaded, seen >>, turns' = turns \/ turns' = turns + 1,
         attached' => attached, run' = run \/ run' = 0 \/ run' = turns + 1,
         \A i \in DOMAIN events : OfTurn(events[i]) =>
           \/ IsEnd(events[i]) /\ events[i].turn = run /\ run # 0
           \/ IsStart(events[i]) /\ events[i].turn = turns + 1
  PROVE  EndedOnce(t)'
<1>t. turns \in Nat /\ run \in Nat /\ (run = 0 \/ run = turns) /\ t \in Nat /\ t # 0
  BY RowAssumption DEF TypeOK, Process, Turns
<1>1. CASE ~(loaded /\ ends[t] = 1)
  BY <1>1 DEF EndedOnce
<1>2. CASE loaded /\ ends[t] = 1
  <2>1. t <= turns' /\ t <= turns + 1 /\ t # turns + 1 /\ (attached' => t # run') /\ (run # 0 => t <= run)
    BY <1>t, <1>2 DEF EndedOnce
  <2>2. CASE ~attached
    <3>1. chan' = chan
      BY <2>2 DEF Says
    <3> QED BY <1>2, <2>1, <3>1 DEF EndedOnce, HasEnd
  <2>3. CASE attached
    <3>1. chan' = chan \o events /\ chan \in Seq(Events)
      BY <2>3 DEF Says, TypeOK
    <3>2. \A i \in DOMAIN chan' :
              \/ i \in DOMAIN chan /\ chan'[i] = chan[i]
              \/ \E k \in DOMAIN events : chan'[i] = events[k]
      BY <3>1, JoinedEvents
    <3>3. \A i \in DOMAIN chan' : OfTurn(chan'[i]) => t <= chan'[i].turn
      BY <1>2, <2>1, <3>2 DEF EndedOnce
    <3>4. ASSUME NEW i \in DOMAIN chan', IsEnd(chan'[i]), chan'[i].turn = t
          PROVE  HasEnd(t)
      <4>1. CASE i \in DOMAIN chan /\ chan'[i] = chan[i]
        BY <3>4, <4>1 DEF HasEnd
      <4>2. ASSUME NEW k \in DOMAIN events, chan'[i] = events[k] PROVE FALSE
        <5>1. OfTurn(events[k]) /\ ~IsStart(events[k])
          BY <3>4, <4>2 DEF IsEnd, IsStart, OfTurn
        <5> QED BY <1>2, <2>3, <3>4, <4>2, <5>1 DEF EndedOnce
      <4> QED BY <3>2, <4>1, <4>2
    <3> QED BY <1>2, <2>1, <3>3, <3>4 DEF EndedOnce, HasEnd
  <2> QED BY <2>2, <2>3
<1> QED BY <1>1, <1>2

LEMMA HandleEnded ==
  ASSUME TypeOK, Link, Process, Stream, Ended, HandleEvent, NEW t \in Turns
  PROVE  EndedOnce(t)'
<1>0. EndedOnce(t)
  BY DEF Ended
<1>1. /\ UNCHANGED << pid, pids, run, turns, held, asked, raisedBy, attached >>
      /\ loaded /\ chan # << >> /\ Next1 = chan[1] /\ 1 \in DOMAIN chan /\ EventOK(Next1) /\ Next1 \in Events
      /\ (chan' = Tail(chan) \/ loaded' = FALSE)
  BY Handled DEF procVars, Lose, Forget
<1>t. t \in Nat /\ ends[t] \in Nat /\ ends \in [Turns -> Nat] /\ Next1.turn \in Nat
  BY <1>1, RowAssumption, EventFields DEF TypeOK, Turns
<1>2. CASE ends' = ends /\ seen' = seen
  <2>1. CASE loaded' = FALSE
    BY <1>0, <1>2, <2>1 DEF EndedOnce
  <2>2. CASE chan' = Tail(chan)
    <3>1. \A i \in DOMAIN chan' : i + 1 \in DOMAIN chan /\ chan'[i] = chan[i + 1]
      BY <1>1, <2>2, Shifted
    <3>2. HasEnd(t)' => HasEnd(t)
      BY <3>1 DEF HasEnd
    <3> QED BY <1>0, <1>1, <1>2, <3>1, <3>2 DEF EndedOnce
  <2> QED BY <1>1, <2>1, <2>2
<1>3. ASSUME IsEnd(Next1), Next1.turn \notin Range(seen), ends' = [ends EXCEPT ![Next1.turn] = @ + 1]
      PROVE  ends'[t] <= 1 /\ (t = Next1.turn => ends'[t] = 1)
  <2>1. CASE t = Next1.turn
    <3>1. ends'[t] = ends[t] + 1 /\ HasEnd(t)
      BY <1>1, <1>3, <1>t, <2>1 DEF HasEnd
    <3>2. ends[t] # 1
      <4>1. ASSUME ends[t] = 1 PROVE FALSE
        <5>1. seen # << >> /\ seen[Len(seen)] = t
          BY <1>0, <1>1, <3>1, <4>1 DEF EndedOnce
        <5>2. seen \in Seq(Turns) /\ Len(seen) \in Nat /\ Len(seen) # 0
          BY <5>1, EmptySeq, LenProperties DEF TypeOK
        <5>3. Range(seen) = { seen[i] : i \in 1..Len(seen) } /\ Len(seen) \in 1..Len(seen)
          BY <5>2, RangeEquality
        <5> QED BY <1>3, <2>1, <5>1, <5>3
      <4> QED BY <4>1
    <3>3. ends[t] = 0
      BY <1>0, <1>t, <3>2 DEF EndedOnce
    <3> QED BY <3>1, <3>3
  <2>2. CASE t # Next1.turn
    BY <1>0, <1>3, <1>t, <2>2 DEF EndedOnce
  <2> QED BY <2>1, <2>2
<1>4. CASE HandleStarted
  <2>1. /\ chan' = Tail(chan) /\ loaded' = loaded /\ seen' = seen /\ ends' = [ends EXCEPT ![Next1.turn] = 0]
    <3>1. chan # << >> /\ IsStart(Next1)
      BY <1>4 DEF HandleStarted, Arrives, IsStart
    <3> QED BY <1>4, <3>1, NotSeen DEF HandleStarted, Arrives
  <2>2. \A i \in DOMAIN chan' : i + 1 \in DOMAIN chan /\ chan'[i] = chan[i + 1]
    BY <1>1, <2>1, Shifted
  <2>3. HasEnd(t)' => HasEnd(t)
    BY <2>2 DEF HasEnd
  <2>4. CASE t = Next1.turn
    <3>1. ends'[t] = 0
      BY <1>t, <2>1, <2>4
    <3> QED BY <3>1 DEF EndedOnce
  <2>5. CASE t # Next1.turn
    <3>1. ends'[t] = ends[t]
      BY <1>t, <2>1, <2>5
    <3> QED BY <1>0, <1>1, <2>1, <2>2, <2>3, <3>1 DEF EndedOnce
  <2> QED BY <2>4, <2>5
<1>5. CASE HandleTerminal
  <2>1. CASE Next1.turn \in Range(seen)
    BY <1>2, <1>5, <2>1 DEF HandleTerminal
  <2>2. CASE Next1.turn \notin Range(seen)
    <3>1. /\ IsEnd(Next1) /\ Next1.usable /\ chan' = Tail(chan) /\ loaded' = loaded
          /\ seen' = Remember(Next1.turn) /\ ends' = [ends EXCEPT ![Next1.turn] = @ + 1]
      BY <1>5, <2>2 DEF HandleTerminal, Arrives, IsEnd
    <3>2. Next1.turn \in Turns /\ Next1.turn <= turns /\ Next1.turn # run /\ OfTurn(Next1)
      BY <1>1, <3>1, Arrived DEF EventOK, IsEnd, OfTurn
    <3>3. seen' # << >> /\ seen'[Len(seen')] = Next1.turn
      BY <3>1, <3>2, Remembers
    <3>4. \A i \in DOMAIN chan' : i \in Nat /\ i + 1 \in DOMAIN chan /\ 1 < i + 1 /\ chan'[i] = chan[i + 1]
      BY <1>1, <3>1, Shifted
    <3>5. \A i \in DOMAIN chan' : OfTurn(chan'[i]) => Next1.turn <= chan'[i].turn /\ chan'[i].turn \in Nat
      <4> SUFFICES ASSUME NEW i \in DOMAIN chan', OfTurn(chan'[i]) PROVE Next1.turn <= chan'[i].turn /\ chan'[i].turn \in Nat
        OBVIOUS
      <4>1. chan[i + 1].turn \in Nat
        BY <3>4, Unread
      <4> QED BY <1>1, <3>2, <3>4, <4>1 DEF Stream
    <3>6. CASE t = Next1.turn
      BY <1>1, <1>3, <2>2, <3>1, <3>2, <3>3, <3>5, <3>6 DEF EndedOnce
    <3>7. CASE t # Next1.turn
      <4>1. ends'[t] = ends[t]
        BY <1>t, <3>1, <3>7
      <4>2. CASE ends[t] = 1
        <5>1. t < Next1.turn
          BY <1>0, <1>1, <1>t, <3>2, <3>7, <4>2 DEF EndedOnce
        <5>2. ASSUME NEW i \in DOMAIN chan', IsEnd(chan'[i]), chan'[i].turn = t PROVE FALSE
          BY <1>t, <3>5, <5>1, <5>2 DEF IsEnd, OfTurn
        <5>3. \A i \in DOMAIN chan' : OfTurn(chan'[i]) => t <= chan'[i].turn
          BY <1>0, <1>1, <3>4, <4>2 DEF EndedOnce
        <5> QED BY <1>0, <1>1, <3>1, <4>1, <5>2, <5>3 DEF EndedOnce, HasEnd
      <4>3. CASE ends[t] # 1
        BY <1>0, <4>1, <4>3 DEF EndedOnce
      <4> QED BY <4>2, <4>3
    <3> QED BY <3>6, <3>7
  <2> QED BY <2>1, <2>2
<1>6. CASE HandleLastTerminal
  <2>1. IsEnd(Next1) /\ Next1.turn \notin Range(seen) /\ ends' = [ends EXCEPT ![Next1.turn] = @ + 1] /\ loaded' = FALSE
    BY <1>6 DEF HandleLastTerminal, IsEnd, Lose, Forget
  <2> QED BY <1>3, <2>1 DEF EndedOnce
<1>7. CASE HandleItem \/ HandleOpened \/ HandleClosed \/ HandleError
  <2>1. ends' = ends /\ seen' = seen
    BY <1>7 DEF HandleItem, HandleOpened, HandleClosed, HandleError, Lose, Forget, sesVars, histVars
  <2> QED BY <1>2, <2>1
<1> QED BY <1>4, <1>5, <1>6, <1>7 DEF HandleEvent

LEMMA NextEnded ==
  ASSUME TypeOK, Process, Link, Stream, Control, Answering, Ended, [Next]_vars
  PROVE  Ended'
<1> SUFFICES ASSUME NEW t \in Turns PROVE EndedOnce(t)'
  BY DEF Ended
<1>0. EndedOnce(t)
  BY DEF Ended
<1>1. CASE UNCHANGED << ends, loaded, turns, attached, run, chan, seen >>
  BY <1>0, <1>1 DEF EndedOnce, HasEnd
<1>2. CASE TurnBegins
  <2> DEFINE e == TurnEvent("started", turns + 1)
  <2>1. e.kind = "started" /\ e.turn = turns + 1
    BY DEF TurnEvent, Event
  <2>2. << e >> \in Seq(Events)
    <3>1. run' \in 0..MaxTurns /\ run' = turns + 1
      BY <1>2, NextTypes DEF TurnBegins, TypeOK
    <3> QED BY <3>1, TurnEventType
  <2>3. Says(<< e >>) /\ UNCHANGED << ends, loaded, seen, attached >> /\ turns' = turns + 1 /\ run' = turns + 1
    BY <1>2 DEF TurnBegins, SessionStays
  <2> HIDE DEF e
  <2>4. \A i \in DOMAIN << e >> : IsStart(<< e >>[i]) /\ << e >>[i].turn = turns + 1
    BY <2>1 DEF IsStart
  <2> QED BY <1>0, <2>2, <2>3, <2>4, SaysEnded
<1>3. CASE TurnEnds
  <2>1. PICK n \in 1..2 : Says([i \in 1..n |-> TurnEvent("terminal", run)])
    BY <1>3 DEF TurnEnds
  <2> DEFINE e == TurnEvent("terminal", run)
             s == [i \in 1..n |-> e]
  <2>2. s \in Seq(Events) /\ DOMAIN s = 1..n /\ \A i \in 1..n : s[i] = e
    <3>1. e \in Events
      BY TurnEventType DEF TypeOK
    <3> HIDE DEF e
    <3> QED BY <3>1
  <2>3. e.kind = "terminal" /\ e.turn = run
    BY DEF TurnEvent, Event
  <2>4. Says(s) /\ UNCHANGED << ends, loaded, seen, turns, attached >> /\ run' = 0 /\ run # 0
    BY <1>3, <2>1 DEF TurnEnds, SessionStays
  <2> HIDE DEF e, s
  <2>5. \A i \in DOMAIN s : IsEnd(s[i]) /\ s[i].turn = run
    BY <2>2, <2>3 DEF IsEnd
  <2> QED BY <1>0, <2>2, <2>4, <2>5, SaysEnded
<1>4. ASSUME NEW e \in Events, Says(<< e >>), UNCHANGED << ends, loaded, turns, run, seen, attached >>,
             e.kind \in { "item", "closed", "opened" }
      PROVE  EndedOnce(t)'
  <2>1. << e >> \in Seq(Events) /\ \A i \in DOMAIN << e >> : << e >>[i] = e
    OBVIOUS
  <2>2. ~OfTurn(e)
    BY <1>4 DEF OfTurn
  <2> QED BY <1>0, <1>4, <2>1, <2>2, SaysEnded
<1>5. ASSUME NEW q \in Questions, ProviderAsks(q) PROVE EndedOnce(t)'
  <2>1. Event("opened", run, q) \in Events
    BY TurnEventType DEF TypeOK
  <2> QED BY <1>4, <1>5, <2>1 DEF ProviderAsks, Event, sesVars, histVars
<1>6. ASSUME NEW q \in Questions, ProviderWithdraws(q) PROVE EndedOnce(t)'
  <2>1. Event("closed", raisedBy[q], q) \in Events
    BY TurnEventType DEF TypeOK
  <2> QED BY <1>4, <1>6, <2>1 DEF ProviderWithdraws, Event, sesVars, histVars
<1>7. CASE ProviderItem
  <2>1. TurnEvent("item", run) \in Events
    BY TurnEventType DEF TypeOK
  <2> QED BY <1>4, <1>7, <2>1 DEF ProviderItem, TurnEvent, Event, sesVars, procVars, histVars
<1>8. ASSUME NEW b \in BOOLEAN, Says(LastWords(b)), UNCHANGED << ends, loaded, turns, seen >>, attached' = FALSE,
             run' = run \/ run' = 0
      PROVE  EndedOnce(t)'
  <2>1. LastWords(b) \in Seq(Events)
    BY LastWordsType
  <2>2. \A i \in DOMAIN LastWords(b) : OfTurn(LastWords(b)[i]) =>
           IsEnd(LastWords(b)[i]) /\ LastWords(b)[i].turn = run /\ run # 0
    <3> TAKE i \in DOMAIN LastWords(b)
    <3>1. CASE PerSession /\ run # 0 /\ LastWords(b)[i] = Unusable(run)
      BY <3>1 DEF Unusable, TurnEvent, Event, IsEnd
    <3>2. CASE LastWords(b)[i] = TurnEvent("error", 0) \/ \E q \in held : LastWords(b)[i] = Event("closed", raisedBy[q], q)
      BY <3>2 DEF TurnEvent, Event, OfTurn
    <3> QED BY <3>1, <3>2, LastWordsSay
  <2> QED BY <1>0, <1>8, <2>1, <2>2, SaysEnded
<1>9. CASE ProcessDies
  BY <1>8, <1>9 DEF ProcessDies, sesVars, histVars
<1>10. CASE LinkLost
  BY <1>8, <1>10 DEF LinkLost, sesVars, procVars, histVars
<1>11. CASE HandleEvent
  BY <1>11, HandleEnded
<1>12. CASE Attaches \/ Launches
  <2>1. ends' = [k \in Turns |-> 0]
    BY <1>12 DEF Attaches, Launches, Register
  <2>2. ends'[t] = 0
    BY <2>1
  <2> QED BY <2>2 DEF EndedOnce
<1>13. CASE Leaves
  <2>1. (ends' = ends \/ ends' = [k \in Turns |-> 0]) /\ loaded' = FALSE
    BY <1>13 DEF Leaves
  <2>2. ends'[t] = ends[t] \/ ends'[t] = 0
    BY <2>1
  <2> QED BY <1>0, <2>1, <2>2 DEF EndedOnce
<1>14. CASE UNCHANGED convVars \/ (\E q : Settles(q)) \/ Owns
  <2>1. UNCHANGED << ends, loaded, turns, attached, run, chan, seen >>
    BY <1>14 DEF convVars, Settles, Owns, procVars, linkVars
  <2> QED BY <1>1, <2>1
<1> QED BY StepKinds, <1>2, <1>3, <1>5, <1>6, <1>7, <1>9, <1>10, <1>11, <1>12, <1>13, <1>14 DEF ProviderSteps, SessionSteps

-----------------------------------------------------------------------------
(***************************************************************************)
(* Questions.                                                              *)
(***************************************************************************)

\* What is said without announcing the question.
LEMMA SaysAsked ==
  ASSUME TypeOK, Process, NEW q \in Questions, AskedAbout(q), NEW events \in Seq(Events), Says(events),
         UNCHANGED << open, seen >>, asked \subseteq asked', raisedBy'[q] = raisedBy[q], q \in held' => q \in held,
         attached' => attached,
         \A i \in DOMAIN events :
           /\ ~Opens(events[i], q)
           /\ IsStart(events[i]) => events[i].turn = turns + 1
           /\ events[i].kind = "closed" /\ events[i].q = q /\ q \in held' => ~attached' /\ PerSession
  PROVE  AskedAbout(q)'
<1>t. turns \in Nat /\ raisedBy[q] \in Nat /\ raisedBy[q] < turns + 1
  <2>1. turns \in Nat /\ raisedBy[q] \in Nat /\ raisedBy[q] <= turns
    BY RowAssumption DEF TypeOK, Process
  <2> QED BY <2>1
<1>1. CASE ~attached
  <2>1. chan' = chan
    BY <1>1 DEF Says
  <2> QED BY <1>1, <2>1 DEF AskedAbout, Opens
<1>2. CASE attached
  <2>1. chan' = chan \o events /\ chan \in Seq(Events)
    BY <1>2 DEF Says, TypeOK
  <2>2. /\ Len(chan) \in Nat /\ \A i \in DOMAIN chan : i \in Nat /\ i > 0 /\ i <= Len(chan)
        /\ \A i \in DOMAIN chan' : i \in Nat /\
              \/ i \in DOMAIN chan /\ chan'[i] = chan[i]
              \/ i > Len(chan) /\ i - Len(chan) \in DOMAIN events /\ chan'[i] = events[i - Len(chan)]
    BY <2>1, JoinedEvents
  <2>3. \A i \in DOMAIN chan' : Opens(chan'[i], q) => i \in DOMAIN chan /\ chan'[i] = chan[i]
    BY <2>2
  <2>4. \A j \in DOMAIN chan' : j \notin DOMAIN chan => (IsStart(chan'[j]) => raisedBy[q] < chan'[j].turn)
                                /\ (\A i \in DOMAIN chan : i < j)
    BY <1>t, <2>2
  <2>5. \A j \in DOMAIN chan' : j \in DOMAIN chan => chan'[j] = chan[j]
    BY <2>2
  <2>6. q \in open =>
         /\ q \in asked'
         /\ q \notin MessageMode => raisedBy[q] \notin Range(seen)
         /\ \A j \in DOMAIN chan' : IsStart(chan'[j]) => raisedBy[q] < chan'[j].turn
    BY <2>4, <2>5 DEF AskedAbout
  <2>7. ASSUME NEW i \in DOMAIN chan', Opens(chan'[i], q)
        PROVE  /\ q \notin open
               /\ \A j \in DOMAIN chan' : Opens(chan'[j], q) => j = i
               /\ q \notin MessageMode => raisedBy[q] \notin Range(seen)
               /\ \A j \in DOMAIN chan' : IsEnd(chan'[j]) /\ chan'[j].turn = raisedBy[q] => i < j
               /\ \A j \in DOMAIN chan' : IsStart(chan'[j]) /\ i < j => raisedBy[q] < chan'[j].turn
    <3>1. i \in DOMAIN chan /\ Opens(chan[i], q)
      BY <2>3, <2>7
    <3>2. q \notin open /\ (q \notin MessageMode => raisedBy[q] \notin Range(seen))
      BY <3>1 DEF AskedAbout
    <3>3. \A j \in DOMAIN chan' : Opens(chan'[j], q) => j = i
      BY <2>3, <3>1 DEF AskedAbout
    <3>4. \A j \in DOMAIN chan' : IsEnd(chan'[j]) /\ chan'[j].turn = raisedBy[q] => i < j
      BY <2>4, <2>5, <3>1 DEF AskedAbout
    <3>5. \A j \in DOMAIN chan' : IsStart(chan'[j]) /\ i < j => raisedBy[q] < chan'[j].turn
      BY <2>4, <2>5, <3>1 DEF AskedAbout
    <3> QED BY <3>2, <3>3, <3>4, <3>5
  <2>8. \A i \in DOMAIN chan' : chan'[i].kind = "closed" /\ chan'[i].q = q /\ q \in held' => ~attached' /\ PerSession
    BY <1>2, <2>2 DEF AskedAbout
  <2>9. \A e : Opens(e, q)' <=> Opens(e, q)
    BY DEF Opens
  <2> QED BY <2>6, <2>7, <2>8, <2>9 DEF AskedAbout, Opens
<1> QED BY <1>1, <1>2

LEMMA SaysShown ==
  ASSUME TypeOK, NEW q \in Questions, ShownAbout(q), NEW events \in Seq(Events), Says(events),
         open' = open, raisedBy'[q] = raisedBy[q], attached' => attached,
         \/ q \in held' <=> q \in held
         \/ q \notin held' /\ \E i \in DOMAIN events : Closes(events[i], q),
         \A i \in DOMAIN events : ~Opens(events[i], q)
  PROVE  ShownAbout(q)'
<1>1. CASE ~attached'
  BY <1>1 DEF ShownAbout
<1>2. CASE attached'
  <2>1. chan' = chan \o events /\ chan \in Seq(Events) /\ attached
    BY <1>2 DEF Says, TypeOK
  <2>2. /\ Len(chan) \in Nat /\ \A i \in DOMAIN chan : i \in Nat /\ i <= Len(chan) /\ i \in DOMAIN chan' /\ chan'[i] = chan[i]
        /\ \A i \in DOMAIN events : i \in Nat /\ i > 0 /\ Len(chan) + i \in DOMAIN chan' /\ chan'[Len(chan) + i] = events[i]
        /\ \A i \in DOMAIN chan' : \/ i \in DOMAIN chan /\ chan'[i] = chan[i]
                                   \/ i - Len(chan) \in DOMAIN events /\ chan'[i] = events[i - Len(chan)]
    BY <2>1, JoinedEvents
  <2>3. \A i \in DOMAIN chan' : Opens(chan'[i], q) => i \in DOMAIN chan /\ Opens(chan[i], q)
    BY <2>2
  <2>4. HasOpen(q) => \E i \in DOMAIN chan' : Opens(chan'[i], q)
    BY <2>2 DEF HasOpen
  <2>5. q \in held' => q \in open \/ \E i \in DOMAIN chan' : Opens(chan'[i], q)
    BY <2>1, <2>4 DEF ShownAbout
  <2>c. \A e : Closes(e, q)' <=> Closes(e, q)
    BY DEF Closes
  <2>6. CASE q \in held' <=> q \in held
    <3>1. q \in open => q \in held' \cup MessageMode \/ \E i \in DOMAIN chan' : Closes(chan'[i], q)
      BY <2>1, <2>2, <2>6 DEF ShownAbout
    <3>2. \A i \in DOMAIN chan' : Opens(chan'[i], q) => q \in held' \cup MessageMode \/ \E j \in DOMAIN chan' : i < j /\ Closes(chan'[j], q)
      BY <2>1, <2>2, <2>3, <2>6 DEF ShownAbout
    <3> QED BY <2>5, <2>c, <3>1, <3>2 DEF ShownAbout, HasOpen, Opens, Closes
  <2>7. CASE q \notin held' /\ \E i \in DOMAIN events : Closes(events[i], q)
    <3>1. PICK k \in DOMAIN events : Closes(events[k], q)
      BY <2>7
    <3>2. Len(chan) + k \in DOMAIN chan' /\ Closes(chan'[Len(chan) + k], q)
      BY <2>2, <3>1
    <3>3. \A i \in DOMAIN chan : i < Len(chan) + k
      BY <2>2
    <3>4. \A i \in DOMAIN chan' : Opens(chan'[i], q) => \E j \in DOMAIN chan' : i < j /\ Closes(chan'[j], q)
      BY <2>3, <3>2, <3>3
    <3> QED BY <2>7, <3>2, <3>4 DEF ShownAbout, Opens, Closes
  <2> QED BY <2>6, <2>7
<1> QED BY <1>1, <1>2

\* How an event changes the questions of the session.
LEMMA HandledOpen ==
  ASSUME TypeOK, Link, Stream, HandleEvent, NEW q \in Questions
  PROVE  /\ q \in open' => q \in open \/ Opens(Next1, q)
         /\ q \in open /\ q \notin open' =>
              \/ loaded' = FALSE /\ ~attached
              \/ Closes(Next1, q) /\ q \notin MessageMode
              \/ Next1.kind = "closed" /\ Next1.q = q
              \/ IsStart(Next1) /\ raisedBy[q] # Next1.turn /\ q \notin MessageMode
         /\ Opens(Next1, q) => q \in open'
         /\ q \in open' /\ Next1.kind = "closed" => Next1.q # q
         /\ q \in open' /\ q \notin MessageMode /\ seen' # seen => raisedBy[q] # Next1.turn
<1>1. CASE HandleStarted
  <2>1. open' = open \ ({ p \in open : raisedBy[p] # Next1.turn } \ MessageMode) /\ IsStart(Next1) /\ chan # << >>
    BY <1>1 DEF HandleStarted, Arrives, DropRequests, CloseRequests, IsStart
  <2>2. seen' = seen
    BY <1>1, <2>1, NotSeen DEF HandleStarted
  <2> QED BY <2>1, <2>2 DEF IsStart, Opens
<1>2. CASE HandleItem
  BY <1>2 DEF HandleItem, Arrives, sesVars, Opens
<1>3. CASE HandleOpened
  BY <1>3 DEF HandleOpened, Arrives, Opens
<1>4. CASE HandleClosed
  BY <1>4 DEF HandleClosed, Arrives, CloseRequests, Opens
<1>5. CASE HandleTerminal
  <2>1. IsEnd(Next1)
    BY <1>5 DEF HandleTerminal, Arrives, IsEnd
  <2>2. CASE Next1.turn \in Range(seen)
    BY <1>5, <2>1, <2>2 DEF HandleTerminal, IsEnd, Opens
  <2>3. CASE Next1.turn \notin Range(seen)
    <3>1. open' = open \ ({ p \in open : raisedBy[p] = Next1.turn } \ MessageMode)
      BY <1>5, <2>3 DEF HandleTerminal, DropRequests, CloseRequests
    <3> QED BY <2>1, <3>1 DEF IsEnd, Opens, Closes
  <2> QED BY <2>2, <2>3
<1>6. CASE HandleLastTerminal \/ HandleError
  <2>1. open' = {} /\ loaded' = FALSE /\ (Next1.kind = "error" \/ ~Next1.usable) /\ Next1.kind \in { "terminal", "error" }
    BY <1>6 DEF HandleLastTerminal, HandleError, Lose, Forget
  <2>2. ~attached
    BY <2>1, Handled DEF EventOK
  <2> QED BY <2>1, <2>2 DEF Opens
<1> QED BY <1>1, <1>2, <1>3, <1>4, <1>5, <1>6 DEF HandleEvent

LEMMA HandleAsked ==
  ASSUME TypeOK, Link, Process, Stream, HandleEvent, NEW q \in Questions, AskedAbout(q)
  PROVE  AskedAbout(q)'
<1>1. /\ UNCHANGED << pid, pids, run, turns, held, asked, raisedBy, attached >>
      /\ loaded /\ chan # << >> /\ Next1 = chan[1] /\ 1 \in DOMAIN chan /\ EventOK(Next1)
      /\ (chan' = Tail(chan) \/ Lose)
  BY Handled DEF procVars
<1>2. CASE Lose
  <2>1. chan' = << >> /\ open' = {}
    BY <1>2 DEF Lose, Forget
  <2>2. DOMAIN chan' = {}
    BY <2>1
  <2> QED BY <2>1, <2>2 DEF AskedAbout
<1>3. CASE chan' = Tail(chan)
  <2>1. \A i \in DOMAIN chan' : i \in Nat /\ i > 0 /\ i + 1 \in DOMAIN chan /\ 1 < i + 1 /\ ~(i + 1 < 1) /\ i + 1 # 1
                                /\ chan'[i] = chan[i + 1]
    BY <1>1, <1>3, Shifted
  <2>2. \A i, j \in DOMAIN chan' : (i < j <=> i + 1 < j + 1) /\ (i = j <=> i + 1 = j + 1)
    BY <2>1
  <2>3. /\ q \in open' => q \in open \/ Opens(chan[1], q)
        /\ q \in open' /\ q \notin MessageMode /\ seen' # seen => raisedBy[q] # chan[1].turn
    BY <1>1, HandledOpen
  <2>4. \A i \in DOMAIN chan' : Opens(chan'[i], q) => ~Opens(chan[1], q)
    BY <1>1, <2>1 DEF AskedAbout
  <2>5. q \in open' => q \in asked /\ \A j \in DOMAIN chan' : IsStart(chan'[j]) => raisedBy[q] < chan'[j].turn
    <3>1. CASE q \in open
      BY <2>1, <3>1 DEF AskedAbout
    <3>2. CASE Opens(chan[1], q)
      <4>1. q \in asked
        BY <1>1, <3>2 DEF EventOK, Opens
      <4> QED BY <1>1, <2>1, <3>2, <4>1 DEF AskedAbout
    <3> QED BY <2>3, <3>1, <3>2
  <2>6. seen' # seen => IsEnd(chan[1]) /\ Range(seen') \subseteq Range(seen) \cup {chan[1].turn}
    BY <1>1, HandledSeen, Remembers
  <2>7. q \notin MessageMode /\ q \in open' => raisedBy[q] \notin Range(seen')
    <3>1. q \notin MessageMode /\ q \in open' => raisedBy[q] \notin Range(seen)
      BY <1>1, <2>3 DEF AskedAbout
    <3> QED BY <2>3, <2>6, <3>1
  <2>8. ASSUME NEW i \in DOMAIN chan', Opens(chan'[i], q)
        PROVE  /\ q \notin open'
               /\ \A j \in DOMAIN chan' : Opens(chan'[j], q) => j = i
               /\ q \notin MessageMode => raisedBy[q] \notin Range(seen')
               /\ \A j \in DOMAIN chan' : IsEnd(chan'[j]) /\ chan'[j].turn = raisedBy[q] => i < j
               /\ \A j \in DOMAIN chan' : IsStart(chan'[j]) /\ i < j => raisedBy[q] < chan'[j].turn
    <3>1. i + 1 \in DOMAIN chan /\ Opens(chan[i + 1], q)
      BY <2>1, <2>8
    <3>2. q \notin open'
      BY <2>3, <2>4, <2>8, <3>1 DEF AskedAbout
    <3>3. \A j \in DOMAIN chan' : Opens(chan'[j], q) => j = i
      BY <2>1, <2>2, <3>1 DEF AskedAbout
    <3>4. \A j \in DOMAIN chan' : IsEnd(chan'[j]) /\ chan'[j].turn = raisedBy[q] => i < j
      BY <2>1, <2>2, <3>1 DEF AskedAbout
    <3>5. \A j \in DOMAIN chan' : IsStart(chan'[j]) /\ i < j => raisedBy[q] < chan'[j].turn
      BY <2>1, <2>2, <3>1 DEF AskedAbout
    <3>6. IsEnd(chan[1]) => raisedBy[q] # chan[1].turn
      BY <1>1, <2>1, <3>1 DEF AskedAbout
    <3>7. q \notin MessageMode => raisedBy[q] \notin Range(seen')
      BY <2>6, <3>1, <3>6 DEF AskedAbout
    <3> QED BY <3>2, <3>3, <3>4, <3>5, <3>7
  <2>9. \A i \in DOMAIN chan' : chan'[i].kind = "closed" /\ chan'[i].q = q /\ q \in held' => ~attached' /\ PerSession
    BY <1>1, <2>1 DEF AskedAbout
  <2> QED BY <1>1, <2>5, <2>7, <2>8, <2>9 DEF AskedAbout, Opens
<1> QED BY <1>1, <1>2, <1>3

LEMMA HandleShown ==
  ASSUME TypeOK, Link, Process, Stream, HandleEvent, NEW q \in Questions, AskedAbout(q), ShownAbout(q)
  PROVE  ShownAbout(q)'
<1>1. /\ UNCHANGED << pid, pids, run, turns, held, asked, raisedBy, attached >>
      /\ loaded /\ chan # << >> /\ Next1 = chan[1] /\ 1 \in DOMAIN chan /\ EventOK(Next1)
      /\ (chan' = Tail(chan) \/ ~attached)
  BY Handled DEF procVars
<1>2. CASE ~attached
  BY <1>1, <1>2 DEF ShownAbout
<1>3. CASE attached
  <2>1. \A i \in DOMAIN chan' : i \in Nat /\ i + 1 \in DOMAIN chan /\ i + 1 # 1 /\ chan'[i] = chan[i + 1]
    BY <1>1, <1>3, Shifted
  <2>2. \A i \in DOMAIN chan : i \in Nat /\ (i = 1 \/ (i > 1 /\ i - 1 \in DOMAIN chan' /\ chan'[i - 1] = chan[i]))
    BY <1>1, <1>3, Shifted, Unread
  <2>3. /\ q \in open' => q \in open \/ Opens(chan[1], q)
        /\ q \in open /\ q \notin open' =>
             \/ Closes(chan[1], q) /\ q \notin MessageMode
             \/ chan[1].kind = "closed" /\ chan[1].q = q
             \/ IsStart(chan[1]) /\ raisedBy[q] # chan[1].turn /\ q \notin MessageMode
        /\ Opens(chan[1], q) => q \in open'
        /\ q \in open' /\ chan[1].kind = "closed" => chan[1].q # q
        /\ q \in open' /\ q \notin MessageMode /\ seen' # seen => raisedBy[q] # chan[1].turn
    BY <1>1, <1>3, HandledOpen
  <2>c. \A e : (Closes(e, q)' <=> Closes(e, q)) /\ (Opens(e, q)' <=> Opens(e, q))
    BY <1>1 DEF Closes, Opens
  <2>4. q \in held => run # 0 /\ raisedBy[q] = run /\ q \notin MessageMode
    BY DEF Process
  <2>t. turns \in Nat /\ run \in Nat /\ (run = 0 \/ run = turns)
    BY RowAssumption DEF TypeOK, Process
  \* A question that is held stays.
  <2>5. q \in held => q \in open' \/ \E i \in DOMAIN chan' : Opens(chan'[i], q)
    <3> SUFFICES ASSUME q \in held PROVE q \in open' \/ \E i \in DOMAIN chan' : Opens(chan'[i], q)
      OBVIOUS
    <3>1. CASE q \in open
      <4>1. ~(chan[1].kind = "closed" /\ chan[1].q = q)
        BY <1>1, <1>3 DEF AskedAbout
      <4>2. ~(IsEnd(chan[1]) /\ chan[1].turn = raisedBy[q])
        BY <1>1, <1>3, <2>4 DEF EventOK
      <4>3. ~Closes(chan[1], q)
        BY <4>1, <4>2 DEF Closes
      <4>4. ~IsStart(chan[1])
        <5>1. IsStart(chan[1]) => raisedBy[q] < chan[1].turn /\ chan[1].turn \in 1..turns
          BY <1>1, <3>1 DEF AskedAbout, EventOK, IsStart, OfTurn
        <5> QED BY <2>4, <2>t, <5>1
      <4> QED BY <2>3, <3>1, <4>1, <4>3, <4>4
    <3>2. CASE q \notin open
      <4>1. PICK i \in DOMAIN chan : Opens(chan[i], q)
        BY <1>3, <3>2 DEF ShownAbout, HasOpen
      <4> QED BY <2>2, <2>3, <4>1
    <3> QED BY <3>1, <3>2
  \* One that closes an open question is still unread.
  <2>6. q \in open' => q \in held \cup MessageMode \/ \E i \in DOMAIN chan' : Closes(chan'[i], q)
    <3> SUFFICES ASSUME q \in open', q \notin held \cup MessageMode PROVE \E i \in DOMAIN chan' : Closes(chan'[i], q)
      OBVIOUS
    <3>1. \E i \in DOMAIN chan : i # 1 /\ Closes(chan[i], q)
      <4>1. CASE Opens(chan[1], q)
        BY <1>1, <1>3, <4>1, <2>2 DEF ShownAbout
      <4>2. CASE q \in open
        <5>1. PICK i \in DOMAIN chan : Closes(chan[i], q)
          BY <1>3, <4>2 DEF ShownAbout
        <5>2. ~Closes(chan[1], q)
          <6>1. CASE seen' # seen
            BY <2>3, <6>1 DEF Closes, IsEnd
          <6>2. CASE seen' = seen
            <7>1. IsEnd(chan[1]) => chan[1].turn \in Range(seen)
              <8>1. IsEnd(chan[1]) => HandleTerminal \/ HandleLastTerminal
                BY <1>1 DEF HandleEvent, HandleStarted, HandleItem, HandleOpened, HandleClosed, HandleError, Arrives, IsEnd
              <8>2. ~HandleLastTerminal
                BY <1>1, <1>3 DEF HandleLastTerminal, EventOK
              <8>3. CASE HandleTerminal /\ chan[1].turn \notin Range(seen)
                <9>1. seen' = Remember(chan[1].turn)
                  BY <1>1, <8>3 DEF HandleTerminal
                <9>2. chan[1].turn \in Turns
                  BY <1>1, <8>3, Arrived DEF HandleTerminal, Arrives, OfTurn
                <9> QED BY <6>2, <8>3, <9>1, <9>2, Remembers
              <8> QED BY <8>1, <8>2, <8>3
            <7>2. raisedBy[q] \notin Range(seen)
              BY <4>2 DEF AskedAbout
            <7> QED BY <2>3, <7>1, <7>2 DEF Closes
          <6> QED BY <6>1, <6>2
        <5> QED BY <5>1, <5>2
      <4> QED BY <2>3, <4>1, <4>2
    <3> QED BY <2>2, <3>1
  <2>7. ASSUME NEW i \in DOMAIN chan', Opens(chan'[i], q), q \notin held \cup MessageMode
        PROVE  \E j \in DOMAIN chan' : i < j /\ Closes(chan'[j], q)
    <3>1. PICK k \in DOMAIN chan : i + 1 < k /\ Closes(chan[k], q)
      BY <1>3, <2>1, <2>7 DEF ShownAbout
    <3>2. k - 1 \in DOMAIN chan' /\ chan'[k - 1] = chan[k] /\ i < k - 1
      BY <2>1, <2>2, <3>1
    <3> QED BY <3>1, <3>2
  <2> QED BY <1>1, <2>5, <2>6, <2>7, <2>c DEF ShownAbout, HasOpen
<1> QED BY <1>2, <1>3

\* What the provider says, as questions see it.
NothingAsked(events) ==
    /\ Says(events) /\ UNCHANGED << open, seen, asked, raisedBy, loaded, active >> /\ (attached' => attached)
    /\ \A i \in DOMAIN events : IsStart(events[i]) => events[i].turn = turns + 1
    /\ \A q \in Questions :
         /\ q \in held' => q \in held
         /\ attached' /\ q \in held /\ q \notin held' => \E i \in DOMAIN events : Closes(events[i], q)
         /\ \A i \in DOMAIN events :
              /\ ~Opens(events[i], q)
              /\ events[i].kind = "closed" /\ events[i].q = q /\ q \in held' => ~attached' /\ PerSession

LEMMA ProviderSays ==
  ASSUME TypeOK, Process, Link, ProviderSteps, ~ \E q \in Questions : ProviderAsks(q)
  PROVE  \E events \in Seq(Events) : NothingAsked(events)
<1>h. held \subseteq Questions
  BY DEF TypeOK
<1>1. CASE TurnBegins
  <2> DEFINE e == TurnEvent("started", turns + 1)
  <2>1. e.kind = "started" /\ e.turn = turns + 1
    BY DEF TurnEvent, Event
  <2>2. << e >> \in Seq(Events)
    <3>1. turns + 1 \in 0..MaxTurns
      <4>1. turns \in Nat /\ (attached => loaded) /\ MaxTurns \in Nat
        BY RowAssumption DEF TypeOK, Link
      <4>2. turns < MaxTurns
        BY <1>1 DEF TurnBegins
      <4> QED BY <4>1, <4>2
    <3> QED BY <3>1, TurnEventType
  <2>3. Says(<< e >>) /\ UNCHANGED << open, seen, asked, raisedBy, loaded, active, held, attached >>
    BY <1>1 DEF TurnBegins, SessionStays
  <2> HIDE DEF e
  <2>4. \A i \in DOMAIN << e >> : << e >>[i] = e
    OBVIOUS
  <2> QED BY <2>1, <2>2, <2>3, <2>4 DEF NothingAsked, Opens
<1>2. CASE TurnEnds
  <2>1. PICK n \in 1..2 : Says([i \in 1..n |-> TurnEvent("terminal", run)])
    BY <1>2 DEF TurnEnds
  <2> DEFINE e == TurnEvent("terminal", run)
             s == [i \in 1..n |-> e]
  <2>2. s \in Seq(Events) /\ DOMAIN s = 1..n /\ \A i \in 1..n : s[i] = e
    <3>1. e \in Events
      BY TurnEventType DEF TypeOK
    <3> HIDE DEF e
    <3> QED BY <3>1
  <2>3. e.kind = "terminal" /\ e.turn = run
    BY DEF TurnEvent, Event
  <2>4. Says(s) /\ UNCHANGED << open, seen, asked, raisedBy, loaded, active, attached >> /\ held' = {}
    BY <1>2, <2>1 DEF TurnEnds, SessionStays
  <2> HIDE DEF e, s
  <2>5. 1 \in DOMAIN s
    BY <2>2
  <2>6. \A q \in Questions : q \in held => Closes(s[1], q)
    BY <2>2, <2>3, <2>5 DEF Process, Closes, IsEnd
  <2>7. \A i \in DOMAIN s : ~IsStart(s[i]) /\ \A q : ~Opens(s[i], q)
    BY <2>2, <2>3 DEF Opens, IsStart
  <2> QED BY <2>2, <2>4, <2>5, <2>6, <2>7 DEF NothingAsked
<1>3. ASSUME NEW p \in Questions, ProviderWithdraws(p)
      PROVE  \E events \in Seq(Events) : NothingAsked(events)
  <2> DEFINE e == Event("closed", raisedBy[p], p)
  <2>1. e.kind = "closed" /\ e.q = p
    BY DEF Event
  <2>2. << e >> \in Seq(Events)
    BY TurnEventType DEF TypeOK
  <2>3. Says(<< e >>) /\ UNCHANGED << open, seen, asked, raisedBy, loaded, active, attached >> /\ held' = held \ {p}
    BY <1>3 DEF ProviderWithdraws, sesVars
  <2> HIDE DEF e
  <2>4. 1 \in DOMAIN << e >> /\ \A i \in DOMAIN << e >> : << e >>[i] = e
    OBVIOUS
  <2>5. \A q \in Questions : q \in held /\ q \notin held' => Closes(<< e >>[1], q)
    BY <2>1, <2>3, <2>4 DEF Closes
  <2>6. \A i \in DOMAIN << e >> : ~IsStart(<< e >>[i]) /\ \A q \in Questions : ~Opens(<< e >>[i], q) /\
           (<< e >>[i].q = q => q \notin held')
    BY <2>1, <2>3, <2>4 DEF Opens, IsStart
  <2> QED BY <2>2, <2>3, <2>4, <2>5, <2>6 DEF NothingAsked
<1>4. CASE ProviderItem
  <2> DEFINE e == TurnEvent("item", run)
  <2>1. e.kind = "item"
    BY DEF TurnEvent, Event
  <2>2. << e >> \in Seq(Events)
    <3>1. e \in Events
      BY TurnEventType DEF TypeOK
    <3> QED BY <3>1
  <2>3. Says(<< e >>) /\ UNCHANGED << open, seen, asked, raisedBy, loaded, active, attached, held >>
    BY <1>4 DEF ProviderItem, sesVars, procVars
  <2> HIDE DEF e
  <2>4. \A i \in DOMAIN << e >> : << e >>[i] = e
    OBVIOUS
  <2> QED BY <2>1, <2>2, <2>3, <2>4 DEF NothingAsked, Opens, IsStart
<1>5. ASSUME NEW b \in BOOLEAN, Says(LastWords(b)), attached' = FALSE, UNCHANGED << open, seen, asked, raisedBy, loaded, active >>,
             (b /\ held' = {}) \/ (~b /\ held' = held)
      PROVE  \E events \in Seq(Events) : NothingAsked(events)
  <2>1. LastWords(b) \in Seq(Events)
    BY LastWordsType
  <2>2. \A i \in DOMAIN LastWords(b) :
          /\ ~IsStart(LastWords(b)[i]) /\ \A q : ~Opens(LastWords(b)[i], q)
          /\ LastWords(b)[i].kind = "closed" => PerSession \/ b
    <3> TAKE i \in DOMAIN LastWords(b)
    <3>1. CASE LastWords(b)[i] = Unusable(run) \/ LastWords(b)[i] = TurnEvent("error", 0)
      BY <3>1 DEF Unusable, TurnEvent, Event, Opens, IsStart
    <3>2. CASE (PerSession \/ b) /\ \E p \in held : LastWords(b)[i] = Event("closed", raisedBy[p], p)
      BY <3>2 DEF Event, Opens, IsStart
    <3> QED BY <3>1, <3>2, LastWordsSay
  <2>3. \A q : q \in held' => q \in held /\ ~b
    BY <1>5
  <2> QED BY <1>5, <2>1, <2>2, <2>3 DEF NothingAsked
<1>6. CASE ProcessDies
  <2>1. Says(LastWords(TRUE)) /\ attached' = FALSE /\ UNCHANGED << open, seen, asked, raisedBy, loaded, active >> /\ held' = {}
    BY <1>6 DEF ProcessDies, sesVars
  <2> QED BY <1>5, <2>1
<1>7. CASE LinkLost
  <2>1. Says(LastWords(FALSE)) /\ attached' = FALSE /\ UNCHANGED << open, seen, asked, raisedBy, loaded, active, held >>
    BY <1>7 DEF LinkLost, sesVars, procVars
  <2> QED BY <1>5, <2>1
<1> QED BY <1>1, <1>2, <1>3, <1>4, <1>6, <1>7 DEF ProviderSteps

\* A question is raised.
LEMMA AsksOwn ==
  ASSUME TypeOK, Process, Link, Stream, Asked, Shown, NEW q \in Questions, ProviderAsks(q)
  PROVE  AskedAbout(q)' /\ ShownAbout(q)'
<1> DEFINE e == Event("opened", run, q)
<1>1. e.kind = "opened" /\ e.q = q
  BY DEF Event
<1>2. e \in Events
  BY TurnEventType DEF TypeOK
<1>3. /\ run # 0 /\ q \notin asked /\ asked' = asked \cup {q} /\ raisedBy' = [raisedBy EXCEPT ![q] = run]
      /\ (q \in MessageMode \/ q \in held')
      /\ Says(<< e >>) /\ UNCHANGED << open, seen, attached, run, turns >>
  BY DEF ProviderAsks, sesVars
<1>4. raisedBy'[q] = run
  BY <1>3 DEF TypeOK
<1> HIDE DEF e
<1>5. q \notin open /\ (\A i \in DOMAIN chan : ~Opens(chan[i], q) /\ ~(chan[i].kind = "closed" /\ chan[i].q = q))
  BY <1>3 DEF Asked, AskedAbout, Stream, EventOK, Opens
<1>6. run \notin Range(seen)
  BY DEF Stream
<1>7. CASE ~attached
  <2>1. chan' = chan
    BY <1>3, <1>7 DEF Says
  <2> QED BY <1>3, <1>5, <1>7, <2>1 DEF AskedAbout, ShownAbout, Opens
<1>8. CASE attached
  <2>1. chan' = chan \o << e >> /\ chan \in Seq(Events)
    BY <1>3, <1>8 DEF Says, TypeOK
  <2>2. /\ Len(chan) \in Nat /\ (\A i \in DOMAIN chan : i \in Nat /\ i <= Len(chan))
        /\ Len(chan) + 1 \in DOMAIN chan' /\ chan'[Len(chan) + 1] = e
        /\ \A i \in DOMAIN chan' : \/ i \in DOMAIN chan /\ chan'[i] = chan[i]
                                   \/ i = Len(chan) + 1 /\ chan'[i] = e
    BY <1>2, <2>1, JoinedOne
  <2>3. \A i \in DOMAIN chan' : Opens(chan'[i], q) => i = Len(chan) + 1
    BY <1>5, <2>2
  <2>4. \A j \in DOMAIN chan' : ~(IsEnd(chan'[j]) /\ chan'[j].turn = run)
    <3> TAKE j \in DOMAIN chan'
    <3>1. CASE j \in DOMAIN chan /\ chan'[j] = chan[j]
      BY <1>8, <3>1 DEF Stream, EventOK
    <3>2. CASE chan'[j] = e
      BY <1>1, <3>2 DEF IsEnd
    <3> QED BY <2>2, <3>1, <3>2
  <2>5. \A j \in DOMAIN chan' : Len(chan) + 1 < j => FALSE
    <3> TAKE j \in DOMAIN chan'
    <3>1. CASE j \in DOMAIN chan
      BY <2>2, <3>1
    <3>2. CASE j = Len(chan) + 1
      BY <2>2, <3>2
    <3> QED BY <2>2, <3>1, <3>2
  <2>6. \A i \in DOMAIN chan' : chan'[i].kind = "closed" => chan'[i].q # q
    BY <1>1, <1>5, <2>2
  <2>7. AskedAbout(q)'
    <3>1. q \notin open'
      BY <1>3, <1>5
    <3>2. ASSUME NEW i \in DOMAIN chan', Opens(chan'[i], q)
          PROVE  /\ q \notin open'
                 /\ \A j \in DOMAIN chan' : Opens(chan'[j], q) => j = i
                 /\ q \notin MessageMode => raisedBy'[q] \notin Range(seen')
                 /\ \A j \in DOMAIN chan' : IsEnd(chan'[j]) /\ chan'[j].turn = raisedBy'[q] => i < j
                 /\ \A j \in DOMAIN chan' : IsStart(chan'[j]) /\ i < j => raisedBy'[q] < chan'[j].turn
      <4>1. i = Len(chan) + 1
        BY <2>3, <3>2
      <4>2. \A j \in DOMAIN chan' : Opens(chan'[j], q) => j = i
        BY <2>3, <4>1
      <4>3. \A j \in DOMAIN chan' : ~(i < j)
        BY <2>5, <4>1
      <4> QED BY <1>3, <1>4, <1>6, <2>4, <3>1, <4>2, <4>3
    <3> QED BY <2>6, <3>1, <3>2 DEF AskedAbout, Opens
  <2>8. ShownAbout(q)'
    <3>1. Opens(chan'[Len(chan) + 1], q)
      BY <1>1, <2>2 DEF Opens
    <3> QED BY <1>3, <1>5, <2>2, <3>1 DEF ShownAbout, HasOpen, Opens
  <2> QED BY <2>7, <2>8
<1> QED BY <1>7, <1>8

\* As another question sees it.
LEMMA AsksOther ==
  ASSUME TypeOK, Process, Link, Stream, Asked, Shown, NEW q \in Questions, ProviderAsks(q), NEW p \in Questions, p # q
  PROVE  AskedAbout(p)' /\ ShownAbout(p)'
<1> DEFINE e == Event("opened", run, q)
<1>1. e.kind = "opened" /\ e.q = q
  BY DEF Event
<1>2. << e >> \in Seq(Events)
  <2>1. e \in Events
    BY TurnEventType DEF TypeOK
  <2> QED BY <2>1
<1>3. /\ asked \subseteq asked' /\ Says(<< e >>) /\ UNCHANGED << open, seen, attached >>
      /\ raisedBy' = [raisedBy EXCEPT ![q] = run] /\ (p \in held' <=> p \in held)
  BY DEF ProviderAsks, sesVars
<1>4. raisedBy'[p] = raisedBy[p]
  BY <1>3 DEF TypeOK
<1> HIDE DEF e
<1>5. \A i \in DOMAIN << e >> : << e >>[i] = e
  OBVIOUS
<1>6. \A i \in DOMAIN << e >> : ~Opens(<< e >>[i], p) /\ ~IsStart(<< e >>[i]) /\ << e >>[i].kind # "closed"
  BY <1>1, <1>5 DEF Opens, IsStart
<1>7. AskedAbout(p) /\ ShownAbout(p)
  BY DEF Asked, Shown
<1>8. AskedAbout(p)'
  BY <1>2, <1>3, <1>4, <1>6, <1>7, SaysAsked
<1>9. ShownAbout(p)'
  BY <1>2, <1>3, <1>4, <1>6, <1>7, SaysShown
<1> QED BY <1>8, <1>9

LEMMA NextQuestions ==
  ASSUME TypeOK, Process, Link, Stream, Control, Answering, Asked, Shown, [Next]_vars
  PROVE  Asked' /\ Shown'
<1> SUFFICES ASSUME NEW q \in Questions PROVE AskedAbout(q)' /\ ShownAbout(q)'
  BY DEF Asked, Shown
<1>0. AskedAbout(q) /\ ShownAbout(q)
  BY DEF Asked, Shown
<1>1. CASE UNCHANGED << open, seen, asked, raisedBy, chan, attached, held >>
  BY <1>0, <1>1 DEF AskedAbout, ShownAbout, HasOpen, Opens, Closes
<1>2. ASSUME NEW p \in Questions, ProviderAsks(p) PROVE AskedAbout(q)' /\ ShownAbout(q)'
  BY <1>2, AsksOwn, AsksOther
<1>3. CASE ProviderSteps /\ ~ \E p \in Questions : ProviderAsks(p)
  <2>1. PICK events \in Seq(Events) : NothingAsked(events)
    BY <1>3, ProviderSays
  <2>2. AskedAbout(q)'
    BY <1>0, <2>1, SaysAsked DEF NothingAsked
  <2>3. ShownAbout(q)'
    <3>1. CASE ~attached'
      BY <3>1 DEF ShownAbout
    <3>2. CASE attached'
      <4>1. \/ q \in held' <=> q \in held
            \/ q \notin held' /\ \E i \in DOMAIN events : Closes(events[i], q)
        BY <2>1, <3>2 DEF NothingAsked
      <4> QED BY <1>0, <2>1, <4>1, SaysShown DEF NothingAsked
    <3> QED BY <3>1, <3>2
  <2> QED BY <2>2, <2>3
<1>4. CASE HandleEvent
  BY <1>0, <1>4, HandleAsked, HandleShown
<1>5. CASE Attaches
  <2>1. attached' /\ open' = {} /\ UNCHANGED << held, raisedBy >>
    BY <1>5, AttachedSession
  <2>2. /\ \A i \in DOMAIN chan' : i \in Nat /\ i > 0 /\
              \/ i = 1 /\ run # 0 /\ chan'[i] = TurnEvent("started", run) /\ active' = 0
              \/ \E p \in held : chan'[i] = Event("opened", raisedBy[p], p)
        /\ \A p \in held : \E i \in DOMAIN chan' : chan'[i] = Event("opened", raisedBy[p], p)
        /\ \A i, j \in DOMAIN chan' : chan'[i].kind = "opened" /\ chan'[j].kind = "opened" /\ chan'[i].q = chan'[j].q => i = j
    BY <1>5, AttachedChan
  <2>3. \A i \in DOMAIN chan' : \/ i = 1 /\ IsStart(chan'[i])
                                \/ chan'[i].kind = "opened" /\ chan'[i].q \in held
    BY <2>2 DEF TurnEvent, Event, IsStart
  <2>4. \A i, j \in DOMAIN chan' : ~IsEnd(chan'[j]) /\ chan'[j].kind # "closed" /\ ~(IsStart(chan'[j]) /\ i < j)
    <3> TAKE i, j \in DOMAIN chan'
    <3>1. ~(i < 1)
      BY <2>2
    <3> QED BY <2>3, <3>1 DEF IsEnd, IsStart
  <2>5. seen' = << >>
    BY <1>5, AttachedSession
  <2>6. Range(seen') = {}
    BY <2>5 DEF Range
  <2>7. AskedAbout(q)'
    BY <2>1, <2>2, <2>4, <2>6 DEF AskedAbout, Opens
  <2>8. q \in held => \E i \in DOMAIN chan' : Opens(chan'[i], q)
    BY <2>2 DEF Opens, Event
  <2>9. \A i \in DOMAIN chan' : Opens(chan'[i], q) => q \in held
    BY <2>3 DEF Opens, IsStart
  <2>10. ShownAbout(q)'
    BY <2>1, <2>8, <2>9 DEF ShownAbout, HasOpen, Opens
  <2> QED BY <2>7, <2>10
<1>6. CASE Launches
  <2>1. chan' = << >> /\ open' = {} /\ held' = {}
    BY <1>6 DEF Launches, Register
  <2>2. DOMAIN chan' = {}
    BY <2>1
  <2> QED BY <2>1, <2>2 DEF AskedAbout, ShownAbout
<1>7. CASE Leaves
  <2>1. chan' = << >> /\ open' = {} /\ ~attached'
    BY <1>7 DEF Leaves
  <2>2. DOMAIN chan' = {}
    BY <2>1
  <2> QED BY <2>1, <2>2 DEF AskedAbout, ShownAbout
<1>8. ASSUME NEW p, Settles(p) PROVE AskedAbout(q)' /\ ShownAbout(q)'
  <2>1. /\ p \in MessageMode \/ ~HasOpen(p)
        /\ held' = held \ {p} /\ open' = open \ {p} /\ UNCHANGED << seen, asked, raisedBy, chan, attached >>
    BY <1>8 DEF Settles, CloseRequests
  <2>2. AskedAbout(q)'
    BY <1>0, <2>1 DEF AskedAbout, Opens
  <2>3. ShownAbout(q)'
    <3>1. CASE q = p
      BY <1>0, <2>1, <3>1 DEF ShownAbout, HasOpen, Opens
    <3>2. CASE q # p
      BY <1>0, <2>1, <3>2 DEF ShownAbout, HasOpen, Opens, Closes
    <3> QED BY <3>1, <3>2
  <2> QED BY <2>2, <2>3
<1>9. CASE UNCHANGED convVars \/ Owns
  <2>1. UNCHANGED << open, seen, asked, raisedBy, chan, attached, held >>
    BY <1>9 DEF convVars, Owns, procVars, linkVars
  <2> QED BY <1>1, <2>1
<1> QED BY StepKinds, <1>2, <1>3, <1>4, <1>5, <1>6, <1>7, <1>8, <1>9 DEF ProviderSteps, SessionSteps

-----------------------------------------------------------------------------
(***************************************************************************)
(* A question that is being answered.                                      *)
(***************************************************************************)

\* While the same command runs, nothing opens a question raised before.
LEMMA AnsweringStays ==
  ASSUME Answering, pc' = pc, pc \in { "answering", "sending", "steering" } => Head(lock') = Head(lock), loaded' => loaded,
         asked \subseteq asked', \A q \in asked : HasOpen(q)' => HasOpen(q)
  PROVE  Answering'
<1>1. CASE pc \in { "answering", "sending", "steering" }
  <2>1. Running' = Running
    BY <1>1 DEF Running
  <2>2. \A q \in asked : HasOpen(q)' => HasOpen(q)
    OBVIOUS
  <2> HIDE DEF HasOpen, Running
  <2>3. \A q : Running'.q = q => (HasOpen(Running.q)' <=> HasOpen(q)')
    BY DEF HasOpen
  <2> QED BY <2>1, <2>2, <2>3 DEF Answering
<1>2. CASE pc \notin { "answering", "sending", "steering" }
  BY <1>2 DEF Answering
<1> QED BY <1>1, <1>2

LEMMA ProviderAnswering ==
  ASSUME TypeOK, Process, Link, Stream, Answering, Provider
  PROVE  Answering'
<1>1. UNCHANGED << pc, lock, loaded >> /\ asked \subseteq asked'
  BY DEF Provider, ProviderStartsTurn, ProviderItem, ProviderEndsTurn, ProcessDies, LinkLost, ProviderAsks, ProviderWithdraws,
         procVars, sesVars, lockVars
<1>2. \A q \in asked : HasOpen(q)' => HasOpen(q)
  <2>1. CASE \E p \in Questions : ProviderAsks(p)
    <3>1. PICK p \in Questions : ProviderAsks(p)
      BY <2>1
    <3> DEFINE e == Event("opened", run, p)
    <3>2. e \in Events /\ e.q = p
      BY TurnEventType DEF TypeOK, Event
    <3>3. p \notin asked /\ Says(<< e >>) /\ chan \in Seq(Events)
      BY <3>1 DEF ProviderAsks, TypeOK
    <3> HIDE DEF e
    <3>4. \A i \in DOMAIN chan' : (i \in DOMAIN chan /\ chan'[i] = chan[i]) \/ chan'[i] = e
      BY <3>2, <3>3, JoinedOne DEF Says
    <3> QED BY <3>2, <3>3, <3>4 DEF HasOpen, Opens
  <2>2. CASE ~ \E p \in Questions : ProviderAsks(p)
    <3>1. CASE ProviderSteps
      <4>1. PICK events \in Seq(Events) : NothingAsked(events)
        BY <2>2, <3>1, ProviderSays
      <4>2. Says(events) /\ chan \in Seq(Events) /\ \A q \in asked : \A i \in DOMAIN events : ~Opens(events[i], q)
        BY <4>1 DEF NothingAsked, TypeOK
      <4>3. \A i \in DOMAIN chan' : (i \in DOMAIN chan /\ chan'[i] = chan[i])
                                    \/ \E j \in DOMAIN events : chan'[i] = events[j]
        BY <4>2, Joined DEF Says
      <4> QED BY <4>2, <4>3 DEF HasOpen
    <3> QED BY <3>1, ProviderKinds
  <2> QED BY <2>1, <2>2
<1> QED BY <1>1, <1>2, AnsweringStays

LEMMA NextAnswering ==
  ASSUME TypeOK, Process, Link, Stream, Control, Answering, Asked, [Next]_vars
  PROVE  Answering'
<1>1. CASE pc' \notin { "answering", "sending", "steering" }
  BY <1>1 DEF Answering
<1>2. CASE Provider
  BY <1>2, ProviderAnswering
<1>3. CASE HandleEvent
  <2>1. /\ loaded /\ UNCHANGED asked /\ chan \in Seq(Events) /\ chan # << >>
        /\ (loaded' = loaded /\ chan' = Tail(chan)) \/ chan' = << >>
    BY <1>3, Handled DEF procVars, Lose, TypeOK
  <2>2. UNCHANGED pc
    BY <1>3 DEF HandleEvent, HandleStarted, HandleItem, HandleOpened, HandleClosed, HandleTerminal, HandleLastTerminal,
                HandleError, lockVars
  <2>3. lock' = lock \/ Enqueue(<< Command("refresh") >>)
    BY <1>3 DEF HandleEvent, HandleStarted, HandleItem, HandleOpened, HandleClosed, HandleTerminal, HandleLastTerminal,
                HandleError, lockVars
  <2>4. pc # "idle" => Head(lock') = Head(lock)
    BY <2>3, RefreshKept DEF Control
  <2>5. \A q \in asked : HasOpen(q)' => HasOpen(q)
    <3>1. CASE chan' = Tail(chan)
      BY <2>1, <3>1, Rest DEF HasOpen
    <3>2. CASE chan' = << >>
      <4>1. DOMAIN chan' = {}
        BY <3>2
      <4> QED BY <4>1 DEF HasOpen
    <3> QED BY <2>1, <3>1, <3>2
  <2>6. pc \in { "answering", "sending", "steering" } => pc # "idle"
    OBVIOUS
  <2> QED BY <2>1, <2>2, <2>4, <2>5, <2>6, AnsweringStays
<1>4. CASE ReportLoss \/ TimerFires \/ Reconcile \/ \E kind \in Kinds, q \in Questions \cup { NoQuestion } : Ask(kind, q)
  <2>1. UNCHANGED << pc, loaded, asked, chan >>
    BY <1>4 DEF ReportLoss, TimerFires, Reconcile, Ask, procVars, linkVars, sesVars, lockVars
  <2>2. pc # "idle" => Head(lock') = Head(lock)
    <3>1. CASE ReportLoss
      BY <3>1, QueueKept, CommandType DEF ReportLoss, Control
    <3>2. CASE TimerFires
      BY <3>2 DEF TimerFires, lockVars
    <3>3. CASE Reconcile
      BY <3>3 DEF Reconcile, Control
    <3>4. ASSUME NEW kind \in Kinds, NEW q \in Questions \cup { NoQuestion }, Ask(kind, q), pc # "idle"
          PROVE  Head(lock') = Head(lock)
      <4>1. [kind |-> kind, q |-> q] \in Commands /\ lock \in Seq(Commands) /\ lock # << >>
        BY <3>4 DEF Commands, TypeOK, Control
      <4> QED BY <3>4, <4>1, AppendProperties, Rest DEF Ask
    <3> QED BY <1>4, <3>1, <3>2, <3>3, <3>4
  <2>3. \A q \in asked : HasOpen(q)' => HasOpen(q)
    BY <2>1 DEF HasOpen
  <2>4. pc \in { "answering", "sending", "steering" } => pc # "idle"
    OBVIOUS
  <2> QED BY <2>1, <2>2, <2>3, <2>4, AnsweringStays
<1>5. CASE SubmitHuman \/ DeliverAutomatic \/ SteerRefused
  <2>1. pc' \in { "idle", "sending", "steering" } /\ (pc' # "idle" => lock' = lock)
    BY <1>5 DEF SubmitHuman, DeliverAutomatic, SteerRefused, SendTurn, Finish
  <2>2. Running.kind = "answer" => Running.q \in MessageMode
    BY <1>5 DEF SubmitHuman, DeliverAutomatic, SteerRefused, Ready, AtFront, AnswersByMessage, Answering
  <2> QED BY <2>1, <2>2 DEF Answering, Running
<1>6. CASE Respond
  <2>1. Running.q \in open /\ open \subseteq Questions
    BY <1>6 DEF Respond, TypeOK
  <2>2. Running.q \in asked /\ ~HasOpen(Running.q)
    BY <2>1 DEF Asked, AskedAbout, HasOpen
  <2>3. UNCHANGED << lock, chan, asked >> /\ pc' = "answering"
    BY <1>6 DEF Respond, procVars, linkVars
  <2> QED BY <2>2, <2>3 DEF Answering, HasOpen, Running
<1>7. CASE UNCHANGED vars
  BY <1>7 DEF vars, procVars, linkVars, sesVars, lockVars, Answering, HasOpen, Running
<1>8. CASE RunCommand /\ ~(SubmitHuman \/ DeliverAutomatic \/ SteerRefused \/ Respond)
  <2>1. CASE BeginLoad \/ NothingToLoad \/ BeginAdopt \/ Adopted \/ AdoptionSettles \/ NoSurvivor \/ SurvivorBusy
             \/ Resumed \/ ResumeFails
    BY <1>1, <2>1 DEF BeginLoad, NothingToLoad, BeginAdopt, Adopted, AdoptionSettles, NoSurvivor, SurvivorBusy, Resumed,
                ResumeFails, NothingAdopted, SettleAndRestore, Finish
  <2>2. CASE SteerTaken \/ SendResolves \/ SendFails \/ StopUnreachable \/ Interrupt \/ InterruptAccepted \/ InterruptFails
             \/ RespondToNothing \/ RespondSettles \/ RespondFails
    BY <1>1, <2>2 DEF SteerTaken, SendResolves, SendFails, StopUnreachable, Interrupt, InterruptAccepted, InterruptFails,
                RespondToNothing, RespondSettles, RespondFails, Finish
  <2>3. CASE Sleep \/ FallAsleep \/ StayAwake \/ BeginRelease \/ AlreadyReleased \/ Released \/ ReleaseFails \/ SettleLoss
             \/ Refresh
    BY <1>1, <2>3 DEF Sleep, FallAsleep, StayAwake, BeginRelease, AlreadyReleased, Released, ReleaseFails, SettleLoss,
                Refresh, Finish
  <2> QED BY <1>8, <2>1, <2>2, <2>3 DEF RunCommand
<1>9. CASE Restart
  BY <1>1, <1>9 DEF Restart
<1> QED BY <1>2, <1>3, <1>4, <1>5, <1>6, <1>7, <1>8, <1>9 DEF Next

-----------------------------------------------------------------------------
(***************************************************************************)
(* What the person was told.                                               *)
(***************************************************************************)

\* A row that is over stays over, where one process serves every conversation.
LEMMA OverStays ==
  ASSUME Control, ~PerSession, status = "ended", [Next]_vars
  PROVE  status' = "ended"
<1>1. ~Live /\ pc \in { "idle", "releasing" } /\ pc # "releasing" /\ ~loaded
  BY DEF Live, Control
<1>2. CASE Provider
  BY <1>2 DEF Provider, ProviderStartsTurn, ProviderItem, ProviderEndsTurn, ProcessDies, LinkLost, ProviderAsks,
              ProviderWithdraws, rowVars
<1>3. CASE HandleEvent
  BY <1>1, <1>3 DEF HandleEvent, HandleStarted, HandleItem, HandleOpened, HandleClosed, HandleTerminal, HandleLastTerminal,
              HandleError, Arrives
<1>4. CASE ReportLoss \/ TimerFires \/ Reconcile \/ Restart \/ \E kind \in Kinds, q \in Questions \cup { NoQuestion } : Ask(kind, q)
  BY <1>4 DEF ReportLoss, TimerFires, Reconcile, Restart, Ask, rowVars
<1>5. CASE BeginLoad \/ NothingToLoad \/ BeginAdopt \/ Adopted \/ AdoptionSettles \/ NoSurvivor \/ SurvivorBusy
           \/ Resumed \/ ResumeFails
  BY <1>1, <1>5 DEF BeginLoad, NothingToLoad, BeginAdopt, Adopted, AdoptionSettles, NoSurvivor, SurvivorBusy, Resumed,
              ResumeFails, rowVars
<1>6. CASE SubmitHuman \/ DeliverAutomatic \/ SteerTaken \/ SteerRefused \/ SendResolves \/ SendFails
  BY <1>6 DEF SubmitHuman, DeliverAutomatic, SteerTaken, SteerRefused, SendResolves, SendFails, rowVars
<1>7. CASE StopUnreachable \/ Interrupt \/ InterruptAccepted \/ InterruptFails
           \/ RespondToNothing \/ Respond \/ RespondSettles \/ RespondFails
  BY <1>7 DEF StopUnreachable, Interrupt, InterruptAccepted, InterruptFails, RespondToNothing, Respond, RespondSettles,
              RespondFails, rowVars
<1>8. CASE Sleep \/ FallAsleep \/ StayAwake \/ BeginRelease \/ AlreadyReleased \/ Released \/ ReleaseFails \/ SettleLoss
           \/ Refresh
  BY <1>8 DEF Sleep, FallAsleep, StayAwake, BeginRelease, AlreadyReleased, Released, ReleaseFails, SettleLoss, Refresh,
              rowVars
<1>9. CASE UNCHANGED vars
  BY <1>9 DEF vars, rowVars
<1> QED BY <1>2, <1>3, <1>4, <1>5, <1>6, <1>7, <1>8, <1>9 DEF Next, RunCommand

\* Closing questions leaves the others announced.
LEMMA CloseAnnounced ==
  ASSUME NEW gone, CloseRequests(gone), spid' = spid, NEW r, r \in Announced, r \notin gone \/ open \cap gone = {}
  PROVE  announced'.pid = spid /\ r \in announced'.ids
<1>1. announced.pid = spid /\ r \in announced.ids
  BY DEF Announced
<1>2. CASE open \cap gone = {} \/ gone \cap Announced = {}
  <2>1. announced' = announced
    BY <1>2 DEF CloseRequests, reqVars
  <2> QED BY <1>1, <2>1
<1>3. CASE ~(open \cap gone = {} \/ gone \cap Announced = {})
  <2>1. r \notin gone /\ Announce(Announced \ gone)
    BY <1>3 DEF CloseRequests
  <2>2. Announced \ gone # {} /\ r \in Announced \ gone
    BY <2>1
  <2>3. announced' = [pid |-> spid, ids |-> Announced \ gone]
    BY <2>1, <2>2 DEF Announce
  <2> QED BY <2>2, <2>3
<1> QED BY <1>2, <1>3

\* A step that tells nobody and leaves announced what is still asked.
LEMMA TellingStays ==
  ASSUME Telling, ~PerSession, UNCHANGED << told, pids >>, asked \subseteq asked',
         status' # "ended" => status # "ended",
         loaded' => loaded /\ spid' = spid,
         loaded' => \A q \in Questions : HasOpen(q)' =>
                      told[spid][q] # 1 \/ (HasOpen(q) /\ (q \in Announced => q \in Announced')),
         \A q \in held' : told[pid'][q] = 1 =>
                      /\ pid' = pid /\ q \in held
                      /\ announced.pid = pid /\ q \in announced.ids => announced'.pid = pid /\ q \in announced'.ids
  PROVE  Telling'
<1>1. \A p \in 1..MaxPids, q \in Questions : told'[p][q] <= 1 /\ (told'[p][q] = 1 => p <= pids' /\ (p = pids' => q \in asked'))
  BY DEF Telling
<1>2. ASSUME loaded', NEW q \in Questions, HasOpen(q)', told'[spid'][q] = 1 PROVE q \in Announced'
  BY <1>2 DEF Telling
<1>3. ASSUME status' # "ended", NEW q \in held', told'[pid'][q] = 1 PROVE announced'.pid = pid' /\ q \in announced'.ids
  BY <1>3 DEF Telling
<1> QED BY <1>1, <1>2, <1>3 DEF Telling

\* What an event leaves announced.
LEMMA HandledAnnounced ==
  ASSUME TypeOK, Process, Link, Stream, Asked, ~PerSession, HandleEvent, ~HandleOpened,
         NEW r \in Questions, r \in Announced,
         loaded', r \in held \/ (HasOpen(r) /\ HasOpen(r)')
  PROVE  announced'.pid = spid /\ r \in announced'.ids
<1>0. announced.pid = spid /\ r \in announced.ids
  BY DEF Announced
<1>1. /\ UNCHANGED spid /\ loaded /\ Next1 \in Events /\ EventOK(Next1) /\ chan # << >> /\ Next1 = chan[1] /\ 1 \in DOMAIN chan
  BY Handled
<1>2. HasOpen(r) => r \notin open
  BY DEF HasOpen, Asked, AskedAbout
<1>3. r \in held => raisedBy[r] = run /\ run # 0 /\ run = turns
  BY DEF Process
<1>4. CASE HandleStarted
  <2> DEFINE gone == { q \in open : raisedBy[q] # Next1.turn } \ MessageMode
  <2>1. CloseRequests(gone) /\ IsStart(Next1)
    BY <1>4 DEF HandleStarted, Arrives, DropRequests, IsStart
  <2>2. r \notin gone
    <3>1. CASE r \in held /\ r \in open
      <4>1. run < Next1.turn
        BY <1>1, <1>3, <2>1, <3>1 DEF Asked, AskedAbout
      <4>2. Next1.turn \in 1..turns
        BY <1>1, <2>1 DEF EventOK, OfTurn, IsStart
      <4> QED BY <1>3, <3>1, <4>1, <4>2, RowAssumption DEF TypeOK
    <3>2. CASE r \notin open
      BY <3>2
    <3> QED BY <1>2, <3>1, <3>2
  <2> HIDE DEF gone
  <2> QED BY <1>1, <2>1, <2>2, CloseAnnounced
<1>5. CASE HandleItem
  BY <1>0, <1>5 DEF HandleItem, reqVars
<1>6. CASE HandleClosed
  <2>1. CloseRequests({ Next1.q }) /\ Next1.kind = "closed"
    BY <1>6 DEF HandleClosed, Arrives
  <2>2. r \notin { Next1.q } \/ open \cap { Next1.q } = {}
    <3>1. r \in held => r # Next1.q
      BY <1>1, <2>1 DEF Asked, AskedAbout
    <3> QED BY <1>2, <3>1
  <2> QED BY <1>1, <2>1, <2>2, CloseAnnounced
<1>7. CASE HandleTerminal
  <2>1. CASE Next1.turn \in Range(seen)
    BY <1>0, <1>7, <2>1 DEF HandleTerminal, reqVars
  <2>2. CASE Next1.turn \notin Range(seen)
    <3> DEFINE gone == { q \in open : raisedBy[q] = Next1.turn } \ MessageMode
    <3>1. CloseRequests(gone) /\ IsEnd(Next1) /\ Next1.usable
      BY <1>7, <2>2 DEF HandleTerminal, Arrives, DropRequests, IsEnd
    <3>2. r \notin gone
      <4>1. Next1.turn # run
        BY <1>1, <3>1 DEF EventOK
      <4> QED BY <1>2, <1>3, <4>1
    <3> HIDE DEF gone
    <3> QED BY <1>1, <3>1, <3>2, CloseAnnounced
  <2> QED BY <2>1, <2>2
<1>8. CASE HandleLastTerminal \/ HandleError
  BY <1>8 DEF HandleLastTerminal, HandleError, Lose, Forget
<1> QED BY <1>4, <1>5, <1>6, <1>7, <1>8 DEF HandleEvent

\* A question that was not told of yet is, and written down.
LEMMA OpenedTelling ==
  ASSUME TypeOK, Process, Link, Stream, Telling, ~PerSession, HandleOpened, Next1.q \notin open, Next1.q \notin Announced
  PROVE  Telling'
<1> DEFINE n == Next1.q
<1>0. TypeOK'
  BY HandleTypes DEF HandleEvent
<1>1. /\ UNCHANGED << pid, pids, asked, held, loaded, status, spid >> /\ loaded /\ chan # << >> /\ chan' = Tail(chan)
      /\ told' = [told EXCEPT ![spid][n] = @ + 1]
      /\ announced' = [pid |-> spid, ids |-> Announced \cup {n}]
  BY DEF HandleOpened, Arrives, procVars, rowVars, Announce
<1>2. spid = pids /\ spid # 0 /\ spid \in 1..MaxPids
  BY <1>1, RowAssumption DEF Link, TypeOK
<1>3. HandleEvent /\ chan[1] = Next1 /\ 1 \in DOMAIN chan /\ EventOK(Next1) /\ Next1.kind = "opened" /\ chan \in Seq(Events)
  BY <1>1, Handled DEF HandleEvent, HandleOpened, Arrives, TypeOK
<1>4. n \in asked /\ n \in Questions
  BY <1>3 DEF EventOK, TypeOK
<1>5. HasOpen(n)
  BY <1>3 DEF HasOpen, Opens
<1>6. told[spid][n] \in Nat /\ told[spid][n] # 1 /\ told[spid][n] <= 1
  <2>1. told \in [1..MaxPids -> [Questions -> Nat]]
    BY DEF TypeOK
  <2>2. told[spid][n] \in Nat
    BY <1>2, <1>4, <2>1
  <2>3. told[spid][n] <= 1
    BY <1>2, <1>4 DEF Telling
  <2>4. told[spid][n] # 1
    BY <1>1, <1>4, <1>5 DEF Telling
  <2> QED BY <2>2, <2>3, <2>4
<1>7. told[spid][n] = 0 /\ told[spid][n] + 1 = 1
  BY <1>6
<1> HIDE DEF n
<1>8. \A p \in 1..MaxPids, q \in Questions : told'[p][q] = IF p = spid /\ q = n THEN 1 ELSE told[p][q]
  BY <1>1, <1>2, <1>4, <1>7 DEF TypeOK
<1>9. \A q \in Questions : HasOpen(q)' => HasOpen(q)
  BY <1>1, <1>3, Rest DEF HasOpen
<1>10. Announced' = Announced \cup {n}
  BY <1>1 DEF Announced
<1>11. \A p \in 1..MaxPids, q \in Questions : told'[p][q] <= 1 /\ (told'[p][q] = 1 => p <= pids' /\ (p = pids' => q \in asked'))
  <2> TAKE p \in 1..MaxPids, q \in Questions
  <2>1. CASE p = spid /\ q = n
    <3>1. told'[p][q] = 1
      BY <1>8, <2>1
    <3>2. p <= pids' /\ q \in asked'
      BY <1>1, <1>2, <1>4, <2>1, RowAssumption DEF TypeOK
    <3> QED BY <3>1, <3>2
  <2>2. CASE ~(p = spid /\ q = n)
    <3>1. told'[p][q] = told[p][q]
      BY <1>8, <2>2
    <3> QED BY <1>1, <3>1 DEF Telling
  <2> QED BY <2>1, <2>2
<1>12. ASSUME NEW q \in Questions, HasOpen(q)', told'[spid'][q] = 1 PROVE q \in Announced'
  BY <1>1, <1>2, <1>8, <1>9, <1>10, <1>12 DEF Telling
<1>13. ASSUME status' # "ended", NEW q \in held', told'[pid'][q] = 1 PROVE announced'.pid = pid' /\ q \in announced'.ids
  <2>1. pid = spid /\ q \in Questions /\ q \in held
    BY <1>1, <1>2, <1>13 DEF Process, TypeOK
  <2>2. CASE q = n
    BY <1>1, <2>1, <2>2
  <2>3. CASE q # n
    <3>1. told[pid][q] = 1
      BY <1>1, <1>2, <1>8, <1>13, <2>1, <2>3
    <3>2. announced.pid = pid /\ q \in announced.ids
      BY <1>1, <1>13, <2>1, <3>1 DEF Telling
    <3> QED BY <1>1, <2>1, <3>2 DEF Announced
  <2> QED BY <2>2, <2>3
<1> QED BY <1>11, <1>12, <1>13 DEF Telling

LEMMA NextTelling ==
  ASSUME TypeOK, Process, Link, Stream, Control, Answering, Asked, Telling, [Next]_vars
  PROVE  Telling'
<1> SUFFICES ASSUME ~PerSession PROVE Telling'
  BY DEF Telling
<1>0. status' # "ended" => status # "ended"
  BY OverStays
<1>t. held \subseteq asked /\ asked \subseteq Questions /\ chan \in Seq(Events)
  BY DEF TypeOK
<1>1. CASE UNCHANGED convVars \/ Owns
  <2>1. UNCHANGED << pid, pids, held, asked, chan, loaded, spid, announced, told >>
    BY <1>1 DEF convVars, Owns, procVars, linkVars
  <2> QED BY <1>0, <2>1, TellingStays DEF HasOpen, Announced
<1>2. ASSUME NEW p \in Questions, ProviderAsks(p) PROVE Telling'
  <2> DEFINE e == Event("opened", run, p)
  <2>1. /\ UNCHANGED << pid, pids, loaded, spid, announced, told >> /\ asked' = asked \cup {p} /\ p \notin asked
        /\ Says(<< e >>) /\ held' \subseteq held \cup {p} /\ run # 0
    BY <1>2 DEF ProviderAsks, sesVars, reqVars, histVars
  <2>2. e \in Events /\ e.q = p
    BY TurnEventType DEF TypeOK, Event
  <2> HIDE DEF e
  <2>3. \A q \in Questions : HasOpen(q)' => q = p \/ HasOpen(q)
    <3>1. \A i \in DOMAIN chan' : (i \in DOMAIN chan /\ chan'[i] = chan[i]) \/ chan'[i] = e
      BY <1>t, <2>1, <2>2, JoinedOne DEF Says
    <3> QED BY <2>2, <3>1 DEF HasOpen, Opens
  <2>4. pid = pids /\ pid \in 1..MaxPids /\ told[pid][p] # 1
    <3>1. pid = pids /\ pid # 0
      BY <2>1 DEF Process
    <3>2. pid \in 1..MaxPids
      BY <3>1, RowAssumption DEF TypeOK
    <3> QED BY <2>1, <3>1, <3>2 DEF Telling
  <2>5. loaded => spid = pid
    BY <2>4 DEF Link
  <2>6. \A q \in Questions : q \in Announced => q \in Announced'
    BY <2>1 DEF Announced
  <2>7. \A q \in held' : q = p \/ q \in held
    BY <2>1
  <2> QED BY <1>0, <2>1, <2>3, <2>4, <2>5, <2>6, <2>7, TellingStays
<1>3. CASE ProviderSteps /\ ~ \E p \in Questions : ProviderAsks(p)
  <2>1. PICK events \in Seq(Events) : NothingAsked(events)
    BY <1>3, ProviderSays
  <2>2. /\ UNCHANGED << pids, spid, announced, told >>
        /\ (pid' = pid \/ held' = {})
    BY <1>3 DEF ProviderSteps, TurnBegins, ProviderItem, TurnEnds, ProcessDies, LinkLost, ProviderWithdraws, SessionStays,
                procVars, sesVars, reqVars, histVars
  <2>3. /\ Says(events) /\ UNCHANGED << asked, loaded >> /\ \A q \in Questions : q \in held' => q \in held
        /\ \A q \in Questions : \A i \in DOMAIN events : ~Opens(events[i], q)
    BY <2>1 DEF NothingAsked
  <2>4. \A q \in Questions : HasOpen(q)' => HasOpen(q)
    <3>1. \A i \in DOMAIN chan' : (i \in DOMAIN chan /\ chan'[i] = chan[i]) \/ \E j \in DOMAIN events : chan'[i] = events[j]
      BY <1>t, <2>1, <2>3, Joined DEF Says
    <3> QED BY <2>3, <3>1 DEF HasOpen
  <2>5. \A q \in Questions : q \in Announced => q \in Announced'
    BY <2>2 DEF Announced
  <2>6. \A q \in held' : pid' = pid /\ q \in held
    <3>1. held' \subseteq Questions
      <4>1. TypeOK'
        BY NextTypes
      <4> QED BY <4>1 DEF TypeOK
    <3> QED BY <2>2, <2>3, <3>1
  <2> QED BY <1>0, <2>2, <2>3, <2>4, <2>5, <2>6, TellingStays
<1>4. CASE HandleEvent
  <2>1. CASE HandleOpened /\ Next1.q \notin open /\ Next1.q \notin Announced
    BY <2>1, OpenedTelling
  <2>2. CASE ~(HandleOpened /\ Next1.q \notin open /\ Next1.q \notin Announced)
    <3>1. UNCHANGED << pid, pids, held, asked, spid, told >> /\ loaded
      <4>1. UNCHANGED << pid, pids, held, asked, spid >> /\ loaded
        BY <1>4, Handled DEF procVars
      <4>2. UNCHANGED told
        BY <1>4, <2>2 DEF HandleEvent, HandleStarted, HandleItem, HandleOpened, HandleClosed, HandleTerminal,
                          HandleLastTerminal, HandleError, histVars
      <4> QED BY <4>1, <4>2
    <3>2. (loaded' /\ chan' = Tail(chan) /\ chan # << >>) \/ ~loaded'
      BY <1>4, Handled DEF Lose, Forget
    <3>3. \A q \in Questions : loaded' /\ HasOpen(q)' => HasOpen(q)
      BY <1>t, <3>2, Rest DEF HasOpen
    <3>4. \A q \in Questions : loaded' /\ q \in Announced /\ (q \in held \/ (HasOpen(q) /\ HasOpen(q)'))
                                 => announced'.pid = spid /\ q \in announced'.ids
      <4>1. CASE HandleOpened
        <5>1. UNCHANGED announced
          BY <2>2, <4>1 DEF HandleOpened, reqVars
        <5> QED BY <5>1 DEF Announced
      <4>2. CASE ~HandleOpened
        BY <1>4, <4>2, HandledAnnounced
      <4> QED BY <4>1, <4>2
    <3>5. \A q \in Questions : loaded' /\ HasOpen(q)' => HasOpen(q) /\ (q \in Announced => q \in Announced')
      BY <3>1, <3>3, <3>4 DEF Announced
    <3>6. ASSUME NEW q \in held, announced.pid = pid, q \in announced.ids
          PROVE  announced'.pid = pid /\ q \in announced'.ids
      <4>1. CASE loaded'
        <5>1. spid = pid
          BY <3>1, <3>6 DEF Link, Process
        <5> QED BY <1>t, <3>4, <3>6, <4>1, <5>1 DEF Announced
      <4>2. CASE ~loaded'
        <5>1. HandleError
          <6>1. EventOK(Next1)
            BY <1>4, Handled
          <6>2. ~HandleLastTerminal
            BY <6>1 DEF EventOK, HandleLastTerminal
          <6> QED BY <1>4, <3>1, <4>2, <6>2 DEF HandleEvent, HandleStarted, HandleItem, HandleOpened, HandleClosed,
                                     HandleTerminal, sesVars
        <5> QED BY <3>6, <5>1 DEF HandleError
      <4> QED BY <4>1, <4>2
    <3> QED BY <1>0, <3>1, <3>2, <3>5, <3>6, TellingStays
  <2> QED BY <2>1, <2>2
<1>5. CASE Attaches
  <2>1. spid' = pid /\ pid # 0 /\ UNCHANGED << pid, pids, held, asked, announced, told >>
    BY <1>5, AttachedSession
  <2>2. \A i \in DOMAIN chan' : \/ IsStart(chan'[i])
                                \/ \E q \in held : chan'[i] = Event("opened", raisedBy[q], q)
    <3>1. \A i \in DOMAIN chan' : \/ chan'[i] = TurnEvent("started", run)
                                  \/ \E q \in held : chan'[i] = Event("opened", raisedBy[q], q)
      BY <1>5, AttachedChan
    <3> QED BY <3>1 DEF TurnEvent, Event, IsStart
  <2>3. \A q \in Questions : HasOpen(q)' => q \in held
    BY <2>2 DEF HasOpen, Opens, IsStart, Event
  <2>4. status # "ended"
    <3>1. Control'
      BY NextControl
    <3>2. loaded'
      BY <1>5, AttachedSession
    <3> QED BY <1>0, <3>1, <3>2 DEF Control
  <2>5. \A q \in held : told[pid][q] = 1 => announced.pid = pid /\ q \in announced.ids
    BY <2>4 DEF Telling
  <2>6. \A q \in Questions : HasOpen(q)' /\ told'[spid'][q] = 1 => q \in Announced'
    BY <2>1, <2>3, <2>5 DEF Announced
  <2> QED BY <2>1, <2>5, <2>6 DEF Telling
<1>6. CASE Launches
  <2>1. pids' = pids + 1 /\ pids \in Nat /\ held' = {} /\ chan' = << >> /\ UNCHANGED told
    BY <1>6, RowAssumption DEF Launches, Register, TypeOK
  <2>2. DOMAIN chan' = {}
    BY <2>1
  <2>3. \A p \in 1..MaxPids : p \in Nat /\ (p <= pids => p <= pids' /\ p # pids')
    BY <2>1
  <2> QED BY <2>1, <2>2, <2>3 DEF Telling, HasOpen
<1>7. CASE Leaves
  <2>1. /\ ~loaded' /\ UNCHANGED << pids, asked, told >>
        /\ (pid' = pid /\ held' = held) \/ held' = {}
        /\ UNCHANGED announced \/ held' = {} \/ status' = "ended"
    BY <1>7 DEF Leaves
  <2>2. ASSUME status' # "ended", NEW q \in held', told'[pid'][q] = 1 PROVE announced'.pid = pid' /\ q \in announced'.ids
    BY <1>0, <2>1, <2>2 DEF Telling
  <2> QED BY <2>1, <2>2 DEF Telling
<1>8. ASSUME NEW p, Settles(p) PROVE Telling'
  <2>1. /\ held' = held \ {p} /\ CloseRequests({p}) /\ UNCHANGED << pid, pids, asked, chan, loaded, spid, told >>
    BY <1>8 DEF Settles
  <2>2. \A q \in Questions : HasOpen(q)' => HasOpen(q) /\ q \notin open
    BY <2>1 DEF HasOpen, Asked, AskedAbout
  <2>3. \A q : q \in Announced /\ (q # p \/ q \notin open) => announced'.pid = spid /\ q \in announced'.ids
    <3> TAKE q
    <3>1. CASE q # p
      BY <2>1, <3>1, CloseAnnounced
    <3>2. CASE q = p /\ q \notin open
      <4>1. open \cap {p} = {}
        BY <3>2
      <4> QED BY <2>1, <4>1, CloseAnnounced
    <3> QED BY <3>1, <3>2
  <2>4. \A q \in Questions : HasOpen(q)' => HasOpen(q) /\ (q \in Announced => q \in Announced')
    BY <2>1, <2>2, <2>3 DEF Announced
  <2>5. ASSUME NEW q \in held', announced.pid = pid, q \in announced.ids
        PROVE  announced'.pid = pid /\ q \in announced'.ids
    <3>1. q # p /\ q \in held
      BY <2>1
    <3>2. CASE open \cap {p} = {}
      BY <2>1, <2>5, <3>2 DEF CloseRequests, reqVars
    <3>3. CASE open \cap {p} # {}
      <4>1. loaded /\ spid = pid
        BY <3>1, <3>3 DEF Link, Process
      <4> QED BY <2>3, <2>5, <3>1, <4>1 DEF Announced
    <3> QED BY <3>2, <3>3
  <2> QED BY <1>0, <2>1, <2>4, <2>5, TellingStays
<1> QED BY StepKinds, <1>1, <1>2, <1>3, <1>4, <1>5, <1>6, <1>7, <1>8 DEF ProviderSteps, SessionSteps

-----------------------------------------------------------------------------
(***************************************************************************)
(* The active turn.                                                        *)
(***************************************************************************)

\* What is said joins what is unread.
LEMMA Grown ==
  ASSUME TypeOK, NEW events \in Seq(Events), Says(events), attached
  PROVE  /\ \A i \in DOMAIN chan' : (i \in DOMAIN chan /\ chan'[i] = chan[i]) \/ \E j \in DOMAIN events : chan'[i] = events[j]
         /\ \A j \in DOMAIN events : \E i \in DOMAIN chan' : chan'[i] = events[j]
         /\ \A t : (HasStart(t) => HasStart(t)') /\ (HasEnd(t) => HasEnd(t)')
<1>1. chan' = chan \o events /\ chan \in Seq(Events)
  BY DEF Says, TypeOK
<1>2. /\ \A i \in DOMAIN chan : i \in DOMAIN chan' /\ chan'[i] = chan[i]
      /\ \A i \in DOMAIN events : Len(chan) + i \in DOMAIN chan' /\ chan'[Len(chan) + i] = events[i]
      /\ \A i \in DOMAIN chan' : \/ i \in DOMAIN chan /\ chan'[i] = chan[i]
                                 \/ i - Len(chan) \in DOMAIN events /\ chan'[i] = events[i - Len(chan)]
  BY <1>1, JoinedEvents
<1> QED BY <1>2 DEF HasStart, HasEnd

\* An event that is read was the first.
LEMMA ReadOff ==
  ASSUME TypeOK, chan # << >>, chan' = Tail(chan)
  PROVE  \A t : /\ HasStart(t)' => HasStart(t)
                /\ HasEnd(t)' => HasEnd(t)
                /\ HasStart(t) /\ ~(IsStart(Next1) /\ Next1.turn = t) => HasStart(t)'
                /\ HasEnd(t) /\ ~(IsEnd(Next1) /\ Next1.turn = t) => HasEnd(t)'
<1>1. /\ \A i \in DOMAIN chan' : i + 1 \in DOMAIN chan /\ chan'[i] = chan[i + 1]
      /\ \A i \in DOMAIN chan : i = 1 \/ (i - 1 \in DOMAIN chan' /\ chan'[i - 1] = chan[i])
      /\ chan[1] = Next1
  BY Shifted
<1> TAKE t
<1>2. (HasStart(t)' => HasStart(t)) /\ (HasEnd(t)' => HasEnd(t))
  BY <1>1 DEF HasStart, HasEnd
<1>3. ASSUME HasStart(t), ~(IsStart(Next1) /\ Next1.turn = t) PROVE HasStart(t)'
  <2>1. PICK i \in DOMAIN chan : IsStart(chan[i]) /\ chan[i].turn = t
    BY <1>3 DEF HasStart
  <2> QED BY <1>1, <1>3, <2>1 DEF HasStart
<1>4. ASSUME HasEnd(t), ~(IsEnd(Next1) /\ Next1.turn = t) PROVE HasEnd(t)'
  <2>1. PICK i \in DOMAIN chan : IsEnd(chan[i]) /\ chan[i].turn = t
    BY <1>4 DEF HasEnd
  <2> QED BY <1>1, <1>4, <2>1 DEF HasEnd
<1> QED BY <1>2, <1>3, <1>4

\* The turn an end is of has no start unread.
LEMMA StartedBefore ==
  ASSUME TypeOK, Stream, NEW i \in DOMAIN chan, IsEnd(chan[i]), NEW j \in DOMAIN chan, IsStart(chan[j]), i < j
  PROVE  chan[i].turn < chan[j].turn /\ chan[i].turn # chan[j].turn
<1>1. chan[i].turn < chan[j].turn
  BY DEF Stream, OfTurn, IsStart, IsEnd
<1>2. chan[i].turn \in Nat /\ chan[j].turn \in Nat
  BY Unread
<1> QED BY <1>1, <1>2

LEMMA BeginsAgrees ==
  ASSUME TypeOK, Process, Link, Stream, Agrees, TurnBegins
  PROVE  Agrees'
<1> SUFFICES ASSUME attached PROVE Agrees'
  BY DEF TurnBegins, Agrees
<1> DEFINE e == TurnEvent("started", turns + 1)
<1>1. e \in Events /\ IsStart(e) /\ e.turn = turns + 1
  <2>1. turns + 1 \in 0..MaxTurns
    <3>1. turns \in Nat /\ MaxTurns \in Nat /\ turns < MaxTurns
      BY RowAssumption DEF TypeOK, TurnBegins
    <3> QED BY <3>1
  <2> QED BY <2>1, TurnEventType DEF TurnEvent, Event, IsStart
<1>2. run = 0 /\ run' = turns + 1 /\ active' = active /\ Says(<< e >>) /\ turns + 1 # 0
  BY RowAssumption DEF TurnBegins, SessionStays, TypeOK
<1> HIDE DEF e
<1>3. << e >> \in Seq(Events) /\ 1 \in DOMAIN << e >> /\ \A j \in DOMAIN << e >> : << e >>[j] = e
  BY <1>1
<1>4. /\ \A i \in DOMAIN chan' : (i \in DOMAIN chan /\ chan'[i] = chan[i]) \/ chan'[i] = e
      /\ \E i \in DOMAIN chan' : chan'[i] = e
      /\ \A t : (HasStart(t) => HasStart(t)') /\ (HasEnd(t) => HasEnd(t)')
  BY <1>2, <1>3, Grown
<1>5. \A t : t = run' => HasStart(t)'
  BY <1>1, <1>2, <1>4 DEF HasStart
<1>6. ASSUME NEW i \in DOMAIN chan', IsStart(chan'[i]), chan'[i].turn # run', NEW t, t = chan'[i].turn PROVE HasEnd(t)'
  <2>1. i \in DOMAIN chan /\ chan'[i] = chan[i]
    BY <1>1, <1>2, <1>4, <1>6
  <2>2. chan[i].turn # run
    <3>1. EventOK(chan[i]) /\ OfTurn(chan[i]) /\ turns \in Nat
      BY <1>6, <2>1, RowAssumption DEF Stream, IsStart, OfTurn, TypeOK
    <3> QED BY <1>2, <3>1 DEF EventOK
  <2>3. HasEnd(t)
    BY <1>6, <2>1, <2>2 DEF Agrees
  <2> QED BY <1>4, <2>3
<1>7. ASSUME active' \notin { 0, run' }, NEW t, t = active' PROVE HasEnd(t)'
  <2>1. HasEnd(t)
    BY <1>2, <1>7 DEF Agrees
  <2> QED BY <1>4, <2>1
<1> QED BY <1>5, <1>6, <1>7 DEF Agrees, HasStart, HasEnd

LEMMA EndsAgrees ==
  ASSUME TypeOK, Process, Link, Stream, Agrees, TurnEnds
  PROVE  Agrees'
<1> SUFFICES ASSUME attached PROVE Agrees'
  BY DEF TurnEnds, Agrees
<1>1. PICK n \in 1..2 : Says([i \in 1..n |-> TurnEvent("terminal", run)])
  BY DEF TurnEnds
<1> DEFINE e == TurnEvent("terminal", run)
           s == [i \in 1..n |-> e]
<1>2. e \in Events /\ IsEnd(e) /\ ~IsStart(e) /\ e.turn = run
  BY TurnEventType DEF TypeOK, TurnEvent, Event, IsEnd, IsStart
<1> HIDE DEF e
<1>3. s \in Seq(Events) /\ DOMAIN s = 1..n /\ \A i \in 1..n : s[i] = e
  BY <1>2
<1>4. run # 0 /\ run' = 0 /\ active' = active /\ Says(s)
  BY <1>1 DEF TurnEnds, SessionStays, e
<1> HIDE DEF s
<1>5. 1 \in DOMAIN s
  BY <1>3
<1>6. /\ \A i \in DOMAIN chan' : (i \in DOMAIN chan /\ chan'[i] = chan[i]) \/ chan'[i] = e
      /\ \E i \in DOMAIN chan' : chan'[i] = e
      /\ \A t : HasEnd(t) => HasEnd(t)'
  BY <1>3, <1>4, <1>5, Grown
<1>7. \A t : t = run => HasEnd(t)'
  BY <1>2, <1>6 DEF HasEnd
<1>8. ASSUME NEW i \in DOMAIN chan', IsStart(chan'[i]), NEW t, t = chan'[i].turn PROVE HasEnd(t)'
  <2>1. i \in DOMAIN chan /\ chan'[i] = chan[i]
    BY <1>2, <1>6, <1>8
  <2>2. t = run \/ HasEnd(t)
    BY <1>8, <2>1 DEF Agrees
  <2> QED BY <1>6, <1>7, <2>2
<1>9. ASSUME active' # 0, NEW t, t = active' PROVE HasEnd(t)'
  <2>1. t = run \/ HasEnd(t)
    BY <1>4, <1>9 DEF Agrees
  <2> QED BY <1>6, <1>7, <2>1
<1> QED BY <1>4, <1>8, <1>9 DEF Agrees, HasEnd

\* Other things the provider says.
LEMMA SaysAgrees ==
  ASSUME TypeOK, Agrees, NEW events \in Seq(Events), Says(events), UNCHANGED << run, active, attached >>,
         \A j \in DOMAIN events : ~IsStart(events[j])
  PROVE  Agrees'
<1> SUFFICES ASSUME attached PROVE Agrees'
  BY DEF Agrees
<1>1. /\ \A i \in DOMAIN chan' : (i \in DOMAIN chan /\ chan'[i] = chan[i]) \/ ~IsStart(chan'[i])
      /\ \A t : (HasStart(t) => HasStart(t)') /\ (HasEnd(t) => HasEnd(t)')
  BY Grown
<1>2. ASSUME NEW i \in DOMAIN chan', IsStart(chan'[i]), NEW t, t = chan'[i].turn, t # run PROVE HasEnd(t)'
  <2>1. i \in DOMAIN chan /\ chan'[i] = chan[i]
    BY <1>1, <1>2
  <2>2. HasEnd(t)
    BY <1>2, <2>1 DEF Agrees
  <2> QED BY <1>1, <2>2
<1>3. ASSUME active \notin { 0, run } PROVE HasEnd(active)'
  <2>1. HasEnd(active) /\ active' = active
    BY <1>3 DEF Agrees
  <2> QED BY <1>1, <2>1 DEF HasEnd
<1>4. ASSUME run # 0 PROVE HasStart(run)' \/ (active = run /\ \A i \in DOMAIN chan' : ~IsStart(chan'[i]))
  <2>1. CASE HasStart(run)
    BY <1>1, <2>1 DEF HasStart
  <2>2. CASE active = run /\ \A i \in DOMAIN chan : ~IsStart(chan[i])
    BY <1>1, <2>2
  <2> QED BY <1>4, <2>1, <2>2 DEF Agrees
<1> QED BY <1>2, <1>3, <1>4 DEF Agrees, HasStart, HasEnd

LEMMA ProviderAgrees ==
  ASSUME TypeOK, Process, Link, Stream, Agrees, ProviderSteps
  PROVE  Agrees'
<1>1. CASE TurnBegins
  BY <1>1, BeginsAgrees
<1>2. CASE TurnEnds
  BY <1>2, EndsAgrees
<1>3. CASE ProcessDies \/ LinkLost
  BY <1>3 DEF ProcessDies, LinkLost, Agrees
<1>4. ASSUME NEW e \in Events, ~IsStart(e), Says(<< e >>), UNCHANGED << run, active, attached >> PROVE Agrees'
  <2>1. << e >> \in Seq(Events) /\ \A j \in DOMAIN << e >> : << e >>[j] = e
    OBVIOUS
  <2> QED BY <1>4, <2>1, SaysAgrees
<1>5. CASE ProviderItem
  <2>1. Says(<< TurnEvent("item", run) >>) /\ UNCHANGED << run, active, attached >>
    BY <1>5 DEF ProviderItem, procVars, sesVars
  <2>2. TurnEvent("item", run) \in Events /\ ~IsStart(TurnEvent("item", run))
    BY TurnEventType DEF TypeOK, TurnEvent, Event, IsStart
  <2> QED BY <1>4, <2>1, <2>2
<1>6. ASSUME NEW q \in Questions, ProviderAsks(q) PROVE Agrees'
  <2>1. Says(<< Event("opened", run, q) >>) /\ UNCHANGED << run, active, attached >>
    BY <1>6 DEF ProviderAsks, sesVars
  <2>2. Event("opened", run, q) \in Events /\ ~IsStart(Event("opened", run, q))
    BY TurnEventType DEF TypeOK, Event, IsStart
  <2> QED BY <1>4, <2>1, <2>2
<1>7. ASSUME NEW q \in Questions, ProviderWithdraws(q) PROVE Agrees'
  <2>1. Says(<< Event("closed", raisedBy[q], q) >>) /\ UNCHANGED << run, active, attached >>
    BY <1>7 DEF ProviderWithdraws, sesVars
  <2>2. Event("closed", raisedBy[q], q) \in Events /\ ~IsStart(Event("closed", raisedBy[q], q))
    BY TurnEventType DEF TypeOK, Event, IsStart
  <2> QED BY <1>4, <2>1, <2>2
<1> QED BY <1>1, <1>2, <1>3, <1>5, <1>6, <1>7 DEF ProviderSteps

LEMMA HandleAgrees ==
  ASSUME TypeOK, Link, Process, Stream, Fresh, Agrees, HandleEvent
  PROVE  Agrees'
<1>1. /\ UNCHANGED << run, turns, attached >> /\ chan # << >> /\ Next1 = chan[1] /\ 1 \in DOMAIN chan /\ EventOK(Next1)
      /\ chan' = Tail(chan) \/ ~attached
  BY Handled DEF procVars
<1> SUFFICES ASSUME attached, chan' = Tail(chan) PROVE Agrees'
  BY <1>1 DEF Agrees
<1>2. /\ \A i \in DOMAIN chan' : i + 1 \in DOMAIN chan /\ 1 < i + 1 /\ chan'[i] = chan[i + 1]
      /\ \A t : /\ HasStart(t)' => HasStart(t)
                /\ HasStart(t) /\ ~(IsStart(Next1) /\ Next1.turn = t) => HasStart(t)'
                /\ HasEnd(t) /\ ~(IsEnd(Next1) /\ Next1.turn = t) => HasEnd(t)'
  BY <1>1, Shifted, ReadOff
<1>3. /\ OfTurn(Next1) => Next1.turn \in 1..turns
      /\ IsEnd(Next1) => Next1.turn # run
  BY <1>1 DEF EventOK
<1>4. ASSUME NEW i \in DOMAIN chan', IsStart(chan'[i]), NEW t, t = chan'[i].turn, t # run PROVE HasEnd(t)'
  <2>1. i + 1 \in DOMAIN chan /\ 1 < i + 1 /\ chan[i + 1] = chan'[i]
    BY <1>2
  <2>2. HasEnd(t)
    BY <1>4, <2>1 DEF Agrees
  <2>3. IsEnd(Next1) => Next1.turn # t
    BY <1>1, <1>4, <2>1, StartedBefore
  <2> QED BY <1>2, <2>2, <2>3
<1>5. CASE HandleStarted
  <2>1. IsStart(Next1) /\ ~IsEnd(Next1) /\ active' = Next1.turn /\ OfTurn(Next1)
    BY <1>5 DEF HandleStarted, Arrives, IsStart, IsEnd, OfTurn
  <2>2. ASSUME active' \notin { 0, run' }, NEW t, t = active' PROVE HasEnd(t)'
    <3>1. HasEnd(t)
      BY <1>1, <2>1, <2>2 DEF Agrees
    <3> QED BY <1>2, <2>1, <3>1
  <2>3. ASSUME run # 0 PROVE HasStart(run)' \/ (active' = run /\ \A i \in DOMAIN chan' : ~IsStart(chan'[i]))
    <3>1. CASE Next1.turn = run
      <4>1. ASSUME NEW i \in DOMAIN chan', IsStart(chan'[i]) PROVE FALSE
        <5>1. i + 1 \in DOMAIN chan /\ 1 < i + 1 /\ chan[i + 1] = chan'[i]
          BY <1>2
        <5>2. OfTurn(chan[i + 1]) /\ IsStart(chan[i + 1])
          BY <4>1, <5>1 DEF OfTurn, IsStart
        <5>3. chan[1].turn < chan[i + 1].turn
          BY <1>1, <2>1, <5>1, <5>2 DEF Stream
        <5>4. chan[i + 1].turn \in 1..turns /\ run = turns /\ turns \in Nat
          BY <2>3, <5>1, <5>2, RowAssumption DEF Stream, EventOK, Process, TypeOK
        <5> QED BY <1>1, <3>1, <5>3, <5>4
      <4> QED BY <2>1, <3>1, <4>1
    <3>2. CASE Next1.turn # run
      <4>1. HasStart(run)
        BY <1>1, <2>1, <2>3 DEF Agrees
      <4>2. HasStart(run)'
        BY <1>1, <1>2, <3>2, <4>1 DEF HasStart
      <4> QED BY <4>2
    <3> QED BY <3>1, <3>2
  <2> QED BY <1>1, <1>4, <2>2, <2>3 DEF Agrees, HasStart, HasEnd
<1>6. CASE ~HandleStarted
  <2>1. ~IsStart(Next1)
    BY <1>6 DEF HandleEvent, HandleItem, HandleOpened, HandleClosed, HandleTerminal, HandleLastTerminal, HandleError, Arrives,
                IsStart
  <2>2. active' = active \/ (active' = 0 /\ IsEnd(Next1) /\ active = Next1.turn)
    <3>1. ~HandleLastTerminal /\ ~HandleError
      BY <1>1 DEF EventOK, HandleLastTerminal, HandleError
    <3> QED BY <1>6, <3>1 DEF HandleEvent, HandleItem, HandleOpened, HandleClosed, HandleTerminal, Arrives, IsEnd, sesVars
  <2>3. active' # 0 /\ IsEnd(Next1) => active' # Next1.turn
    <3>1. CASE Next1.turn \in Range(seen)
      BY <2>2, <3>1 DEF Fresh
    <3>2. CASE Next1.turn \notin Range(seen) /\ IsEnd(Next1)
      <4>1. HandleTerminal
        <5>1. ~HandleLastTerminal
          BY <1>1 DEF EventOK, HandleLastTerminal
        <5> QED BY <1>6, <3>2, <5>1 DEF HandleEvent, HandleItem, HandleOpened, HandleClosed, HandleError, Arrives, IsEnd
      <4> QED BY <3>2, <4>1 DEF HandleTerminal
    <3> QED BY <3>1, <3>2
  <2>4. ASSUME active' \notin { 0, run' }, NEW t, t = active' PROVE HasEnd(t)'
    <3>1. HasEnd(t)
      BY <1>1, <2>2, <2>4 DEF Agrees
    <3> QED BY <1>2, <2>3, <2>4, <3>1
  <2>5. ASSUME run # 0 PROVE HasStart(run)' \/ (active' = run /\ \A i \in DOMAIN chan' : ~IsStart(chan'[i]))
    <3>1. CASE HasStart(run)
      BY <1>1, <1>2, <2>1, <3>1 DEF HasStart
    <3>2. CASE active = run /\ \A i \in DOMAIN chan : ~IsStart(chan[i])
      <4>1. active' = run
        BY <1>3, <2>2, <3>2
      <4>2. \A i \in DOMAIN chan' : ~IsStart(chan'[i])
        BY <1>2, <3>2
      <4> QED BY <4>1, <4>2
    <3> QED BY <2>5, <3>1, <3>2 DEF Agrees
  <2> QED BY <1>1, <1>4, <2>4, <2>5 DEF Agrees, HasStart, HasEnd
<1> QED BY <1>5, <1>6

\* A send that resolves makes its turn the active one only while its end is unread.
LEMMA OwnsAgrees ==
  ASSUME TypeOK, Process, Link, Stream, Control, Agrees, Sent, pc = "sending", active' = TurnToOwn,
         UNCHANGED << run, attached, chan >>
  PROVE  Agrees'
<1> SUFFICES ASSUME attached PROVE Agrees'
  BY DEF Agrees
<1>1. CASE active' = active
  BY <1>1 DEF Agrees, HasStart, HasEnd
<1>2. CASE active' # active
  <2>1. active' = call /\ call \notin Range(seen) /\ HasStart(call)
    BY <1>2 DEF TurnToOwn, Sent
  <2>2. call = run \/ HasEnd(call)
    BY <2>1 DEF Agrees, HasStart
  <2>3. run # 0 => HasStart(run)
    BY <2>1 DEF Agrees, HasStart
  <2> QED BY <2>1, <2>2, <2>3 DEF Agrees, HasStart, HasEnd
<1> QED BY <1>1, <1>2

LEMMA NextAgrees ==
  ASSUME TypeOK, Process, Link, Stream, Control, Answering, Fresh, Agrees, Sent, [Next]_vars
  PROVE  Agrees'
<1>1. CASE UNCHANGED << run, active, attached, chan >>
  BY <1>1 DEF Agrees, HasStart, HasEnd
<1>2. CASE Attaches
  <2>1. UNCHANGED run /\ run \in Nat
    BY <1>2, AttachedSession, RowAssumption DEF TypeOK
  <2>2. /\ active' \in { 0, run }
        /\ \A i \in DOMAIN chan' : \/ i = 1 /\ chan'[i] = TurnEvent("started", run) /\ active' = 0
                                   \/ \E q \in held : chan'[i] = Event("opened", raisedBy[q], q)
        /\ run # 0 => active' = run \/ \E i \in DOMAIN chan' : chan'[i] = TurnEvent("started", run)
    BY <1>2, AttachedChan
  <2>3. IsStart(TurnEvent("started", run)) /\ TurnEvent("started", run).turn = run
    BY DEF IsStart, TurnEvent, Event
  <2>4. \A i \in DOMAIN chan' : IsStart(chan'[i]) => chan'[i].turn = run /\ active' = 0
    BY <2>2, <2>3 DEF IsStart, Event
  <2>5. run # 0 => active' = run \/ HasStart(run)'
    BY <2>1, <2>2, <2>3 DEF HasStart
  <2> QED BY <2>1, <2>2, <2>4, <2>5 DEF Agrees, HasStart
<1>3. CASE Launches
  <2>1. chan' = << >> /\ run' = 0 /\ active' = 0
    BY <1>3 DEF Launches, Register
  <2>2. DOMAIN chan' = {}
    BY <2>1
  <2> QED BY <2>1, <2>2 DEF Agrees
<1>4. CASE Leaves
  BY <1>4 DEF Leaves, Agrees
<1>5. ASSUME NEW q, Settles(q) PROVE Agrees'
  BY <1>1, <1>5, OwnsAgrees DEF Settles
<1>6. CASE Owns
  BY <1>6, OwnsAgrees DEF Owns, procVars, linkVars
<1>7. CASE UNCHANGED convVars
  BY <1>1, <1>7 DEF convVars
<1> QED BY StepKinds, <1>2, <1>3, <1>4, <1>5, <1>6, <1>7, ProviderAgrees, HandleAgrees DEF SessionSteps

\* What is forgotten is the oldest end, so the ends stay in order.
LEMMA RemembersInOrder ==
  ASSUME TypeOK, Ordered, NEW t \in Turns, \A u \in Range(seen) : u < t
  PROVE  \A s : s = Remember(t) => \A i, j \in DOMAIN s : i < j => s[i] < s[j]
<1> DEFINE n == Len(seen)
           s == Append(seen, t)
<1>1. n \in Nat /\ DOMAIN seen = 1..n /\ seen \in Seq(Turns)
  BY LenProperties DEF TypeOK
<1>2. s \in Seq(Turns) /\ Len(s) = n + 1 /\ (\A i \in 1..n : s[i] = seen[i]) /\ s[n + 1] = t /\ DOMAIN s = 1..(n + 1)
  BY <1>1, AppendProperties, LenProperties
<1>3. \A i \in 1..n : seen[i] \in Range(seen)
  BY <1>1, RangeEquality
<1> HIDE DEF s, n
<1>4. ASSUME NEW i \in DOMAIN s, NEW j \in DOMAIN s, i < j PROVE s[i] < s[j]
  <2>1. i \in 1..n /\ (j \in 1..n \/ j = n + 1)
    BY <1>1, <1>2, <1>4
  <2> QED BY <1>1, <1>2, <1>3, <1>4, <2>1 DEF Ordered
<1>5. /\ Len(Tail(s)) = n /\ DOMAIN Tail(s) = 1..n
      /\ \A i \in 1..n : Tail(s)[i] = s[i + 1] /\ i \in Nat /\ i + 1 \in DOMAIN s
  <2>1. s # << >>
    BY <1>1, <1>2, EmptySeq
  <2>2. Tail(s) \in Seq(Turns) /\ Len(Tail(s)) = n /\ \A i \in 1..n : Tail(s)[i] = s[i + 1]
    BY <1>1, <1>2, <2>1, HeadTailProperties
  <2>3. \A i \in 1..n : i \in Nat /\ i + 1 \in 1..(n + 1)
    BY <1>1
  <2> QED BY <1>2, <2>2, <2>3, LenProperties
<1>6. ASSUME NEW i \in DOMAIN Tail(s), NEW j \in DOMAIN Tail(s), i < j PROVE Tail(s)[i] < Tail(s)[j]
  <2>1. i + 1 \in DOMAIN s /\ j + 1 \in DOMAIN s /\ i + 1 < j + 1
    BY <1>5, <1>6
  <2> QED BY <1>4, <1>5, <2>1
<1>7. Remember(t) = s \/ Remember(t) = Tail(s)
  BY DEF Remember, s
<1> QED BY <1>4, <1>6, <1>7

\* The turn of a send that is in time is not the one forgotten.
LEMMA Room ==
  ASSUME TypeOK, Ordered, InTime, pc = "sending", call \in Nat, call \in Range(seen),
         NEW t \in Turns, t <= turns, \A u \in Range(seen) : u < t
  PROVE  call \in Range(Remember(t))
<1> DEFINE n == Len(seen)
           s == Append(seen, t)
<1>1. n \in Nat /\ DOMAIN seen = 1..n /\ seen \in Seq(Turns) /\ Memory \in Nat /\ Memory >= 1 /\ n <= Memory /\ turns \in Nat
  BY RowAssumption, LenProperties DEF TypeOK
<1>2. s \in Seq(Turns) /\ Len(s) = n + 1 /\ (\A i \in 1..n : s[i] = seen[i]) /\ DOMAIN s = 1..(n + 1)
  BY <1>1, AppendProperties, LenProperties
<1>3. \A i \in 1..n : seen[i] \in Range(seen)
  BY <1>1, RangeEquality
<1>4. PICK k \in 1..n : seen[k] = call
  BY <1>1 DEF Range
<1>5. k \in 1..(n + 1) /\ s[k] = call
  BY <1>1, <1>2, <1>4
<1> HIDE DEF s
<1>6. CASE ~(Len(s) > Memory)
  <2>1. Remember(t) = s
    BY <1>6 DEF Remember, s
  <2> QED BY <1>2, <1>5, <2>1 DEF Range
<1>7. CASE Len(s) > Memory
  <2>1. Remember(t) = Tail(s) /\ n = Memory
    <3>1. Remember(t) = Tail(s)
      BY <1>7 DEF Remember, s
    <3>2. n + 1 > Memory
      BY <1>2, <1>7
    <3>3. \A x, y \in Nat : x <= y /\ x + 1 > y => x = y
      OBVIOUS
    <3>4. n = Memory
      BY <1>1, <3>2, <3>3
    <3> QED BY <3>1, <3>4
  <2>2. k # 1
    <3> SUFFICES ASSUME k = 1 PROVE FALSE
      OBVIOUS
    <3>1. ASSUME NEW i \in 1..n PROVE seen[i] \in call..(turns - 1)
      <4>1. seen[i] \in Turns /\ seen[i] < t /\ t \in Nat
        BY <1>1, <1>3, RowAssumption, ElementOfSeq DEF Turns
      <4>2. seen[i] \in Nat
        BY <4>1 DEF Turns
      <4>3. i = 1 \/ 1 < i
        BY <1>1
      <4>4. call <= seen[i]
        BY <1>1, <1>4, <4>2, <4>3 DEF Ordered
      <4> QED BY <1>1, <4>1, <4>2, <4>4
    <3>2. ASSUME NEW i \in 1..n, NEW j \in 1..n, seen[i] = seen[j] PROVE i = j
      <4>1. seen[i] \in Nat /\ i \in Nat /\ j \in Nat
        BY <3>1
      <4>2. i < j => seen[i] < seen[j]
        BY <1>1 DEF Ordered
      <4>3. j < i => seen[j] < seen[i]
        BY <1>1 DEF Ordered
      <4> QED BY <3>2, <4>1, <4>2, <4>3
    <3>3. seen \in [1..n -> call..(turns - 1)]
      BY <1>1, <3>1, SeqDef
    <3>4. seen \in Injection(1..n, call..(turns - 1))
      BY <3>2, <3>3 DEF Injection, IsInjective
    <3>5. IsFiniteSet(call..(turns - 1))
      BY <1>1, FS_Interval
    <3>6. Cardinality(1..n) <= Cardinality(call..(turns - 1))
      BY <3>4, <3>5, FS_Injection
    <3>7. Cardinality(1..n) = n
      <4>1. Cardinality(1..n) = IF 1 > n THEN 0 ELSE n - 1 + 1
        BY <1>1, FS_Interval
      <4> QED BY <1>1, <4>1
    <3>8. n >= 1
      BY <1>1, <2>1
    <3>9. call <= turns - 1
      BY <1>1, <3>1, <3>8
    <3>10. Cardinality(call..(turns - 1)) = turns - call
      <4>1. Cardinality(call..(turns - 1)) = IF call > turns - 1 THEN 0 ELSE (turns - 1) - call + 1
        BY <1>1, FS_Interval
      <4> QED BY <1>1, <3>9, <4>1
    <3> QED BY <1>1, <2>1, <3>6, <3>7, <3>10 DEF InTime
  <2>3. s # << >>
    BY <1>1, <1>2, EmptySeq
  <2>4. Tail(s) \in Seq(Turns) /\ Len(Tail(s)) = n /\ \A i \in 1..n : Tail(s)[i] = s[i + 1]
    BY <1>1, <1>2, <2>3, HeadTailProperties
  <2>5. k - 1 \in 1..n /\ (k - 1) + 1 = k
    BY <1>1, <2>2
  <2>6. Tail(s)[k - 1] = call
    BY <1>5, <2>4, <2>5
  <2>7. k - 1 \in DOMAIN Tail(s)
    BY <2>4, <2>5, LenProperties
  <2> QED BY <2>1, <2>6, <2>7 DEF Range
<1> QED BY <1>6, <1>7

\* An end that is handled comes after the ends remembered.
LEMMA EndsLast ==
  ASSUME TypeOK, Link, Stream, Ended, Kept, HandleEvent, seen' # seen
  PROVE  /\ HandleTerminal /\ seen' = Remember(Next1.turn) /\ Next1.turn \in Turns /\ Next1.turn <= turns
         /\ \A u \in Range(seen) : u < Next1.turn
<1>1. /\ HandleTerminal /\ seen' = Remember(Next1.turn) /\ Next1.turn \in Turns
      /\ Next1.turn \notin Range(seen) /\ OfTurn(Next1)
  BY HandledSeen DEF IsEnd, OfTurn
<1>2. chan # << >> /\ loaded
  BY <1>1 DEF HandleTerminal, Arrives
<1>3. Next1 = chan[1] /\ 1 \in DOMAIN chan
  BY <1>2, Rest DEF TypeOK, Next1
<1>4. Next1.turn \in 1..turns
  BY <1>1, <1>3 DEF Stream, EventOK
<1>5. ASSUME NEW u \in Range(seen) PROVE u < Next1.turn
  <2>1. u \in Turns
    <3>1. seen \in Seq(Turns) /\ DOMAIN seen = 1..Len(seen)
      BY LenProperties DEF TypeOK
    <3>2. PICK i \in DOMAIN seen : u = seen[i]
      BY <1>5 DEF Range
    <3> QED BY <3>1, <3>2, ElementOfSeq
  <2>2. ends[u] \in Nat /\ ends[u] # 0 /\ ends[u] <= 1
    BY <1>2, <2>1 DEF Kept, TypeOK, Ended, EndedOnce
  <2>3. EndedOnce(u) /\ ends[u] = 1
    BY <2>1, <2>2 DEF Ended
  <2>4. u <= chan[1].turn
    BY <1>1, <1>2, <1>3, <2>3 DEF EndedOnce
  <2>5. u # Next1.turn /\ u \in Nat /\ Next1.turn \in Nat
    BY <1>1, <1>5, <2>1 DEF Turns
  <2> QED BY <1>3, <2>4, <2>5
<1>6. Next1.turn <= turns
  BY <1>4, RowAssumption DEF TypeOK
<1> QED BY <1>1, <1>5, <1>6

LEMMA NextOrdered ==
  ASSUME TypeOK, Process, Link, Stream, Control, Answering, Ended, Kept, Ordered, [Next]_vars
  PROVE  Ordered'
<1>1. CASE seen' = seen
  BY <1>1 DEF Ordered
<1>2. CASE seen' = << >>
  <2>1. DOMAIN seen' = {}
    BY <1>2
  <2> QED BY <2>1 DEF Ordered
<1>3. CASE HandleEvent
  <2>1. CASE seen' # seen
    BY <1>3, <2>1, EndsLast, RemembersInOrder DEF Ordered
  <2> QED BY <1>1, <2>1
<1>4. CASE Attaches \/ Launches
  BY <1>2, <1>4 DEF Attaches, Launches, Register
<1>5. CASE Leaves
  BY <1>1, <1>2, <1>5 DEF Leaves
<1>6. CASE UNCHANGED convVars \/ ProviderSteps \/ (\E q : Settles(q)) \/ Owns
  <2>1. UNCHANGED seen
    BY <1>6 DEF convVars, ProviderSteps, TurnBegins, TurnEnds, SessionStays, ProviderItem, ProcessDies, LinkLost, ProviderAsks,
                ProviderWithdraws, Settles, Owns, sesVars
  <2> QED BY <1>1, <2>1
<1> QED BY StepKinds, <1>3, <1>4, <1>5, <1>6 DEF SessionSteps

LEMMA HandleKept ==
  ASSUME TypeOK, Link, Stream, Kept, HandleEvent
  PROVE  Kept'
<1> SUFFICES ASSUME loaded', NEW t \in Range(seen') PROVE ends'[t] # 0
  BY DEF Kept
<1>1. chan # << >> /\ loaded
  BY DEF HandleEvent, HandleStarted, HandleItem, HandleOpened, HandleClosed, HandleTerminal, HandleLastTerminal,
         HandleError, Arrives
<1>2. ends \in [Turns -> Nat]
  BY DEF TypeOK
<1>3. CASE HandleStarted
  <2>1. IsStart(Next1) /\ seen' = seen /\ Next1.turn \notin Range(seen) /\ ends' = [ends EXCEPT ![Next1.turn] = 0]
    BY <1>1, <1>3, NotSeen DEF HandleStarted, Arrives, IsStart
  <2>2. ends'[t] = ends[t] /\ t \in Range(seen)
    <3>1. t \in Range(seen) /\ t # Next1.turn
      BY <2>1
    <3> QED BY <1>2, <2>1, <3>1
  <2> QED BY <1>1, <2>2 DEF Kept
<1>4. CASE HandleTerminal
  <2>1. CASE Next1.turn \in Range(seen)
    BY <1>1, <1>4, <2>1 DEF HandleTerminal, Kept
  <2>2. CASE Next1.turn \notin Range(seen)
    <3>1. Next1.turn \in Turns
      BY <1>1, <1>4, Arrived DEF HandleTerminal, Arrives, OfTurn
    <3>2. seen' = Remember(Next1.turn) /\ ends' = [ends EXCEPT ![Next1.turn] = @ + 1]
      BY <1>4, <2>2 DEF HandleTerminal
    <3>3. t \in Range(seen) \/ t = Next1.turn
      BY <3>1, <3>2, Remembers
    <3>4. CASE t = Next1.turn
      <4>1. ends'[t] = ends[t] + 1 /\ ends[t] \in Nat
        BY <1>2, <3>1, <3>2, <3>4
      <4> QED BY <4>1
    <3>5. CASE t \in Range(seen) /\ t # Next1.turn
      <4>1. ends'[t] = ends[t]
        BY <1>2, <3>2, <3>5
      <4> QED BY <1>1, <3>5, <4>1 DEF Kept
    <3> QED BY <3>3, <3>4, <3>5
  <2> QED BY <2>1, <2>2
<1>5. CASE HandleItem \/ HandleOpened \/ HandleClosed
  <2>1. UNCHANGED << seen, ends >>
    BY <1>5 DEF HandleItem, HandleOpened, HandleClosed, sesVars, histVars
  <2> QED BY <1>1, <2>1 DEF Kept
<1>6. CASE HandleLastTerminal \/ HandleError
  BY <1>6 DEF HandleLastTerminal, HandleError, Lose, Forget
<1> QED BY <1>3, <1>4, <1>5, <1>6 DEF HandleEvent

LEMMA NextKept ==
  ASSUME TypeOK, Process, Link, Stream, Control, Answering, Kept, [Next]_vars
  PROVE  Kept'
<1>1. CASE UNCHANGED << seen, ends, loaded >>
  BY <1>1 DEF Kept
<1>2. CASE HandleEvent
  BY <1>2, HandleKept
<1>3. CASE Attaches \/ Launches
  <2>1. seen' = << >>
    BY <1>3 DEF Attaches, Launches, Register
  <2>2. Range(seen') = {}
    BY <2>1 DEF Range
  <2> QED BY <2>2 DEF Kept
<1>4. CASE Leaves
  BY <1>4 DEF Leaves, Kept
<1>5. CASE UNCHANGED convVars \/ ProviderSteps \/ (\E q : Settles(q)) \/ Owns
  <2>1. UNCHANGED << seen, ends, loaded >>
    BY <1>5 DEF convVars, ProviderSteps, TurnBegins, TurnEnds, SessionStays, ProviderItem, ProcessDies, LinkLost, ProviderAsks,
                ProviderWithdraws, Settles, Owns, sesVars, histVars
  <2> QED BY <1>1, <2>1
<1> QED BY StepKinds, <1>2, <1>3, <1>4, <1>5 DEF SessionSteps

\* Whatever the provider says, the turns it starts are new.
LEMMA ProviderGrows ==
  ASSUME TypeOK, Process, Link, ProviderSteps
  PROVE  \E events \in Seq(Events) :
            /\ Says(events) /\ UNCHANGED << active, seen >> /\ (attached' => attached)
            /\ \A j \in DOMAIN events : IsStart(events[j]) => events[j].turn = turns + 1
<1>1. CASE \E q \in Questions : ProviderAsks(q)
  <2>1. PICK q \in Questions : ProviderAsks(q)
    BY <1>1
  <2> DEFINE e == Event("opened", run, q)
  <2>2. e \in Events /\ ~IsStart(e)
    BY TurnEventType DEF TypeOK, Event, IsStart
  <2>3. Says(<< e >>) /\ UNCHANGED << active, seen, attached >>
    BY <2>1 DEF ProviderAsks, sesVars
  <2> HIDE DEF e
  <2>4. << e >> \in Seq(Events) /\ \A j \in DOMAIN << e >> : ~IsStart(<< e >>[j])
    BY <2>2
  <2> QED BY <2>3, <2>4
<1>2. CASE ~ \E q \in Questions : ProviderAsks(q)
  <2>1. PICK events \in Seq(Events) : NothingAsked(events)
    BY <1>2, ProviderSays
  <2> QED BY <2>1 DEF NothingAsked
<1> QED BY <1>1, <1>2

\* A send is under way only from the moment it starts its turn.
LEMMA SendingSteps ==
  ASSUME Process, Link, Control, [Next]_vars, pc' = "sending"
  PROVE  \/ pc = "sending" /\ call' = call /\ (UNCHANGED convVars \/ ProviderSteps \/ HandleEvent)
         \/ TurnBegins /\ attached /\ call' = turns + 1
<1>1. CASE Provider
  <2>1. UNCHANGED << pc, call >>
    BY <1>1 DEF Provider, ProviderStartsTurn, ProviderItem, ProviderEndsTurn, ProcessDies, LinkLost, ProviderAsks,
                ProviderWithdraws, lockVars
  <2> QED BY <1>1, <2>1, ProviderKinds
<1>2. CASE HandleEvent
  <2>1. UNCHANGED << pc, call >>
    BY <1>2 DEF HandleEvent, HandleStarted, HandleItem, HandleOpened, HandleClosed, HandleTerminal, HandleLastTerminal,
                HandleError, lockVars
  <2> QED BY <1>2, <2>1
<1>3. CASE ReportLoss \/ TimerFires \/ Reconcile \/ \E kind \in Kinds, q \in Questions \cup { NoQuestion } : Ask(kind, q)
  BY <1>3 DEF ReportLoss, TimerFires, Reconcile, Ask, convVars, procVars, linkVars, sesVars, reqVars, histVars, lockVars
<1>4. CASE UNCHANGED vars
  BY <1>4 DEF vars, convVars, procVars, linkVars, sesVars, reqVars, histVars, lockVars
<1>5. CASE SubmitHuman \/ DeliverAutomatic \/ SteerRefused
  <2>1. SendTurn /\ UNCHANGED << pid, pids, held, asked, raisedBy, attached, sesVars, reqVars, histVars >>
    BY <1>5 DEF SubmitHuman, DeliverAutomatic, SteerRefused, Finish
  <2>2. attached /\ run = 0 /\ turns < MaxTurns /\ call' = turns + 1
    BY <2>1 DEF SendTurn, Finish
  <2>3. TurnBegins
    BY <2>1, <2>2 DEF SendTurn, TurnBegins, SessionStays, sesVars, reqVars, histVars, Link
  <2> QED BY <2>2, <2>3
<1>6. CASE BeginLoad \/ NothingToLoad \/ BeginAdopt \/ Adopted \/ AdoptionSettles \/ NoSurvivor \/ SurvivorBusy
           \/ Resumed \/ ResumeFails
  BY <1>6 DEF BeginLoad, NothingToLoad, BeginAdopt, Adopted, AdoptionSettles, NoSurvivor, SurvivorBusy, Resumed,
              ResumeFails, NothingAdopted, SettleAndRestore, Finish
<1>7. CASE SteerTaken \/ SendResolves \/ SendFails \/ StopUnreachable \/ Interrupt \/ InterruptAccepted \/ InterruptFails
           \/ RespondToNothing \/ Respond \/ RespondSettles \/ RespondFails
  BY <1>7 DEF SteerTaken, SendResolves, SendFails, StopUnreachable, Interrupt, InterruptAccepted, InterruptFails,
              RespondToNothing, Respond, RespondSettles, RespondFails, Finish
<1>8. CASE Sleep \/ FallAsleep \/ StayAwake \/ BeginRelease \/ AlreadyReleased \/ Released \/ ReleaseFails \/ SettleLoss
           \/ Refresh \/ Restart
  BY <1>8 DEF Sleep, FallAsleep, StayAwake, BeginRelease, AlreadyReleased, Released, ReleaseFails, SettleLoss,
              Refresh, Restart, Finish
<1> QED BY <1>1, <1>2, <1>3, <1>4, <1>5, <1>6, <1>7, <1>8 DEF Next, RunCommand

LEMMA HandleSent ==
  ASSUME TypeOK, Process, Link, Stream, Control, Ended, Agrees, Sent, Kept, Ordered, InTime, HandleEvent,
         pc = "sending", UNCHANGED << pc, call >>
  PROVE  Sent'
<1>1. /\ UNCHANGED << run, turns, attached >> /\ chan # << >> /\ Next1 = chan[1] /\ 1 \in DOMAIN chan /\ EventOK(Next1)
      /\ chan' = Tail(chan) \/ ~attached
  BY Handled DEF procVars
<1> SUFFICES ASSUME attached, chan' = Tail(chan) PROVE Sent'
  BY <1>1 DEF Sent
<1>2. /\ \A i \in DOMAIN chan' : i + 1 \in DOMAIN chan /\ 1 < i + 1 /\ chan'[i] = chan[i + 1]
      /\ \A i \in DOMAIN chan : i = 1 \/ 1 < i
      /\ \A t : HasStart(t) /\ ~(IsStart(Next1) /\ Next1.turn = t) => HasStart(t)'
  BY <1>1, Shifted, ReadOff
<1>5. call \in 1..turns /\ turns \in Nat
  BY RowAssumption DEF Control, TypeOK
<1>6. CASE HasStart(call)
  <2>1. CASE IsStart(Next1) /\ Next1.turn = call
    <3>1. active' = call
      BY <2>1 DEF HandleEvent, HandleStarted, HandleItem, HandleOpened, HandleClosed, HandleTerminal, HandleLastTerminal,
                  HandleError, Arrives, IsStart
    <3>2. ASSUME NEW i \in DOMAIN chan', IsStart(chan'[i]) PROVE call < chan'[i].turn
      <4>1. i + 1 \in DOMAIN chan /\ 1 < i + 1 /\ chan'[i] = chan[i + 1]
        BY <1>2
      <4> QED BY <1>1, <2>1, <3>2, <4>1 DEF Stream, OfTurn, IsStart
    <3> QED BY <3>1, <3>2 DEF Sent
  <2>2. CASE ~(IsStart(Next1) /\ Next1.turn = call)
    <3>1. \A t : t = call => HasStart(t)'
      BY <1>2, <1>6, <2>2
    <3> QED BY <3>1 DEF Sent, HasStart
  <2> QED BY <2>1, <2>2
<1>7. CASE call \in Range(seen)
  <2>1. CASE seen' # seen
    <3>1. call \in Nat
      BY <1>5
    <3>2. call \in Range(seen')
      BY <1>7, <2>1, <3>1, EndsLast, Room
    <3> QED BY <3>2 DEF Sent
  <2> QED BY <1>7, <2>1 DEF Sent
<1>8. CASE active = call /\ \A i \in DOMAIN chan : IsStart(chan[i]) => call < chan[i].turn
  <2>1. \A i \in DOMAIN chan' : IsStart(chan'[i]) => call < chan'[i].turn
    BY <1>2, <1>8
  <2>2. CASE HandleStarted
    <3>1. IsStart(Next1) /\ OfTurn(Next1) /\ Next1.turn \in 1..turns
      BY <1>1, <2>2 DEF HandleStarted, Arrives, IsStart, OfTurn, EventOK
    <3>2. call < Next1.turn
      BY <1>1, <1>8, <3>1
    <3>3. call # run
      BY <1>5, <3>1, <3>2 DEF Process
    <3>4. HasEnd(call)
      BY <1>5, <1>8, <3>3 DEF Agrees
    <3>5. PICK k \in DOMAIN chan : IsEnd(chan[k]) /\ chan[k].turn = call
      BY <3>4 DEF HasEnd
    <3>6. 1 < k /\ OfTurn(chan[k])
      BY <1>1, <1>2, <3>1, <3>5 DEF IsStart, IsEnd, OfTurn
    <3>7. Next1.turn <= call
      BY <1>1, <3>1, <3>5, <3>6 DEF Stream
    <3> QED BY <1>5, <3>1, <3>2, <3>7
  <2>3. CASE active' = active
    BY <1>8, <2>1, <2>3 DEF Sent
  <2>4. CASE ~HandleStarted /\ active' # active
    <3>1. HandleTerminal
      <4>1. ~HandleLastTerminal /\ ~HandleError
        BY <1>1 DEF EventOK, HandleLastTerminal, HandleError
      <4> QED BY <2>4, <4>1 DEF HandleEvent, HandleItem, HandleOpened, HandleClosed, sesVars
    <3>2. Next1.turn \notin Range(seen) /\ active = Next1.turn /\ seen' = Remember(Next1.turn) /\ Next1.turn \in Turns
      <4>1. Next1.turn \notin Range(seen) /\ active = Next1.turn /\ seen' = Remember(Next1.turn)
        BY <2>4, <3>1 DEF HandleTerminal
      <4>2. 1 <= Next1.turn /\ Next1.turn \in Nat /\ Next1.turn <= MaxTurns
        BY <1>5, <1>8, <4>1, RowAssumption DEF TypeOK
      <4> QED BY <4>1, <4>2, RowAssumption DEF Turns
    <3>3. Next1.turn \in Range(seen')
      BY <3>2, Remembers
    <3> QED BY <1>8, <3>2, <3>3 DEF Sent
  <2> QED BY <2>2, <2>3, <2>4
<1> QED BY <1>6, <1>7, <1>8 DEF Sent

LEMMA NextSent ==
  ASSUME TypeOK, Process, Link, Stream, Control, Ended, Agrees, Sent, Kept, Ordered, InTime, [Next]_vars
  PROVE  Sent'
<1> SUFFICES ASSUME pc' = "sending", attached' PROVE Sent'
  BY DEF Sent
<1>1. CASE TurnBegins /\ attached /\ call' = turns + 1
  <2> DEFINE e == TurnEvent("started", turns + 1)
  <2>1. IsStart(e) /\ e.turn = turns + 1
    BY DEF TurnEvent, Event, IsStart
  <2>2. << e >> \in Seq(Events)
    <3>1. turns + 1 \in 0..MaxTurns
      <4>1. turns \in Nat /\ MaxTurns \in Nat /\ turns < MaxTurns
        BY <1>1, RowAssumption DEF TypeOK, TurnBegins
      <4> QED BY <4>1
    <3>2. e \in Events
      BY <3>1, TurnEventType
    <3> QED BY <3>2
  <2>3. Says(<< e >>)
    BY <1>1 DEF TurnBegins
  <2> HIDE DEF e
  <2>4. 1 \in DOMAIN << e >> /\ << e >>[1] = e
    OBVIOUS
  <2>5. \E i \in DOMAIN chan' : chan'[i] = e
    BY <1>1, <2>2, <2>3, <2>4, Grown
  <2> QED BY <1>1, <2>1, <2>5 DEF Sent, HasStart
<1>2. CASE pc = "sending" /\ call' = call /\ UNCHANGED convVars
  BY <1>2 DEF convVars, Sent, HasStart
<1>3. CASE pc = "sending" /\ call' = call /\ ProviderSteps
  <2>1. PICK events \in Seq(Events) :
            /\ Says(events) /\ UNCHANGED << active, seen >> /\ (attached' => attached)
            /\ \A j \in DOMAIN events : IsStart(events[j]) => events[j].turn = turns + 1
    BY <1>3, ProviderGrows
  <2>2. /\ \A i \in DOMAIN chan' : (i \in DOMAIN chan /\ chan'[i] = chan[i]) \/ \E j \in DOMAIN events : chan'[i] = events[j]
        /\ \A t : HasStart(t) => HasStart(t)'
    BY <2>1, Grown
  <2>3. call < turns + 1
    BY <1>3, RowAssumption DEF Control, TypeOK
  <2>4. CASE HasStart(call)
    <3>1. \A t : t = call => HasStart(t)'
      BY <2>2, <2>4
    <3> QED BY <1>3, <3>1 DEF Sent, HasStart
  <2>5. CASE call \in Range(seen)
    BY <1>3, <2>1, <2>5 DEF Sent
  <2>6. CASE active = call /\ \A i \in DOMAIN chan : IsStart(chan[i]) => call < chan[i].turn
    BY <1>3, <2>1, <2>2, <2>3, <2>6 DEF Sent
  <2> QED BY <1>3, <2>1, <2>4, <2>5, <2>6 DEF Sent
<1>4. CASE pc = "sending" /\ call' = call /\ HandleEvent
  BY <1>4, HandleSent
<1> QED BY SendingSteps, <1>1, <1>2, <1>3, <1>4

-----------------------------------------------------------------------------
(***************************************************************************)
(* The working flag.                                                       *)
(***************************************************************************)

\* A refresh that was asked for waits.
LEMMA Waits ==
  ASSUME TypeOK, Control, Enqueue(<< Command("refresh") >>), news', pc' = pc
  PROVE  RefreshWaits'
<1>1. lock \in Seq(Commands) /\ << Command("refresh") >> \in Seq(Commands) /\ Command("refresh").kind = "refresh"
      /\ << Command("refresh") >>[1] = Command("refresh") /\ 1 \in DOMAIN << Command("refresh") >>
  BY CommandType DEF TypeOK, Command
<1>2. CASE Len(lock) > 1 /\ Last(lock) = Command("refresh") /\ lock' = lock
  <2>1. Len(lock) \in DOMAIN lock /\ lock[Len(lock)] = Command("refresh")
    <3>1. Len(lock) \in Nat /\ DOMAIN lock = 1..Len(lock)
      BY <1>1, LenProperties
    <3>2. Len(lock) \in 1..Len(lock)
      BY <1>2, <3>1
    <3> QED BY <1>2, <3>1, <3>2 DEF Last
  <2> QED BY <1>1, <1>2, <2>1 DEF RefreshWaits
<1>3. CASE lock' = lock \o << Command("refresh") >>
  <2>1. Len(lock) \in Nat /\ Len(lock) + 1 \in DOMAIN lock' /\ lock'[Len(lock) + 1] = Command("refresh")
    BY <1>1, <1>3, Joined
  <2>2. pc # "idle" => Len(lock) + 1 > 1
    <3>1. lock # << >> => Len(lock) > 0
      BY <1>1, EmptySeq, LenProperties
    <3> QED BY <2>1, <3>1 DEF Control
  <2> QED BY <1>1, <2>1, <2>2 DEF RefreshWaits
<1> QED BY <1>2, <1>3 DEF Enqueue

\* And stays behind a command that ends or begins.
LEMMA WaitsBehind ==
  ASSUME TypeOK, RefreshWaits, news' = news, Finish, lock # << >>, pc # "idle" \/ Running.kind # "refresh"
  PROVE  RefreshWaits'
<1>1. PICK i \in DOMAIN lock : lock[i].kind = "refresh" /\ (pc # "idle" => i > 1)
  BY DEF RefreshWaits
<1>2. i \in Nat /\ (i # 1 => i - 1 \in DOMAIN Tail(lock) /\ Tail(lock)[i - 1] = lock[i]) /\ Head(lock) = lock[1]
  BY Rest DEF TypeOK
<1>3. i # 1
  BY <1>1, <1>2 DEF Running
<1> QED BY <1>1, <1>2, <1>3 DEF RefreshWaits, Finish

LEMMA WaitsBegins ==
  ASSUME TypeOK, RefreshWaits, UNCHANGED << news, lock >>, pc # "idle" \/ (lock # << >> /\ Running.kind # "refresh")
  PROVE  RefreshWaits'
<1>1. PICK i \in DOMAIN lock : lock[i].kind = "refresh" /\ (pc # "idle" => i > 1)
  BY DEF RefreshWaits
<1>2. i > 1
  <2>1. CASE pc # "idle"
    BY <1>1, <2>1
  <2>2. CASE lock # << >> /\ Running.kind # "refresh"
    <3>1. i \in Nat /\ i > 0 /\ Head(lock) = lock[1]
      <4>1. i \in Nat /\ Head(lock) = lock[1] /\ (i # 1 => i > 1)
        BY <2>2, Rest DEF TypeOK
      <4> QED BY <4>1
    <3> QED BY <1>1, <2>2, <3>1 DEF Running
  <2> QED BY <2>1, <2>2
<1> QED BY <1>1, <1>2 DEF RefreshWaits

LEMMA WaitsStill ==
  ASSUME RefreshWaits, UNCHANGED << news, pc >>, \A i \in DOMAIN lock : i \in DOMAIN lock' /\ lock'[i] = lock[i]
  PROVE  RefreshWaits'
BY DEF RefreshWaits

\* A step that neither sets the flag nor ends a turn.
LEMMA ClearsStays ==
  ASSUME Clears, UNCHANGED << loaded, active, timer >>, working' => working, RefreshWaits => RefreshWaits',
         pc # "adopted", pc' # "sending"
  PROVE  Clears'
BY DEF Clears

LEMMA ClearsUnloaded ==
  ASSUME ~loaded' \/ (~working' /\ pc' # "sending")
  PROVE  Clears'
BY DEF Clears

LEMMA ProviderClears ==
  ASSUME TypeOK, Process, Link, Clears, Provider
  PROVE  Clears'
<1>1. UNCHANGED << loaded, active, timer, working, pc, call, news, lock >>
  BY DEF Provider, ProviderStartsTurn, ProviderItem, ProviderEndsTurn, ProcessDies, LinkLost, ProviderAsks, ProviderWithdraws,
         sesVars, rowVars, lockVars, timeVars
<1>2. HasStart(call) => HasStart(call)'
  <2>1. \E events \in Seq(Events) : Says(events)
    BY ProviderKinds, ProviderGrows
  <2>2. PICK events \in Seq(Events) : Says(events)
    BY <2>1
  <2>3. CASE attached
    <3>1. \A t : HasStart(t) => HasStart(t)'
      BY <2>2, <2>3, Grown
    <3> QED BY <1>1, <3>1 DEF HasStart
  <2>4. CASE ~attached
    BY <1>1, <2>2, <2>4 DEF Says, HasStart
  <2> QED BY <2>3, <2>4
<1> QED BY <1>1, <1>2 DEF Clears, RefreshWaits

LEMMA HandleClears ==
  ASSUME TypeOK, Link, Stream, Control, Clears, HandleEvent
  PROVE  Clears'
<1>1. /\ loaded /\ chan # << >> /\ UNCHANGED << pc, call >>
      /\ (loaded' = loaded /\ chan' = Tail(chan)) \/ ~loaded'
  <2>1. UNCHANGED << pc, call >>
    BY DEF HandleEvent, HandleStarted, HandleItem, HandleOpened, HandleClosed, HandleTerminal, HandleLastTerminal, HandleError,
           lockVars
  <2> QED BY <2>1, Handled DEF Lose, Forget
<1>2. ~Live => ~working /\ pc # "sending"
  BY DEF Control
<1>3. CASE HandleStarted
  <2>1. active' = Next1.turn /\ EventOK(Next1) /\ OfTurn(Next1)
    BY <1>3, Handled DEF HandleStarted, Arrives, OfTurn, HandleEvent
  <2>2. active' # 0
    <3>1. Next1.turn \in 1..turns /\ turns \in Nat
      BY <2>1, RowAssumption DEF EventOK, TypeOK
    <3> QED BY <2>1, <3>1
  <2> QED BY <2>2 DEF Clears
<1>4. CASE ~loaded'
  BY <1>4, ClearsUnloaded
<1>5. CASE HandleItem \/ HandleOpened \/ HandleClosed \/ HandleTerminal
  <2>1. ~IsStart(Next1) /\ loaded' = loaded /\ chan' = Tail(chan)
    BY <1>5 DEF HandleItem, HandleOpened, HandleClosed, HandleTerminal, Arrives, IsStart, sesVars
  <2>2. HasStart(call) => HasStart(call)'
    <3>1. \A t : HasStart(t) => HasStart(t)'
      BY <1>1, <2>1, ReadOff
    <3> QED BY <1>1, <3>1 DEF HasStart
  <2>3. CASE UNCHANGED << active, lock, news >> /\ (UNCHANGED << working, timer >> \/ timer')
    BY <1>1, <2>1, <2>2, <2>3 DEF Clears, RefreshWaits
  <2>4. CASE HandleTerminal /\ Next1.turn \notin Range(seen) /\ Live
    <3>1. Enqueue(<< Command("refresh") >>) /\ news' /\ (working' => active' # 0)
      BY <2>4 DEF HandleTerminal, Sync
    <3>2. RefreshWaits'
      BY <1>1, <3>1, Waits
    <3> QED BY <3>1, <3>2 DEF Clears
  <2>5. CASE HandleTerminal /\ Next1.turn \notin Range(seen) /\ ~Live
    <3>1. ~working' /\ pc' # "sending"
      BY <1>1, <1>2, <2>5 DEF HandleTerminal
    <3> QED BY <3>1, ClearsUnloaded
  <2>6. CASE HandleItem
    BY <2>3, <2>6 DEF HandleItem, sesVars, lockVars
  <2>7. CASE HandleOpened \/ HandleClosed
    BY <2>3, <2>7 DEF HandleOpened, HandleClosed, rowVars, lockVars, timeVars
  <2>8. CASE HandleTerminal /\ Next1.turn \in Range(seen)
    BY <2>3, <2>8 DEF HandleTerminal
  <2> QED BY <1>5, <2>4, <2>5, <2>6, <2>7, <2>8
<1> QED BY <1>3, <1>4, <1>5 DEF HandleEvent, HandleLastTerminal, HandleError, Lose, Forget

LEMMA AloneClears ==
  ASSUME TypeOK, Link, Control, Clears,
         \/ ReportLoss \/ TimerFires \/ Reconcile \/ Restart
         \/ \E kind \in Kinds, q \in Questions \cup { NoQuestion } : Ask(kind, q)
  PROVE  Clears'
<1>e. ASSUME UNCHANGED << loaded, active, timer, working, pc, call, news, chan >>,
             \A i \in DOMAIN lock : i \in DOMAIN lock' /\ lock'[i] = lock[i]
      PROVE  Clears'
  BY <1>e, WaitsStill DEF Clears, HasStart
<1>1. CASE ReportLoss
  <2>1. \A i \in DOMAIN lock : i \in DOMAIN lock' /\ lock'[i] = lock[i]
    BY <1>1, QueueKept, CommandType DEF ReportLoss
  <2> QED BY <1>1, <1>e, <2>1 DEF ReportLoss, linkVars, sesVars, rowVars, timeVars
<1>2. CASE TimerFires
  <2>1. UNCHANGED << loaded, active, pc, call, news, lock, chan >> /\ (active = 0 \/ ~loaded => ~working')
    BY <1>2 DEF TimerFires, sesVars, lockVars, linkVars
  <2> QED BY <2>1 DEF Clears, HasStart, RefreshWaits
<1>3. CASE Reconcile \/ Restart
  <2>1. ~loaded'
    BY <1>3 DEF Reconcile, Restart, sesVars
  <2> QED BY <2>1, ClearsUnloaded
<1>4. ASSUME NEW kind \in Kinds, NEW q \in Questions \cup { NoQuestion }, Ask(kind, q) PROVE Clears'
  <2> DEFINE c == [kind |-> kind, q |-> q]
  <2>1. c \in Commands /\ lock \in Seq(Commands) /\ lock' = Append(lock, c)
    BY <1>4 DEF Commands, TypeOK, Ask
  <2> HIDE DEF c
  <2>2. Append(lock, c) = lock \o << c >>
    BY <2>1
  <2>3. \A i \in DOMAIN lock : i \in DOMAIN lock' /\ lock'[i] = lock[i]
    BY <2>1, <2>2, JoinedOne
  <2> QED BY <1>4, <1>e, <2>3 DEF Ask, linkVars, sesVars, rowVars, timeVars
<1> QED BY <1>1, <1>2, <1>3, <1>4

\* A command that ends without setting the flag.
LEMMA EndedClears ==
  ASSUME TypeOK, Control, Clears, Finish, UNCHANGED << loaded, active, timer, news >>, working' => working,
         pc # "adopted", pc # "idle" \/ (lock # << >> /\ Running.kind # "refresh")
  PROVE  Clears'
<1>1. lock # << >>
  BY DEF Control
<1>2. RefreshWaits => RefreshWaits'
  BY <1>1, WaitsBehind
<1>3. pc' # "sending"
  BY DEF Finish
<1> QED BY <1>2, <1>3, ClearsStays

LEMMA LoadClears ==
  ASSUME TypeOK, Link, Control, Clears,
         \/ BeginLoad \/ NothingToLoad \/ BeginAdopt \/ Adopted \/ AdoptionSettles \/ NoSurvivor \/ SurvivorBusy
         \/ Resumed \/ ResumeFails
  PROVE  Clears'
<1>1. CASE BeginLoad \/ BeginAdopt \/ NoSurvivor \/ SurvivorBusy \/ ResumeFails
  <2>1. ~loaded'
    BY <1>1 DEF BeginLoad, BeginAdopt, NoSurvivor, SurvivorBusy, ResumeFails, Control, sesVars
  <2> QED BY <2>1, ClearsUnloaded
<1>2. CASE NothingToLoad
  <2>1. Finish /\ UNCHANGED << loaded, active, timer, news, working >> /\ pc = "idle" /\ lock # << >>
        /\ Running.kind # "refresh"
    BY <1>2 DEF NothingToLoad, AtFront, sesVars, rowVars, timeVars
  <2> QED BY <2>1, EndedClears
<1>3. CASE Adopted
  BY <1>3 DEF Adopted, Clears
<1>4. CASE AdoptionSettles
  <2>1. pc' # "sending" /\ UNCHANGED << loaded, active >>
    BY <1>4 DEF AdoptionSettles, Finish, sesVars
  <2>2. \/ UNCHANGED working /\ (~working \/ active # 0 \/ timer')
        \/ ~working'
    BY <1>4 DEF AdoptionSettles, ConnectionLost
  <2> QED BY <2>1, <2>2 DEF Clears
<1>5. CASE Resumed
  <2>1. ~working' /\ pc' # "sending"
    BY <1>5 DEF Resumed, Finish, Control
  <2> QED BY <2>1, ClearsUnloaded
<1> QED BY <1>1, <1>2, <1>3, <1>4, <1>5

LEMMA SendClears ==
  ASSUME TypeOK, Process, Link, Control, Clears, SendTurn,
         UNCHANGED << pid, pids, held, asked, raisedBy, attached, sesVars, rowVars, reqVars, timeVars, lossVars, capVars, histVars >>,
         pc # "adopted", pc # "idle" \/ (lock # << >> /\ Running.kind # "refresh")
  PROVE  Clears'
<1>1. UNCHANGED << loaded, active, timer, news, working >>
  BY DEF sesVars, rowVars, timeVars
<1>2. CASE Finish
  BY <1>1, <1>2, EndedClears
<1>3. CASE ~Finish
  <2>1. attached /\ run = 0 /\ turns < MaxTurns /\ pc' = "sending" /\ call' = turns + 1 /\ lock' = lock
    BY <1>3 DEF SendTurn
  <2>2. RefreshWaits => RefreshWaits'
    BY <1>1, <2>1, WaitsBegins
  <2>3. TurnBegins
    BY <2>1 DEF SendTurn, TurnBegins, SessionStays, sesVars, reqVars, histVars, Link
  <2>4. \A t : t = call' => HasStart(t)'
    <3> DEFINE e == TurnEvent("started", turns + 1)
    <3>1. turns + 1 \in 0..MaxTurns
      <4>1. turns \in Nat /\ MaxTurns \in Nat
        BY RowAssumption DEF TypeOK
      <4> QED BY <2>1, <4>1
    <3>2. e \in Events /\ IsStart(e) /\ e.turn = turns + 1 /\ Says(<< e >>)
      BY <2>3, <3>1, TurnEventType DEF TurnEvent, Event, IsStart, TurnBegins
    <3> HIDE DEF e
    <3>3. << e >> \in Seq(Events) /\ 1 \in DOMAIN << e >> /\ << e >>[1] = e
      BY <3>2
    <3>4. \E i \in DOMAIN chan' : chan'[i] = e
      BY <2>1, <3>2, <3>3, Grown
    <3> QED BY <2>1, <3>2, <3>4 DEF HasStart
  <2> QED BY <1>1, <2>1, <2>2, <2>4 DEF Clears, HasStart
<1> QED BY <1>2, <1>3

LEMMA InputClears ==
  ASSUME TypeOK, Process, Link, Stream, Control, Clears,
         SubmitHuman \/ DeliverAutomatic \/ SteerTaken \/ SteerRefused \/ SendResolves \/ SendFails
  PROVE  Clears'
<1>1. CASE SubmitHuman
  <2>1. /\ UNCHANGED << pid, pids, held, asked, raisedBy, attached, sesVars, rowVars, reqVars, timeVars, lossVars, capVars, histVars >>
        /\ pc # "adopted" /\ (pc # "idle" \/ (lock # << >> /\ Running.kind # "refresh"))
    BY <1>1 DEF SubmitHuman, Ready, AtFront, AnswersByMessage
  <2>2. CASE SendTurn
    BY <2>1, <2>2, SendClears
  <2>3. CASE ~loaded \/ active # 0
    BY <2>1, <2>3 DEF Clears, sesVars
  <2> QED BY <1>1, <2>2, <2>3 DEF SubmitHuman
<1>2. CASE DeliverAutomatic
  <2>1. /\ UNCHANGED << pid, pids, held, asked, raisedBy, attached, sesVars, rowVars, reqVars, timeVars, lossVars, capVars, histVars >>
        /\ pc # "adopted" /\ (pc # "idle" \/ (lock # << >> /\ Running.kind # "refresh"))
    BY <1>2 DEF DeliverAutomatic, Ready, AtFront
  <2>2. CASE SendTurn
    BY <2>1, <2>2, SendClears
  <2>3. CASE Finish
    BY <2>1, <2>3, EndedClears DEF sesVars, rowVars, timeVars
  <2> QED BY <1>2, <2>2, <2>3 DEF DeliverAutomatic
<1>3. CASE SteerRefused
  <2>1. /\ UNCHANGED << pid, pids, held, asked, raisedBy, attached, sesVars, rowVars, reqVars, timeVars, lossVars, capVars, histVars >>
        /\ SendTurn /\ pc = "steering"
    BY <1>3 DEF SteerRefused
  <2> QED BY <2>1, SendClears
<1>4. CASE SteerTaken \/ SendFails
  <2>1. Finish /\ UNCHANGED << loaded, active, timer, news, working >> /\ pc \in { "sending", "steering" }
    BY <1>4 DEF SteerTaken, SendFails, sesVars, rowVars, timeVars
  <2> QED BY <2>1, EndedClears
<1>5. CASE SendResolves
  <2>1. /\ pc = "sending" /\ active' = TurnToOwn /\ Finish /\ UNCHANGED << loaded, timer, news >>
        /\ call # 0 /\ lock # << >>
    <3>1. pc = "sending" /\ active' = TurnToOwn /\ Finish /\ UNCHANGED << loaded, timer, news >>
      BY <1>5 DEF SendResolves, timeVars
    <3>2. call \in 1..turns /\ turns \in Nat /\ lock # << >>
      BY <3>1, RowAssumption DEF Control, TypeOK
    <3> QED BY <3>1, <3>2
  <2>2. CASE loaded /\ active' = 0
    <3>1. call \in Range(seen) /\ active = 0
      BY <2>1, <2>2 DEF TurnToOwn
    <3>2. ~HasStart(call)
      <4>1. call \in Nat
        BY <3>1, SeenTurns
      <4> QED BY <3>1, <4>1 DEF HasStart, Stream
    <3>3. RefreshWaits
      BY <2>1, <2>2, <3>1, <3>2 DEF Clears
    <3>4. RefreshWaits'
      BY <2>1, <3>3, WaitsBehind
    <3> QED BY <3>4 DEF Clears
  <2>3. CASE ~(loaded /\ active' = 0)
    BY <2>1, <2>3 DEF Clears
  <2> QED BY <2>2, <2>3
<1> QED BY <1>1, <1>2, <1>3, <1>4, <1>5

LEMMA OtherClears ==
  ASSUME TypeOK, Link, Control, Clears,
         \/ StopUnreachable \/ Interrupt \/ InterruptAccepted \/ InterruptFails
         \/ RespondToNothing \/ Respond \/ RespondSettles \/ RespondFails
         \/ Sleep \/ FallAsleep \/ StayAwake \/ BeginRelease \/ AlreadyReleased \/ Released \/ ReleaseFails
         \/ SettleLoss \/ Refresh
  PROVE  Clears'
<1>1. CASE StopUnreachable \/ Sleep \/ FallAsleep \/ Released \/ ReleaseFails
  <2>1. ~loaded'
    BY <1>1 DEF StopUnreachable, Sleep, FallAsleep, Released, ReleaseFails, Forget, Control, sesVars
  <2> QED BY <2>1, ClearsUnloaded
<1>2. CASE InterruptAccepted \/ InterruptFails \/ RespondToNothing \/ RespondSettles \/ RespondFails \/ StayAwake
             \/ AlreadyReleased
  <2>1. Finish /\ UNCHANGED << loaded, active, timer, news, working >> /\ pc # "adopted"
        /\ (pc # "idle" \/ (lock # << >> /\ Running.kind # "refresh"))
    BY <1>2 DEF InterruptAccepted, InterruptFails, RespondToNothing, RespondSettles, RespondFails, StayAwake, AlreadyReleased,
                AtFront, sesVars, rowVars, timeVars
  <2> QED BY <2>1, EndedClears
<1>3. CASE Interrupt \/ Respond
  <2>1. UNCHANGED << loaded, active, timer, news, working >> /\ pc = "idle" /\ lock # << >> /\ Running.kind # "refresh"
        /\ (Finish \/ (lock' = lock /\ pc' \in { "stopping", "answering" }))
    BY <1>3 DEF Interrupt, Respond, AtFront, sesVars, rowVars, timeVars
  <2>2. CASE Finish
    BY <2>1, <2>2, EndedClears
  <2>3. CASE ~Finish
    BY <2>1, <2>3, WaitsBegins, ClearsStays
  <2> QED BY <2>2, <2>3
<1>4. CASE BeginRelease
  <2>1. ~working' /\ pc' # "sending"
    BY <1>4 DEF BeginRelease
  <2> QED BY <2>1, ClearsUnloaded
<1>5. CASE SettleLoss
  <2>1. ~working' /\ pc' # "sending"
    BY <1>5 DEF SettleLoss, ConnectionLost, Finish, Control
  <2> QED BY <2>1, ClearsUnloaded
<1>6. CASE Refresh
  <2>1. pc = "idle" /\ pc' # "sending" /\ UNCHANGED << loaded, active >>
    BY <1>6 DEF Refresh, AtFront, Finish, sesVars
  <2>2. CASE news /\ status = "bound"
    BY <1>6, <2>1, <2>2 DEF Refresh, Sync, Clears
  <2>3. CASE ~(news /\ status = "bound")
    <3>1. UNCHANGED << working, timer >> /\ (loaded => ~RefreshWaits)
      BY <1>6, <2>1, <2>3 DEF Refresh, RefreshWaits, Control
    <3> QED BY <2>1, <3>1 DEF Clears
  <2> QED BY <2>2, <2>3
<1> QED BY <1>1, <1>2, <1>3, <1>4, <1>5, <1>6

LEMMA NextClears ==
  ASSUME TypeOK, Process, Link, Stream, Control, Clears, [Next]_vars
  PROVE  Clears'
<1>1. CASE Next
  BY <1>1, ProviderClears, HandleClears, AloneClears, LoadClears, InputClears, OtherClears DEF Next, RunCommand
<1>2. CASE UNCHANGED vars
  BY <1>2 DEF vars, linkVars, sesVars, rowVars, lockVars, timeVars, Clears, HasStart, RefreshWaits
<1> QED BY <1>1, <1>2

-----------------------------------------------------------------------------
(***************************************************************************)
(* The invariant holds, and what follows from it.                          *)
(***************************************************************************)
LEMMA InitTypes ==
  ASSUME Init
  PROVE  TypeOK
<1>1. \A n \in Nat : 0 \in 0..n
  OBVIOUS
<1>2. /\ 0 \in 0..MaxPids /\ 0 \in 0..MaxTurns /\ 0 \in 0..BusyLimit /\ 0 \in 0..MaxCommands /\ 0 \in 0..MaxBoots
      /\ 0 \in 0..MaxLosses
  BY <1>1, RowAssumption
<1>3. << >> \in Seq(Events) /\ << >> \in Seq(Turns) /\ << >> \in Seq(Commands) /\ Len(<< >>) <= Memory
  BY RowAssumption, EmptySeq
<1>4. [pid |-> 0, ids |-> {}] \in [pid : 0..MaxPids, ids : SUBSET Questions]
  BY <1>2
<1>5. /\ [q \in Questions |-> 0] \in [Questions -> 0..MaxTurns]
      /\ [p \in 1..MaxPids |-> [q \in Questions |-> 0]] \in [1..MaxPids -> [Questions -> Nat]]
      /\ [t \in Turns |-> 0] \in [Turns -> Nat]
  BY <1>2
<1> QED BY <1>2, <1>3, <1>4, <1>5 DEF Init, TypeOK

LEMMA InitInv ==
  ASSUME Init
  PROVE  Inv /\ Remembered
<1>1. TypeOK
  BY InitTypes
<1>2. DOMAIN chan = {} /\ DOMAIN seen = {} /\ Range(seen) = {} /\ chan = << >>
  BY DEF Init, Range
<1>3. /\ pid = 0 /\ pids = 0 /\ run = 0 /\ turns = 0 /\ held = {} /\ raisedBy = [q \in Questions |-> 0] /\ attached = FALSE
      /\ loaded = FALSE /\ active = 0 /\ open = {} /\ stored = {} /\ status = "bound" /\ working = FALSE /\ asleep = FALSE
      /\ pc = "idle" /\ told = [p \in 1..MaxPids |-> [q \in Questions |-> 0]] /\ ends = [t \in Turns |-> 0]
  BY DEF Init
<1>4. Process /\ Link
  BY <1>2, <1>3 DEF Process, Link
<1>5. Stream /\ Fresh
  BY <1>2, <1>3 DEF Stream, Fresh
<1>6. Ended
  BY <1>3 DEF Ended, EndedOnce
<1>7. Asked /\ Shown /\ Answering
  BY <1>2, <1>3 DEF Asked, AskedAbout, Shown, ShownAbout, Answering
<1>8. Telling
  BY <1>3 DEF Telling
<1>9. Control /\ NoneLeft /\ Clears
  BY <1>3 DEF Control, NoneLeft, Clears, Live
<1>10. Remembered
  BY <1>2, <1>3 DEF Remembered, Agrees, Sent, Kept, Ordered
<1> QED BY <1>1, <1>4, <1>5, <1>6, <1>7, <1>8, <1>9, <1>10 DEF Inv

LEMMA NextInv ==
  ASSUME Inv, [Next]_vars
  PROVE  Inv'
<1>1. /\ TypeOK /\ Process /\ Link /\ Stream /\ Fresh /\ Ended /\ Asked /\ Shown /\ Answering /\ Telling /\ Control /\ NoneLeft
      /\ Clears
  BY DEF Inv
<1>2. TypeOK' /\ Control' /\ NoneLeft'
  BY <1>1, NextTypes, NextControl, NextNoneLeft
<1>3. Process' /\ Link' /\ Stream'
  BY <1>1, NextProcess, NextLink, NextStream
<1>4. Fresh' /\ Ended'
  BY <1>1, NextFresh, NextEnded
<1>5. Asked' /\ Shown' /\ Answering' /\ Telling'
  BY <1>1, NextQuestions, NextAnswering, NextTelling
<1>6. Clears'
  BY <1>1, NextClears
<1> QED BY <1>2, <1>3, <1>4, <1>5, <1>6 DEF Inv

LEMMA NextRemembered ==
  ASSUME Inv, Remembered, InTime, [Next]_vars
  PROVE  Remembered'
<1>1. /\ TypeOK /\ Process /\ Link /\ Stream /\ Fresh /\ Ended /\ Answering /\ Control
      /\ Agrees /\ Sent /\ Kept /\ Ordered
  BY DEF Inv, Remembered
<1>2. Agrees' /\ Sent' /\ Kept' /\ Ordered'
  BY <1>1, NextAgrees, NextSent, NextKept, NextOrdered
<1> QED BY <1>2 DEF Remembered

LEMMA InvHolds == Spec => []Inv
<1>1. Init => Inv
  BY InitInv
<1>2. Inv /\ [Next]_vars => Inv'
  BY NextInv
<1> QED BY <1>1, <1>2, PTL DEF Spec

\* Every variable stays in its type, whatever the person, the provider and the connections do.
THEOREM TypesHold == Spec => []TypeOK
<1>1. Inv => TypeOK
  BY DEF Inv
<1> QED BY <1>1, InvHolds, PTL

\* A process of its own never outlives a conversation that sleeps or is over: the end of the
\* process is part of the step that puts the row there (endConversation(), releaseSession()),
\* and nothing launches or adopts one afterwards.
THEOREM NothingLeftBehind == Spec => []NoProcessLeft
<1>1. Inv => NoProcessLeft
  BY DEF Inv, NoneLeft, NoProcessLeft
<1> QED BY <1>1, InvHolds, PTL

\* Once everything the provider said is read, the row lists exactly the questions it waits on,
\* after any losses, adoptions and restarts (openQuestion(), closeRequest(), register()).
THEOREM QuestionsAgree == Spec => []QuestionsShownAreHeld
<1>1. Inv => QuestionsShownAreHeld
  <2> SUFFICES ASSUME Inv PROVE QuestionsShownAreHeld
    OBVIOUS
  <2>1. stored = open /\ (~loaded => open = {}) /\ held \cap MessageMode = {} /\ open \subseteq Questions /\ held \subseteq Questions
    BY DEF Inv, Link, Process, TypeOK
  <2>2. ASSUME Settled PROVE stored \ MessageMode = held
    <3>1. DOMAIN chan = {} /\ attached
      <4>1. chan = << >>
        BY <2>2 DEF Settled
      <4> QED BY <2>2, <4>1 DEF Settled
    <3>2. \A q \in Questions : (q \in held => q \in open) /\ (q \in open => q \in held \cup MessageMode)
      BY <3>1 DEF Inv, Shown, ShownAbout, HasOpen
    <3> QED BY <2>1, <3>2
  <2> QED BY <2>1, <2>2 DEF QuestionsShownAreHeld
<1> QED BY <1>1, InvHolds, PTL

\* The person is told of a question of the shared process once, over all the connections that
\* find it open; the end of a turn is passed on once per connection (handleTerminal()).
THEOREM NothingTwice == Spec => []ToldOnce
<1>1. Inv => ToldOnce
  BY DEF Inv, Telling, Ended, EndedOnce, ToldOnce
<1> QED BY <1>1, InvHolds, PTL

\* As long as every send is answered in time, before TERMINAL_MEMORY more turns have begun, the
\* active turn is the one the provider runs once what it said is read: startTurn() never brings
\* back a turn that has ended.
THEOREM ActiveTurnHolds == Spec /\ []InTime => []ActiveTurnIsReal
<1>1. Init => Inv /\ Remembered
  BY InitInv
<1>2. (Inv /\ Remembered) /\ InTime /\ [Next]_vars => (Inv /\ Remembered)'
  BY NextInv, NextRemembered
<1>3. Inv /\ Remembered => ActiveTurnIsReal
  <2> SUFFICES ASSUME Remembered, Settled PROVE active = run
    BY DEF ActiveTurnIsReal
  <2>1. attached /\ chan = << >>
    BY DEF Settled
  <2>2. DOMAIN chan = {}
    BY <2>1
  <2> QED BY <2>1, <2>2 DEF Remembered, Agrees, HasStart, HasEnd
<1> QED BY <1>1, <1>2, <1>3, PTL DEF Spec

\* And a loaded row with nothing queued, unread or armed reads working only while its provider
\* runs a turn: whatever ends the turn leaves a refresh or the expiry timer behind to clear it.
THEOREM FlagIsCleared == Spec /\ []InTime => []NotStuckWorking
<1>1. Inv /\ ActiveTurnIsReal => NotStuckWorking
  <2> SUFFICES ASSUME Inv, ActiveTurnIsReal, Settled, lock = << >>, ~timer, working PROVE run # 0
    BY DEF NotStuckWorking
  <2>1. DOMAIN lock = {}
    OBVIOUS
  <2>2. ~RefreshWaits
    BY <2>1 DEF RefreshWaits
  <2>3. active # 0
    BY <2>2 DEF Inv, Clears, Settled
  <2> QED BY <2>3 DEF ActiveTurnIsReal
<1> QED BY <1>1, InvHolds, ActiveTurnHolds, PTL
=============================================================================
