-------------------------- MODULE AcpSessionProofs --------------------------
(***************************************************************************)
(* Proofs about one conversation with Grok or Vibe, for any number of      *)
(* prompts, turns and faults and any depth of the line:                    *)
(*   - type correctness;                                                   *)
(*   - a turn whose end was reported never runs again;                     *)
(*   - the end of a prompt that had a turn here ends no other turn;        *)
(*   - when nothing is left to do and to read, no turn waits for its end,  *)
(*     but one that Grok ended with an error answer alone.                 *)
(*                                                                         *)
(* Prompts are numbered in the order in which the process works on them,   *)
(* and the line is in that order: this is what says whose end comes next.  *)
(***************************************************************************)
EXTENDS AcpSession, FiniteSetTheorems, TLAPS

-----------------------------------------------------------------------------
(***************************************************************************)
(* The inductive invariant.                                                *)
(***************************************************************************)
Grok == ~vibe
At == DOMAIN line
IsSignal(f) == f.t \in { "completed", "answer" }
IsPrompt(f) == f.t = "content" \/ IsSignal(f)
Waits(p) == \E i \in DOMAIN queue : queue[i] = p
InProcess(p) == p = run \/ Waits(p)
Printed(kind, p) == \E i \in At : line[i].t = kind /\ line[i].p = p

\* Prompts and turns are counted, and nothing speaks of one that is not there yet.
Counted ==
    /\ last <= MaxPrompts /\ turns <= MaxTurns
    /\ run <= last /\ \A i \in DOMAIN queue : queue[i] <= last
    /\ \A p \in own : p <= last
    /\ \A p \in done : p <= last
    /\ \A p \in mine : p <= last
    /\ sending.p <= last /\ bound <= last
    /\ \A t \in Turns : of[t] <= last /\ (t > turns => of[t] = None)
    /\ \A i \in At : line[i].p <= last
    /\ due.p <= last /\ \A f \in early : f.p <= last
    /\ \A p \in Prompts : p > last => late[p] = "no"

\* A turn that was told is one that began, and neither the turn in flight nor the recorded one.
Told ==
    /\ \A t \in told : t <= turns
    /\ active.turn <= turns /\ record.turn <= turns /\ cause.turn <= turns
    /\ active.turn \notin told /\ record.turn \notin told
    /\ active.turn = None => active = NoTurn
    /\ record.turn = None => record = NoRecord
    /\ cause.by # None => cause.turn \in told

\* The process works on prompts in the order of their numbers.
ProcessOrder ==
    /\ \A i, j \in DOMAIN queue : i < j => queue[i] < queue[j]
    /\ run # None => \A i \in DOMAIN queue : run < queue[i]
    /\ \A d \in done : (run # None => d < run) /\ \A i \in DOMAIN queue : d < queue[i]
    /\ \A i \in DOMAIN queue : queue[i] \notin own
    /\ ~alive => queue = << >> /\ run = None /\ ~holds /\ stage = "closed"
    /\ run # None => holds
    /\ Grok /\ (queue # << >> \/ stage = "ready" \/ \E i \in At : IsPrompt(line[i])) => holds
    /\ vibe => own = {}
    /\ \A p \in mine : p \notin own

\* So does the line: content is of a prompt that runs or ended, and comes before the signals of its
\* end, and Grok says of a prompt of which it printed content that it is completed, or it is silent.
LineOrder ==
    /\ \A i \in At : /\ line[i].t \in Handshakes \/ (IsPrompt(line[i]) /\ line[i].p # None)
                     /\ line[i].t = "content" => line[i].p \in done \/ line[i].p = run
                     /\ IsSignal(line[i]) => line[i].p \in done
    /\ \A i, j \in At : i < j /\ IsPrompt(line[i]) /\ IsPrompt(line[j]) =>
          /\ line[i].p <= line[j].p
          /\ IsSignal(line[i]) /\ line[j].t = "content" => line[i].p < line[j].p
          /\ line[i].t = "completed" /\ line[j].t = "completed" => line[i].p < line[j].p
    /\ Grok => \A i \in At : line[i].t = "content" /\ line[i].p \in done \ silent =>
          \E j \in At : i < j /\ line[j].t = "completed" /\ line[j].p = line[i].p

\* The answer a connection waits for in its stage.
Expected == CASE stage = "greeting" -> { "hello" }
              [] stage = "listing" -> { "roster", "away" }
              [] stage = "loading" -> { "loaded" }
              [] OTHER -> {}

\* One handshake request at a time: it is not answered, or its answer is in the line, or due.
HandshakeOrder ==
    /\ asking # "none" => due = NoFrame /\ \A i \in At : line[i].t \notin Handshakes
    /\ asking # "none" => asking \in Expected
    /\ due # NoFrame => due.t \in Expected /\ \A i \in At : line[i].t \notin Handshakes
    /\ \A i \in At : line[i].t \in Handshakes => line[i].t \in Expected
    /\ \A i, j \in At : line[i].t \in Handshakes /\ line[j].t \in Handshakes => i = j
    /\ stage = "closed" => line = << >>
    /\ stage = "listing" => Grok
    /\ \A i \in At : (line[i].t \in { "roster", "loaded" } => holds) /\ (line[i].t = "away" => ~holds)
    /\ (due.t \in { "roster", "loaded" } => holds) /\ (due.t = "away" => ~holds)

\* A roster that names p, at place k of the line (0: it was read): what follows is of p and later
\* prompts, and p ended since, runs or is next.
Heard(p, k) ==
    /\ \A i \in At : IsPrompt(line[i]) => IF i > k THEN line[i].p >= p ELSE line[i].p <= p
    /\ \A i \in At : i < k /\ IsSignal(line[i]) => line[i].p < p
    /\ run # None => run >= p
    /\ \A i \in DOMAIN queue : queue[i] >= p
    /\ p \in done \/ run = p \/ (run = None /\ queue # << >> /\ Head(queue) = p)

\* What follows place k of the line are wakes of Grok's own.
OwnAfter(k) ==
    /\ \A i \in At : i > k /\ IsPrompt(line[i]) => line[i].p \in own
    /\ run # None => run \in own
    /\ queue = << >>

Rosters ==
    /\ \A k \in At : line[k].t = "roster" /\ line[k].p # None => Heard(line[k].p, k)
    /\ due.t = "roster" /\ due.p # None => Heard(due.p, 0)
    /\ \A k \in At : line[k].t = "away" \/ (line[k].t = "roster" /\ line[k].p = None) => OwnAfter(k)
    /\ due.t = "away" \/ (due.t = "roster" /\ due.p = None) => OwnAfter(0)
    /\ Grok /\ stage = "loading" => OwnAfter(0)

\* Which turns there are in which stage, what the record says of them, and whose they are.
TurnState ==
    /\ stage \in { "closed", "greeting", "loading" } => active = NoTurn
    /\ stage \in { "closed", "greeting" } => finished = {}
    /\ stage # "ready" => mine = {} /\ sending = NotSending
    /\ Grok /\ ~holds => active = NoTurn
    /\ sending # NotSending => active = NoTurn
    /\ sending.s = "no" => sending = NotSending
    /\ sending.s = "preparing" => sending.p = None
    /\ sending.s = "written" => sending.p \in mine /\ \A t \in Turns : of[t] # sending.p
    /\ active.timer => stage = "ready"
    /\ stage = "ready" /\ active = NoTurn => record = NoRecord
    /\ active # NoTurn => record = NoRecord \/ record.turn = active.turn
    /\ Grok /\ active # NoTurn /\ record = NoRecord => of[active.turn] \in own \cup silent
    /\ Grok => bound = None
    /\ vibe => finished = {}
    /\ vibe /\ record.turn # None => of[record.turn] = record.prompt /\ record.prompt # None
    /\ active.user => ~active.stray /\ of[active.turn] \in mine /\ bound = None
    /\ bound # None => active # NoTurn /\ of[active.turn] = bound /\ bound \notin mine

\* What was noted as finished is past.
FinishedPast == \A x \in finished : x \in done /\ \A i \in At : line[i].t = "content" => line[i].p > x

\* Turns that begin while Grok lists its sessions are those of content.
Listing ==
    stage = "listing" =>
       /\ active # NoTurn => /\ active.prompt # None /\ active.prompt = of[active.turn]
                             /\ ~active.stray /\ ~active.user
       /\ FinishedPast

\* The answer of prompt q will reach this connection's callback.
Answerable(q) == InProcess(q) \/ Printed("answer", q) \/ q \in answered

\* The completion of prompt p will be known for its end, unless Grok says nothing of it.
Completing(p) == p \in Prompts \ finished /\ (InProcess(p) \/ Printed("completed", p) \/ p \in silent)

\* Every turn that is not stray has an end to come that will be known for its own: the answer, for
\* a turn of this connection; for an adopted one that of its request, or the completion of the
\* prompt it is named for, or that of its own prompt while it has no name.
EndsCome ==
    /\ answered \subseteq done
    /\ active.user => Answerable(of[active.turn])
    /\ sending.s = "written" => Answerable(sending.p)
    /\ record.turn # None =>
          of[record.turn] # None /\ (alive => of[record.turn] \in done \/ InProcess(of[record.turn]))
    /\ vibe /\ active # NoTurn /\ ~active.user /\ ~active.stray =>
          bound # None /\ (InProcess(bound) \/ Printed("answer", bound))
    /\ Grok /\ active # NoTurn /\ ~active.user /\ ~active.stray =>
          Completing(WaitedFor) /\ (active.prompt = None => FinishedPast)

\* The turn of the conversation: in flight, or recorded for the next connection.
Current == IF active # NoTurn THEN active.turn ELSE record.turn
HasTurn(p) == \E t \in Turns : of[t] = p
Only(p) == \A t \in Turns : of[t] = p => t = Current

\* Something of prompt p that could end a turn is still to come; and that nothing was noted about.
Live(p) == InProcess(p) \/ Printed("completed", p) \/ (p \notin mine /\ Printed("answer", p))
Pending(p) == p \notin own /\ late[p] = "no" /\ (InProcess(p) \/ (p \notin finished /\ Live(p)))

\* No turn but the current one is of a prompt after p whose end is still to come.
Sole(p) == \A r \in Prompts : r > p /\ Pending(r) => Only(r)

\* A prompt of the person's whose end is still to come is that of the current turn, unless its
\* turn was closed, which Grok's session knows or not.  For prompts that did not begin, and those
\* that come after a prompt the roster names, the current turn is the only one.
Names ==
    Grok =>
      /\ \A p \in Prompts : Pending(p) /\ HasTurn(p) => Current # None /\ of[Current] = p
      /\ \A p \in Prompts : late[p] = "known" /\ Live(p) => p \in finished
      /\ \A i \in DOMAIN queue : late[queue[i]] = "no" => Only(queue[i])
      /\ \A q \in Prompts : Printed("roster", q) => Sole(q)
      /\ \A q \in Prompts : due = Frame("roster", q) /\ active = NoTurn => Sole(q)

\* Prompt p ended, and no turn will begin for it or is current.
IsOver(p) ==
    /\ p \in done /\ ~Printed("content", p) /\ ~Printed("roster", p) /\ due # Frame("roster", p)
    /\ (Current # None => of[Current] # p) /\ sending.p # p

\* The last end was that of its own prompt, or of one that may end another turn, and that never
\* becomes one that may not.
Causes ==
    cause.by # None =>
      \/ of[cause.turn] = cause.by
      \/ Grok /\ (cause.by \in own \/ late[cause.by] = "unknown" \/ ~HasTurn(cause.by)) /\ IsOver(cause.by)

Inv ==
    /\ TypeOK /\ Counted /\ Told /\ ProcessOrder /\ LineOrder /\ HandshakeOrder /\ Rosters
    /\ TurnState /\ Listing /\ EndsCome /\ Names /\ Causes

-----------------------------------------------------------------------------
(***************************************************************************)
(* The steps, taken apart.                                                 *)
(***************************************************************************)

\* Reading takes the first frame from the line.
Pops == /\ stage # "closed" /\ line # << >> /\ line' = Tail(line)
        /\ UNCHANGED << vibe, process, stage, fresh, asking, sending, mine, last, faults >>

ReadHandshake ==
    /\ Pops /\ Head(line).t \in Handshakes /\ due' = Head(line)
    /\ UNCHANGED << early, session, answered, turns, history >>

ReadAnswer ==
    /\ Pops /\ Head(line).t = "answer" /\ Head(line).p \in mine
    /\ answered' = answered \cup {Head(line).p}
    /\ UNCHANGED << due, early, session, turns, history >>

\* A frame that changes no turn.
ReadQuiet ==
    /\ Pops /\ Head(line).t \notin Handshakes /\ early' \in { early, early \cup {Head(line)} }
    /\ early' # early => Unheard
    /\ Head(line).t = "answer" => Head(line).p \notin mine
    /\ IsSignal(Head(line)) /\ ~Unheard => ~Tells(Head(line)) \/ ~EndsActive(Head(line).p)
    /\ UNCHANGED << due, session, answered, turns, history >>

ReadNames ==
    /\ Pops /\ ~Unheard /\ Head(line).t = "content" /\ active # NoTurn
    /\ Grok /\ active.prompt = None /\ active' = [ active EXCEPT !.prompt = Head(line).p ]
    /\ UNCHANGED << due, early, answered, bound, finished, record, turns, history >>

ReadOpens ==
    /\ Pops /\ ~Unheard /\ Head(line).t = "content" /\ active = NoTurn /\ sending.s = "no"
    /\ Content(Head(line).p)
    /\ UNCHANGED << due, early, answered >>

ReadEnds ==
    /\ Pops /\ ~Unheard /\ IsSignal(Head(line)) /\ (Head(line).t = "answer" => Head(line).p \notin mine)
    /\ Tells(Head(line)) /\ EndsActive(Head(line).p) /\ Finalize(Head(line).p, {Head(line).p})
    /\ UNCHANGED << due, early, answered, turns, of >>

LEMMA ReadCases ==
  ASSUME TypeOK, LineOrder, Read
  PROVE  \/ ReadHandshake \/ ReadAnswer \/ ReadQuiet \/ ReadNames \/ ReadOpens \/ ReadEnds
<1> DEFINE f == Head(line)
<1>1. Pops
  BY DEF Read, Pops
<1>2. f = line[1] /\ 1 \in At
  BY <1>1 DEF Pops, TypeOK, At
<1>3. f.t \in Handshakes \/ IsPrompt(f)
  BY <1>2 DEF LineOrder
<1>4. "content" \notin Handshakes /\ "completed" \notin Handshakes /\ "answer" \notin Handshakes
  BY DEF Handshakes
<1>5. CASE f.t \in Handshakes /\ due' = f /\ UNCHANGED << early, session, answered, turns, history >>
  BY <1>1, <1>5 DEF ReadHandshake
<1>6. CASE f.t = "answer" /\ f.p \in mine /\ answered' = answered \cup {f.p} /\ UNCHANGED << due, early, session, turns, history >>
  BY <1>1, <1>6 DEF ReadAnswer
<1>7. CASE /\ f.t \notin Handshakes /\ f.p \notin mine /\ Unheard
           /\ early' = (IF vibe THEN early \cup {f} ELSE early)
           /\ UNCHANGED << due, session, answered, turns, history >>
  BY <1>1, <1>7 DEF ReadQuiet
<1>8. CASE f.t = "content" /\ ~Unheard /\ Content(f.p) /\ UNCHANGED << due, early, answered >>
  <2>1. CASE /\ active # NoTurn
             /\ active' = IF ~vibe /\ active.prompt = None THEN [ active EXCEPT !.prompt = f.p ] ELSE active
             /\ UNCHANGED << bound, finished, record, turns, history >>
    <3>1. CASE ~vibe /\ active.prompt = None
      BY <1>1, <1>8, <2>1, <3>1 DEF ReadNames, Grok
    <3>2. CASE ~ (~vibe /\ active.prompt = None)
      BY <1>1, <1>4, <1>8, <2>1, <3>2 DEF ReadQuiet, session, IsSignal
    <3> QED BY <3>1, <3>2
  <2>2. CASE active = NoTurn /\ sending.s # "no" /\ UNCHANGED << session, turns, history >>
    BY <1>1, <1>4, <1>8, <2>2 DEF ReadQuiet, IsSignal
  <2>3. CASE active = NoTurn /\ sending.s = "no"
    BY <1>1, <1>8, <2>3 DEF ReadOpens
  <2> QED BY <1>8, <2>1, <2>2, <2>3 DEF Content
<1>9. CASE /\ f.t = "completed" \/ (f.t = "answer" /\ f.p \notin mine)
           /\ ~Unheard
           /\ IF Tells(f) /\ EndsActive(f.p) THEN Finalize(f.p, {f.p}) ELSE UNCHANGED << session, told, late, cause >>
           /\ UNCHANGED << due, early, answered, turns, of >>
  <2>1. CASE Tells(f) /\ EndsActive(f.p)
    BY <1>1, <1>4, <1>9, <2>1 DEF ReadEnds, IsSignal
  <2>2. CASE ~(Tells(f) /\ EndsActive(f.p))
    BY <1>1, <1>4, <1>9, <2>2 DEF ReadQuiet, history
  <2> QED BY <2>1, <2>2
<1> QED BY <1>5, <1>6, <1>7, <1>8, <1>9 DEF Read

\* Grok's roster was read, with a turn to adopt: that of the record goes on for the prompt it was
\* begun for, or for the one that runs; or a turn begins.
Lists == /\ due.t = "roster" /\ due' = NoFrame /\ stage' = "ready"
         /\ UNCHANGED << HandshakeFrame, asking, early, bound, finished, told, late, cause >>

ListedTakes ==
    /\ Lists /\ due.p # None /\ active = NoTurn
    /\ record.turn # None /\ of[record.turn] \notin done
    /\ active' = [ NoTurn EXCEPT !.turn = record.turn, !.stray = ~Awaited(due.p, "completed") ]
    /\ record' = [ NoRecord EXCEPT !.turn = record.turn ]
    /\ UNCHANGED << turns, of >>

ListedMoves ==
    /\ Lists /\ due.p # None /\ active = NoTurn
    /\ record.turn # None /\ of[record.turn] \in done
    /\ active' = [ NoTurn EXCEPT !.turn = record.turn, !.stray = ~Awaited(due.p, "completed") ]
    /\ record' = [ NoRecord EXCEPT !.turn = record.turn ]
    /\ of' = [ of EXCEPT ![record.turn] = due.p ]
    /\ UNCHANGED turns

ListedOpens ==
    /\ Lists /\ due.p # None /\ active = NoTurn /\ record.turn = None
    /\ turns < MaxTurns /\ turns' = turns + 1
    /\ active' = [ NoTurn EXCEPT !.turn = turns + 1, !.stray = ~Awaited(due.p, "completed") ]
    /\ record' = [ NoRecord EXCEPT !.turn = turns + 1 ]
    /\ of' = [ of EXCEPT ![turns + 1] = due.p ]

ListedKeeps ==
    /\ Lists /\ due.p # None /\ active # NoTurn
    /\ UNCHANGED << active, record, turns, of >>

ListedDrops ==
    /\ Lists /\ due.p = None
    /\ record' = NoRecord
    /\ UNCHANGED << active, turns, of >>

LEMMA ListedCases ==
  ASSUME TypeOK, Listed
  PROVE  ListedTakes \/ ListedMoves \/ ListedOpens \/ ListedKeeps \/ ListedDrops
<1>1. Lists
  BY DEF Listed, Lists
<1>2. CASE /\ due.p # None /\ active = NoTurn
           /\ Adopt(due.p, ~Awaited(due.p, "completed"))
           /\ record' = [ NoRecord EXCEPT !.turn = active'.turn ]
  <2> DEFINE a == [ NoTurn EXCEPT !.stray = ~Awaited(due.p, "completed") ]
  <2>1. CASE record.turn # None
    <3>1. /\ active' = [ a EXCEPT !.turn = record.turn ]
          /\ of' = IF of[record.turn] \in done THEN [ of EXCEPT ![record.turn] = due.p ] ELSE of
          /\ UNCHANGED turns
      BY <1>2, <2>1 DEF Adopt
    <3>2. active' = [ NoTurn EXCEPT !.turn = record.turn, !.stray = ~Awaited(due.p, "completed") ] /\ active'.turn = record.turn
      BY <3>1 DEF NoTurn
    <3> QED BY <1>1, <1>2, <2>1, <3>1, <3>2 DEF ListedTakes, ListedMoves
  <2>2. CASE record.turn = None
    <3>1. BeginTurn(due.p, a)
      BY <1>2, <2>2 DEF Adopt
    <3>2. active' = [ NoTurn EXCEPT !.turn = turns + 1, !.stray = ~Awaited(due.p, "completed") ] /\ active'.turn = turns + 1
      BY <3>1 DEF NoTurn, BeginTurn
    <3> QED BY <1>1, <1>2, <2>2, <3>1, <3>2 DEF ListedOpens, BeginTurn
  <2> QED BY <2>1, <2>2
<1>3. CASE due.p # None /\ active # NoTurn /\ UNCHANGED << active, record, turns, of >>
  BY <1>1, <1>3 DEF ListedKeeps
<1>4. CASE due.p = None /\ record' = NoRecord /\ UNCHANGED << active, turns, of >>
  BY <1>1, <1>4 DEF ListedDrops
<1> QED BY <1>2, <1>3, <1>4 DEF Listed

\* A Vibe process was running already.  With no record, or one that the store settles, held content
\* may open a turn.
Reattaches == /\ due.t = "hello" /\ vibe /\ ~fresh /\ due' = NoFrame /\ stage' = "ready" /\ early' = {}
              /\ UNCHANGED << HandshakeFrame, asking, finished, late >>

\* The end of the recorded turn is reported.
ReportsRecord == told' = told \cup {record.turn} /\ cause' = [ turn |-> record.turn, by |-> record.prompt ]

ReattachedSettled ==
    /\ Reattaches /\ OpenHeld /\ record' = NoRecord /\ UNCHANGED bound
    /\ \/ record = NoRecord /\ UNCHANGED << told, cause >>
       \/ record # NoRecord /\ ReportsRecord

ReattachedHeard ==
    /\ Reattaches /\ record # NoRecord /\ ReportsRecord /\ record' = NoRecord
    /\ UNCHANGED << active, bound, turns, of >>

\* The turn of the record goes on, and its request will be answered or was.
ReattachedAdopts ==
    /\ Reattaches /\ record # NoRecord
    /\ active' = [ NoTurn EXCEPT !.turn = record.turn, !.stray = ~Awaited(record.prompt, "answer") ]
    /\ bound' = record.prompt
    /\ UNCHANGED << turns, of, record, told, cause >>

LEMMA ReattachedCases ==
  ASSUME TypeOK, Told, TurnState, Reattached
  PROVE  ReattachedSettled \/ ReattachedHeard \/ ReattachedAdopts
<1>1. Reattaches
  BY DEF Reattached, Reattaches
<1>2. CASE record = NoRecord
  <2>1. OpenHeld /\ UNCHANGED << bound, record, told, cause >>
    BY <1>2 DEF Reattached
  <2> QED BY <1>1, <1>2, <2>1 DEF ReattachedSettled
<1>3. CASE record # NoRecord /\ Settled
  <2>1. /\ OpenHeld /\ ReportsRecord
        /\ record' = NoRecord /\ UNCHANGED bound
    BY <1>3, Zenon DEF Reattached, ReportsRecord
  <2> QED BY <1>1, <1>3, <2>1 DEF ReattachedSettled
<1>4. CASE record # NoRecord /\ ~Settled /\ Frame("answer", record.prompt) \in early
  <2>1. /\ ReportsRecord
        /\ record' = NoRecord /\ UNCHANGED << active, bound, turns, of >>
    BY <1>4, Zenon DEF Reattached, ReportsRecord
  <2> QED BY <1>1, <1>4, <2>1 DEF ReattachedHeard
<1>5. CASE record # NoRecord /\ ~Settled /\ Frame("answer", record.prompt) \notin early
  <2>1. Adopt(record.prompt, ~Awaited(record.prompt, "answer")) /\ bound' = record.prompt /\ UNCHANGED << record, told, cause >>
    BY <1>5, Zenon DEF Reattached
  <2>2. record.turn # None /\ record.turn \in Turns
    BY <1>5 DEF Told, TypeOK
  <2>3. of[record.turn] = record.prompt
    BY <1>1, <2>2 DEF TurnState, Reattaches
  <2> DEFINE a == [ NoTurn EXCEPT !.stray = ~Awaited(record.prompt, "answer") ]
  <2>4. /\ active' = [ a EXCEPT !.turn = record.turn ]
        /\ of' = IF of[record.turn] \in done THEN [ of EXCEPT ![record.turn] = record.prompt ] ELSE of
        /\ UNCHANGED turns
    BY <2>1, <2>2 DEF Adopt
  <2>5. active' = [ NoTurn EXCEPT !.turn = record.turn, !.stray = ~Awaited(record.prompt, "answer") ]
    BY <2>4 DEF NoTurn
  <2>6. [ of EXCEPT ![record.turn] = record.prompt ] = of
    BY <2>2, <2>3 DEF TypeOK
  <2> QED BY <1>1, <1>5, <2>1, <2>4, <2>5, <2>6 DEF ReattachedAdopts
<1> QED BY <1>2, <1>3, <1>4, <1>5

-----------------------------------------------------------------------------
(***************************************************************************)
(* The line and the queue.                                                 *)
(***************************************************************************)

\* Reading: every other frame moves up.
LEMMA Moved ==
  ASSUME TypeOK, line # << >>, line' = Tail(line)
  PROVE  /\ line' \in Seq(Frames) /\ 1 \in At /\ Head(line) = line[1] /\ Head(line) \in Frames
         /\ \A i \in At : i \in Nat /\ i >= 1 /\ (i = 1 \/ (i - 1 \in At' /\ line'[i - 1] = line[i]))
         /\ \A i \in At' : i \in Nat /\ i >= 1 /\ i + 1 \in At /\ line'[i] = line[i + 1]
BY DEF TypeOK, At

\* One frame is printed.
LEMMA PrintsOne ==
  ASSUME TypeOK, NEW f \in Frames, Prints(<< f >>), stage # "closed"
  PROVE  LET n == Len(line) + 1
         IN  /\ line' \in Seq(Frames) /\ n \in At' /\ line'[n] = f /\ n \in Nat
             /\ \A i \in At : i \in Nat /\ i < n /\ i \in At' /\ line'[i] = line[i]
             /\ \A i \in At' : i = n \/ i \in At
<1>1. line \in Seq(Frames) /\ line' = line \o << f >>
  BY DEF TypeOK, Prints
<1> QED BY <1>1 DEF At

\* Two are.
LEMMA PrintsTwo ==
  ASSUME TypeOK, NEW f \in Frames, NEW g \in Frames, Prints(<< f, g >>), stage # "closed"
  PROVE  LET n == Len(line) + 1
         IN  /\ line' \in Seq(Frames) /\ n \in At' /\ line'[n] = f /\ n \in Nat
             /\ n + 1 \in At' /\ line'[n + 1] = g
             /\ \A i \in At : i \in Nat /\ i < n /\ i \in At' /\ line'[i] = line[i]
             /\ \A i \in At' : i = n \/ i = n + 1 \/ i \in At
<1>1. line \in Seq(Frames) /\ line' = line \o << f, g >>
  BY DEF TypeOK, Prints
<1>2. Len(line') = Len(line) + 2 /\ Len(line) \in Nat /\ line' \in Seq(Frames)
  BY <1>1
<1>3. \A i \in 1 .. Len(line) : line'[i] = line[i]
  BY <1>1
<1>4. line'[Len(line) + 1] = f /\ line'[Len(line) + 2] = g
  BY <1>1
<1> QED BY <1>1, <1>2, <1>3, <1>4 DEF At

\* The line of a lost connection.
LEMMA PrintsNone ==
  ASSUME NEW fs, Prints(fs), stage = "closed"
  PROVE  line' = line
BY DEF Prints

\* The next prompt leaves the queue.
LEMMA Leaves ==
  ASSUME TypeOK, queue # << >>, queue' = Tail(queue)
  PROVE  /\ queue' \in Seq(Prompts) /\ 1 \in DOMAIN queue /\ Head(queue) = queue[1] /\ Head(queue) \in Prompts
         /\ \A i \in DOMAIN queue : i \in Nat /\ i >= 1 /\ (i = 1 \/ (i - 1 \in DOMAIN queue' /\ queue'[i - 1] = queue[i]))
         /\ \A i \in DOMAIN queue' : i \in Nat /\ i >= 1 /\ i + 1 \in DOMAIN queue /\ queue'[i] = queue[i + 1]
         /\ queue' # << >> => Head(queue') = queue[2] /\ 2 \in DOMAIN queue
BY DEF TypeOK

\* A prompt joins it.
LEMMA Joins ==
  ASSUME TypeOK, NEW p \in Prompts, queue' = Append(queue, p)
  PROVE  /\ queue' \in Seq(Prompts) /\ queue' # << >>
         /\ Len(queue) + 1 \in DOMAIN queue' /\ queue'[Len(queue) + 1] = p
         /\ \A i \in DOMAIN queue : i \in Nat /\ i < Len(queue) + 1 /\ i \in DOMAIN queue' /\ queue'[i] = queue[i]
         /\ \A i \in DOMAIN queue' : i = Len(queue) + 1 \/ i \in DOMAIN queue
         /\ Head(queue') = IF queue = << >> THEN p ELSE Head(queue)
BY DEF TypeOK

-----------------------------------------------------------------------------
(***************************************************************************)
(* Types.                                                                  *)
(***************************************************************************)
ActiveType == [ turn : Turns \cup {None}, prompt : Prompts \cup {None}, user : BOOLEAN, timer : BOOLEAN, stray : BOOLEAN ]
RecordType == [ turn : Turns \cup {None}, prompt : Prompts \cup {None}, base : -1 .. MaxPrompts ]
CauseType  == [ turn : Turns \cup {None}, by : Prompts \cup {None} ]
LateType   == [ Prompts -> { "no", "known", "unknown" } ]
OfType     == [ Turns -> Prompts \cup {None} ]

LEMMA ConstantTypes ==
  /\ NoTurn \in ActiveType /\ NoRecord \in RecordType /\ NoFrame \in Frames /\ None \notin Prompts \cup Turns
  /\ \A p \in Prompts \cup {None} : \A t \in { "none", "hello", "roster", "away", "loaded", "content", "completed", "answer" } :
        Frame(t, p) \in Frames /\ Frame(t, p).t = t /\ Frame(t, p).p = p
  /\ NoTurn.turn = None /\ NoTurn.prompt = None /\ NoTurn.user = FALSE /\ NoTurn.timer = FALSE /\ NoTurn.stray = FALSE
  /\ NoRecord.turn = None /\ NoRecord.prompt = None
  /\ NoFrame.t = "none" /\ NoFrame.p = None
  /\ NotSending.s = "no" /\ NotSending.p = None
BY BoundAssumption DEF NoTurn, ActiveType, NoRecord, RecordType, NoFrame, Frames, Frame, NotSending, None, Prompts, Turns

LEMMA DoneCount ==
  ASSUME NEW S \in SUBSET Prompts
  PROVE  Cardinality(S) \in 0 .. MaxPrompts
<1>1. IsFiniteSet(Prompts) /\ Cardinality(Prompts) = MaxPrompts
  BY FS_Interval, BoundAssumption DEF Prompts
<1>2. IsFiniteSet(S) /\ Cardinality(S) <= Cardinality(Prompts)
  BY <1>1, FS_Subset
<1>3. Cardinality(S) \in Nat
  BY <1>2, FS_CardinalityType
<1> QED BY <1>1, <1>2, <1>3, BoundAssumption

\* The variables of the session, by themselves.
SessionType ==
    /\ active \in ActiveType /\ bound \in Prompts \cup {None} /\ finished \subseteq Prompts /\ record \in RecordType
    /\ of \in OfType /\ told \subseteq Turns /\ late \in LateType /\ cause \in CauseType /\ turns \in Nat

LEMMA SessionTyped == TypeOK => SessionType
BY DEF TypeOK, SessionType, ActiveType, RecordType, OfType, LateType, CauseType

LEMMA FinalizeType ==
  ASSUME TypeOK, Told, active # NoTurn, NEW by \in Prompts \cup {None}, NEW names, names \subseteq Prompts,
         Finalize(by, names)
  PROVE  /\ active' = NoTurn /\ bound' = None /\ finished' \subseteq Prompts /\ record' = NoRecord
         /\ told' = told \cup {active.turn} /\ told' \subseteq Turns /\ late' \in LateType /\ cause' \in CauseType
         /\ active.turn \in Turns
<1>1. active.turn \in Turns /\ active.turn # None
  BY DEF TypeOK, Told
<1>2. finished' \subseteq Prompts
  BY DEF Finalize, TypeOK
<1>3. late' \in LateType
  <2>1. CASE of[active.turn] \in { None, by }
    BY <2>1 DEF Finalize, TypeOK, LateType
  <2>2. CASE of[active.turn] \notin { None, by }
    <3>1. PICK v \in { "known", "unknown" } : late' = [ late EXCEPT ![of[active.turn]] = v ]
      BY <2>2 DEF Finalize
    <3> QED BY <3>1 DEF TypeOK, LateType
  <2> QED BY <2>1, <2>2
<1>4. cause' \in CauseType
  BY <1>1 DEF Finalize, CauseType
<1> QED BY <1>1, <1>2, <1>3, <1>4 DEF Finalize, TypeOK

LEMMA BeginsType ==
  ASSUME TypeOK, NEW p \in Prompts \cup {None}, turns < MaxTurns, turns' = turns + 1
  PROVE  /\ turns + 1 \in Turns /\ turns' \in Nat
         /\ \A o : o = [ of EXCEPT ![turns + 1] = p ] => o \in OfType
BY BoundAssumption DEF TypeOK, Turns, OfType

LEMMA TurnType ==
  ASSUME NEW a \in ActiveType
  PROVE  /\ \A t \in Turns : [ a EXCEPT !.turn = t ] \in ActiveType
         /\ \A p \in Prompts : [ a EXCEPT !.prompt = p ] \in ActiveType
         /\ [ a EXCEPT !.user = TRUE ] \in ActiveType /\ [ a EXCEPT !.timer = TRUE ] \in ActiveType
         /\ \A t \in Turns, b \in BOOLEAN : [ a EXCEPT !.turn = t, !.stray = b ] \in ActiveType
         /\ \A p \in Prompts \cup {None}, b \in BOOLEAN : [ a EXCEPT !.prompt = p, !.stray = b ] \in ActiveType
         /\ [ a EXCEPT !.stray = TRUE ] \in ActiveType
<1>1. \A t \in Turns : [ a EXCEPT !.turn = t ] \in ActiveType
  BY DEF ActiveType
<1>2. \A p \in Prompts : [ a EXCEPT !.prompt = p ] \in ActiveType
  BY DEF ActiveType
<1>3. /\ [ a EXCEPT !.user = TRUE ] \in ActiveType /\ [ a EXCEPT !.timer = TRUE ] \in ActiveType
      /\ [ a EXCEPT !.stray = TRUE ] \in ActiveType
  BY DEF ActiveType
<1>4. \A t \in Turns, b \in BOOLEAN : [ a EXCEPT !.turn = t, !.stray = b ] \in ActiveType
  BY Zenon DEF ActiveType
<1>5. \A p \in Prompts \cup {None}, b \in BOOLEAN : [ a EXCEPT !.prompt = p, !.stray = b ] \in ActiveType
  BY Zenon DEF ActiveType
<1> QED BY <1>1, <1>2, <1>3, <1>4, <1>5

LEMMA ForgottenType ==
  ASSUME NEW l \in LateType
  PROVE  Forgotten(l) \in LateType
BY DEF Forgotten, LateType

LEMMA ReadOpensType ==
  ASSUME TypeOK, ReadOpens
  PROVE  /\ Head(line).p \in Prompts \cup {None}
         /\ turns < MaxTurns /\ turns' = turns + 1 /\ turns + 1 \in Turns
         /\ LET p == Head(line).p
            IN  /\ active' = [ NoTurn EXCEPT !.turn = turns + 1, !.prompt = IF vibe THEN None ELSE p, !.stray = vibe \/ p \in finished ]
                /\ of' = [ of EXCEPT ![turns + 1] = p ]
                /\ record' = IF vibe THEN record ELSE [ NoRecord EXCEPT !.turn = turns + 1 ]
                /\ late' = IF ~vibe /\ record.turn # None /\ of[record.turn] \notin { None, p }
                             THEN [ late EXCEPT ![of[record.turn]] = "unknown" ] ELSE late
         /\ UNCHANGED << bound, finished, told, cause >>
         /\ active' \in ActiveType /\ of' \in OfType /\ record' \in RecordType /\ late' \in LateType
<1> DEFINE p == Head(line).p
<1>1. p \in Prompts \cup {None}
  <2>1. Head(line) \in Frames
    BY Moved DEF ReadOpens, Pops
  <2> QED BY <2>1 DEF Frames
<1>2. /\ BeginTurn(p, [ NoTurn EXCEPT !.prompt = IF vibe THEN None ELSE p, !.stray = vibe \/ p \in finished ])
      /\ record' = IF vibe THEN record ELSE [ NoRecord EXCEPT !.turn = turns + 1 ]
      /\ late' = IF ~vibe /\ record.turn # None /\ of[record.turn] \notin { None, p }
                   THEN [ late EXCEPT ![of[record.turn]] = "unknown" ] ELSE late
      /\ UNCHANGED << bound, finished, told, cause >>
  BY DEF ReadOpens, Content
<1>3. /\ turns < MaxTurns /\ turns' = turns + 1
      /\ active' = [ [ NoTurn EXCEPT !.prompt = IF vibe THEN None ELSE p, !.stray = vibe \/ p \in finished ] EXCEPT !.turn = turns + 1 ]
      /\ of' = [ of EXCEPT ![turns + 1] = p ]
  BY <1>2 DEF BeginTurn
<1>4. turns + 1 \in Turns /\ of' \in OfType
  BY <1>1, <1>3, BeginsType
<1>5. active' = [ NoTurn EXCEPT !.turn = turns + 1, !.prompt = IF vibe THEN None ELSE p, !.stray = vibe \/ p \in finished ]
  BY <1>3 DEF NoTurn
<1>6. active' \in ActiveType
  <2>1. (IF vibe THEN None ELSE p) \in Prompts \cup {None} /\ (vibe \/ p \in finished) \in BOOLEAN
    BY <1>1
  <2> HIDE DEF p
  <2> QED BY <1>3, <1>4, <2>1, TurnType, ConstantTypes, Zenon
<1>7. record' \in RecordType
  BY <1>2, <1>4, ConstantTypes DEF TypeOK, RecordType
<1>8. late' \in LateType
  <2>1. \A q : [ late EXCEPT ![q] = "unknown" ] \in LateType
    BY DEF TypeOK, LateType
  <2> HIDE DEF p
  <2> QED BY <1>2, <2>1 DEF TypeOK, LateType
<1> QED BY <1>1, <1>2, <1>3, <1>4, <1>5, <1>6, <1>7, <1>8

\* The other variables.
ProcessType ==
    /\ vibe \in BOOLEAN /\ alive \in BOOLEAN /\ holds \in BOOLEAN /\ queue \in Seq(Prompts)
    /\ run \in Prompts \cup {None} /\ own \subseteq Prompts /\ done \subseteq Prompts
    /\ failed \subseteq done /\ silent \subseteq failed
WireType ==
    /\ asking \in { "none", "hello", "roster", "loaded" } /\ line \in Seq(Frames) /\ due \in Frames /\ early \subseteq Frames
    /\ stage \in { "closed", "greeting", "listing", "loading", "ready" } /\ fresh \in BOOLEAN
ClientType ==
    /\ sending \in [ s : { "no", "preparing", "written" }, p : Prompts \cup {None}, base : -1 .. MaxPrompts ]
    /\ mine \subseteq Prompts /\ answered \subseteq mine /\ last \in Nat /\ faults \in Nat

LEMMA TypeParts == TypeOK <=> ProcessType /\ WireType /\ ClientType /\ SessionType
BY DEF TypeOK, ProcessType, WireType, ClientType, SessionType, ActiveType, RecordType, OfType, LateType, CauseType

LEMMA TypePartsNext == TypeOK' <=> ProcessType' /\ WireType' /\ ClientType' /\ SessionType'
BY DEF TypeOK, ProcessType, WireType, ClientType, SessionType, ActiveType, RecordType, OfType, LateType, CauseType

SameProcess == UNCHANGED << vibe, process >>
SameWire    == UNCHANGED << asking, line, due, early, stage, fresh >>
SameClient  == UNCHANGED << sending, mine, answered, last, faults >>
SameSession == UNCHANGED << active, bound, finished, record, of, told, late, cause, turns >>

LEMMA SameTypes ==
  ASSUME TypeOK
  PROVE  /\ SameProcess => ProcessType'
         /\ SameWire => WireType'
         /\ SameClient => ClientType'
         /\ SameSession => SessionType'
BY TypeParts DEF SameProcess, SameWire, SameClient, SameSession, process, ProcessType, WireType, ClientType, SessionType

LEMMA InitType == Init => TypeOK
<1> SUFFICES ASSUME Init PROVE TypeOK
  OBVIOUS
<1>0. << >> \in Seq(Prompts) /\ << >> \in Seq(Frames)
  OBVIOUS
<1>1. ProcessType
  BY <1>0 DEF Init, ProcessType
<1>2. WireType
  BY <1>0, ConstantTypes DEF Init, WireType
<1>3. ClientType
  BY BoundAssumption DEF Init, ClientType, NotSending, None, Prompts
<1>4. SessionType
  BY ConstantTypes DEF Init, SessionType, OfType, LateType, CauseType
<1> QED BY <1>1, <1>2, <1>3, <1>4, TypeParts

LEMMA ProcessTypeStep ==
  ASSUME Inv, Process
  PROVE  TypeOK'
<1> USE SessionTyped DEF Inv
<1>0. TypeOK /\ SessionType /\ ProcessType /\ WireType /\ ClientType
  BY TypeParts
<1>1. CASE AnswersHandshake
  <2>1. SameSession /\ UNCHANGED << vibe, alive, queue, run, own, done, failed, silent, stage, fresh, due, early, sending, mine, answered, last, faults >>
    BY <1>1 DEF AnswersHandshake, ProcessFrame, SameSession, session, client, history
  <2> DEFINE now == IF run # None THEN run ELSE IF queue # << >> THEN Head(queue) ELSE None
             f == IF asking = "roster" THEN Frame(IF holds THEN "roster" ELSE "away", IF holds THEN now ELSE None) ELSE Frame(asking, None)
  <2>2. now \in Prompts \cup {None}
    BY <1>0 DEF ProcessType
  <2> HIDE DEF now
  <2>3. f \in Frames
    BY <1>0, <2>2, ConstantTypes DEF WireType
  <2>4. Prints(<< f >>)
    BY <1>1 DEF AnswersHandshake, now
  <2> HIDE DEF f
  <2>5. line' \in Seq(Frames)
    BY <1>0, <2>3, <2>4, PrintsOne, PrintsNone DEF WireType
  <2>6. holds' \in BOOLEAN /\ asking' = "none"
    BY <1>1, <1>0 DEF AnswersHandshake, ProcessType
  <2>7. ProcessType' /\ WireType' /\ ClientType'
    BY <1>0, <2>1, <2>5, <2>6 DEF ProcessType, WireType, ClientType
  <2> QED BY <2>1, <2>7, SameTypes, TypePartsNext
<1>2. CASE Begins
  <2>1. SameSession /\ SameClient /\ SameWire /\ UNCHANGED << vibe, alive, holds, own, done, failed, silent >>
    BY <1>2 DEF Begins, ProcessFrame, SameSession, SameClient, SameWire, session, client, history
  <2>2. queue' \in Seq(Prompts) /\ run' \in Prompts
    BY <1>2, Leaves DEF Begins
  <2>3. ProcessType'
    BY <1>0, <2>1, <2>2 DEF ProcessType
  <2> QED BY <2>1, <2>3, SameTypes, TypePartsNext
<1>3. CASE OwnWake
  <2>1. SameSession /\ SameWire /\ UNCHANGED << vibe, alive, holds, queue, done, failed, silent, sending, mine, answered, faults >>
    BY <1>3 DEF OwnWake, ProcessFrame, SameSession, SameWire, session, client, history
  <2>2. last + 1 \in Prompts /\ last' \in Nat /\ run' = last + 1 /\ own' = own \cup {last + 1}
    BY <1>0, <1>3, BoundAssumption DEF OwnWake, ClientType, Prompts
  <2>3. ProcessType' /\ ClientType'
    BY <1>0, <2>1, <2>2 DEF ProcessType, ClientType
  <2> QED BY <2>1, <2>3, SameTypes, TypePartsNext
<1>4. CASE PrintsContent
  <2>1. SameSession /\ SameProcess /\ UNCHANGED << asking, stage, fresh, due, early >> /\ SameClient
    BY <1>4 DEF PrintsContent, ProcessFrame, SameSession, SameProcess, SameClient, session, client, history
  <2>2. Frame("content", run) \in Frames
    BY <1>0, ConstantTypes DEF ProcessType
  <2>3. line' \in Seq(Frames)
    BY <1>0, <1>4, <2>2, PrintsOne, PrintsNone DEF WireType, PrintsContent
  <2>4. WireType'
    BY <1>0, <2>1, <2>3 DEF WireType
  <2> QED BY <2>1, <2>4, SameTypes, TypePartsNext
<1>5. CASE Ends
  <2>1. SameSession /\ SameClient /\ UNCHANGED << vibe, alive, holds, queue, own, asking, stage, fresh, due, early >>
    BY <1>5 DEF Ends, ProcessFrame, SameSession, SameClient, session, client, history
  <2>2. Frame("answer", run) \in Frames /\ Frame("completed", run) \in Frames
    BY <1>0, ConstantTypes DEF ProcessType
  <2>3. line' \in Seq(Frames)
    BY <1>0, <1>5, <2>2, PrintsOne, PrintsTwo, PrintsNone DEF WireType, Ends
  <2>4. WireType' /\ ProcessType'
    BY <1>0, <1>5, <2>1, <2>3 DEF WireType, ProcessType, Ends, Hearing
  <2> QED BY <2>1, <2>4, SameTypes, TypePartsNext
<1>6. CASE Refuses
  <2>1. SameSession /\ SameClient /\ UNCHANGED << vibe, alive, holds, run, own, asking, stage, fresh, due, early >>
    BY <1>6 DEF Refuses, ProcessFrame, SameSession, SameClient, session, client, history
  <2>2. queue' \in Seq(Prompts) /\ Head(queue) \in Prompts
    BY <1>6, Leaves DEF Refuses
  <2>3. line' \in Seq(Frames)
    BY <1>0, <1>6, <2>2, PrintsOne, PrintsNone, ConstantTypes DEF WireType, Refuses
  <2>4. WireType' /\ ProcessType'
    BY <1>0, <1>6, <2>1, <2>2, <2>3 DEF WireType, ProcessType, Refuses, Hearing
  <2> QED BY <2>1, <2>4, SameTypes, TypePartsNext
<1> QED BY <1>1, <1>2, <1>3, <1>4, <1>5, <1>6 DEF Process

LEMMA ReadTypeStep ==
  ASSUME Inv, Read
  PROVE  TypeOK'
<1> USE SessionTyped DEF Inv
<1>0. TypeOK /\ SessionType /\ ProcessType /\ WireType /\ ClientType
  BY TypeParts
<1> SUFFICES ASSUME Pops, ReadHandshake \/ ReadAnswer \/ ReadQuiet \/ ReadNames \/ ReadOpens \/ ReadEnds
             PROVE  TypeOK'
  BY ReadCases DEF ReadHandshake, ReadAnswer, ReadQuiet, ReadNames, ReadOpens, ReadEnds
<1>1. SameProcess /\ UNCHANGED << stage, fresh, asking, sending, mine, last, faults >>
  BY DEF Pops, SameProcess
<1>2. line' \in Seq(Frames) /\ Head(line) \in Frames /\ Head(line).p \in Prompts \cup {None}
  BY Moved DEF Pops, Frames
<1>3. CASE ReadHandshake
  <2>1. SameSession /\ UNCHANGED << early, answered >> /\ due' \in Frames
    BY <1>2, <1>3 DEF ReadHandshake, SameSession, session, history
  <2>2. WireType' /\ ClientType'
    BY <1>0, <1>1, <1>2, <2>1 DEF WireType, ClientType
  <2> QED BY <1>1, <2>1, <2>2, SameTypes, TypePartsNext
<1>4. CASE ReadAnswer
  <2>1. SameSession /\ UNCHANGED << early, due >> /\ answered' = answered \cup {Head(line).p} /\ Head(line).p \in mine
    BY <1>4 DEF ReadAnswer, SameSession, session, history
  <2>2. WireType' /\ ClientType'
    BY <1>0, <1>1, <1>2, <2>1 DEF WireType, ClientType
  <2> QED BY <1>1, <2>1, <2>2, SameTypes, TypePartsNext
<1>5. CASE ReadQuiet
  <2>1. SameSession /\ UNCHANGED << answered, due >> /\ early' \subseteq Frames
    BY <1>0, <1>2, <1>5 DEF ReadQuiet, SameSession, session, history, WireType
  <2>2. WireType' /\ ClientType'
    BY <1>0, <1>1, <1>2, <2>1 DEF WireType, ClientType
  <2> QED BY <1>1, <2>1, <2>2, SameTypes, TypePartsNext
<1>6. ~ReadHandshake => UNCHANGED due /\ (ReadNames \/ ReadOpens \/ ReadEnds => UNCHANGED << early, answered >>)
  BY DEF ReadHandshake, ReadAnswer, ReadQuiet, ReadNames, ReadOpens, ReadEnds
<1>7. ReadNames \/ ReadOpens \/ ReadEnds => WireType' /\ ClientType'
  <2> SUFFICES ASSUME ReadNames \/ ReadOpens \/ ReadEnds PROVE WireType' /\ ClientType'
    OBVIOUS
  <2>1. UNCHANGED << due, early, answered >>
    BY DEF ReadNames, ReadOpens, ReadEnds
  <2> QED BY <1>0, <1>1, <1>2, <2>1 DEF WireType, ClientType
<1>8. CASE ReadNames
  <2>1. Head(line).p \in Prompts
    BY <1>8, Moved, ConstantTypes DEF ReadNames, LineOrder, Pops, IsPrompt, Frames, Handshakes, None
  <2>2. active' \in ActiveType
    BY <1>0, <1>8, <2>1, TurnType DEF ReadNames, SessionType
  <2>3. SessionType'
    BY <1>0, <1>8, <2>2 DEF ReadNames, SessionType, history
  <2> QED BY <1>1, <1>7, <1>8, <2>3, SameTypes, TypePartsNext
<1>9. CASE ReadOpens
  <2>1. SessionType'
    BY <1>0, <1>9, ReadOpensType DEF SessionType
  <2> QED BY <1>1, <1>7, <1>9, <2>1, SameTypes, TypePartsNext
<1>10. CASE ReadEnds
  <2>1. IsSignal(Head(line)) /\ Head(line).p \in Prompts
    BY <1>10, Moved, ConstantTypes DEF ReadEnds, LineOrder, Pops, IsPrompt, IsSignal, Frames, Handshakes, None
  <2>2. active # NoTurn /\ Finalize(Head(line).p, {Head(line).p}) /\ UNCHANGED << turns, of >>
    BY <1>10 DEF ReadEnds, EndsActive
  <2>3. SessionType'
    BY <1>0, <2>1, <2>2, FinalizeType, ConstantTypes DEF SessionType
  <2> QED BY <1>1, <1>7, <1>10, <2>3, SameTypes, TypePartsNext
<1> QED BY <1>3, <1>4, <1>5, <1>8, <1>9, <1>10

\* onPromptResponse() and onPromptError(), taken apart.
SettleEnds(p) ==
    /\ p \in answered /\ sending.p # p /\ answered' = answered \ {p}
    /\ active.user /\ of[active.turn] = p /\ Finalize(p, {p} \ failed)
    /\ UNCHANGED << vibe, process, line, shake, sending, mine, bounds, of >>
SettleQuiet(p) ==
    /\ p \in answered /\ sending.p # p /\ answered' = answered \ {p}
    /\ ~ (active.user /\ of[active.turn] = p)
    /\ UNCHANGED << vibe, process, line, shake, sending, mine, bounds, session, history >>

LEMMA SettleCases ==
  ASSUME NEW p, Settle(p)
  PROVE  SettleEnds(p) \/ SettleQuiet(p)
<1>1. CASE active.user /\ of[active.turn] = p
  BY <1>1 DEF Settle, SettleEnds
<1>2. CASE ~ (active.user /\ of[active.turn] = p)
  BY <1>2 DEF Settle, SettleQuiet, history
<1> QED BY <1>1, <1>2

LEMMA TurnTypeStep ==
  ASSUME Inv, (\E p \in Prompts : Settle(p)) \/ SendBegins \/ SendFails \/ SendWrites \/ SendConfirmed \/ Interrupt \/ GraceExpires
  PROVE  TypeOK'
<1> USE SessionTyped DEF Inv
<1>0. TypeOK /\ SessionType /\ ProcessType /\ WireType /\ ClientType
  BY TypeParts
<1>1. CASE \E p \in Prompts : Settle(p)
  <2>1. PICK p \in Prompts : Settle(p)
    BY <1>1
  <2>2. SameProcess /\ SameWire /\ UNCHANGED << sending, mine, last, faults, turns >> /\ answered' = answered \ {p}
    BY <2>1 DEF Settle, SameProcess, SameWire, shake, bounds
  <2>3. ClientType'
    BY <1>0, <2>2 DEF ClientType
  <2>4. CASE SettleEnds(p)
    <3>1. active # NoTurn /\ Finalize(p, {p} \ failed) /\ UNCHANGED of
      BY <2>4, ConstantTypes DEF SettleEnds
    <3>2. SessionType'
      BY <1>0, <2>2, <3>1, FinalizeType, ConstantTypes DEF SessionType
    <3> QED BY <2>2, <2>3, <3>2, SameTypes, TypePartsNext
  <2>5. CASE SettleQuiet(p)
    <3>1. SameSession
      BY <2>2, <2>5 DEF SettleQuiet, SameSession, session, history
    <3> QED BY <2>2, <2>3, <3>1, SameTypes, TypePartsNext
  <2> QED BY <2>1, <2>4, <2>5, SettleCases
<1>2. CASE SendBegins \/ SendFails
  <2>1. SameProcess /\ SameWire /\ SameSession /\ UNCHANGED << mine, answered, last, faults >>
    BY <1>2 DEF SendBegins, SendFails, SessionFrame, shake, SameProcess, SameWire, SameSession, session, history
  <2>2. sending' \in [ s : { "no", "preparing", "written" }, p : Prompts \cup {None}, base : -1 .. MaxPrompts ]
    BY <1>2, BoundAssumption DEF SendBegins, SendFails, NotSending
  <2>3. ClientType'
    BY <1>0, <2>1, <2>2 DEF ClientType
  <2> QED BY <2>1, <2>3, SameTypes, TypePartsNext
<1>3. CASE SendWrites
  <2>1. SameWire /\ SameSession /\ UNCHANGED << vibe, alive, holds, run, own, done, failed, silent, answered, faults >>
    BY <1>3 DEF SendWrites, SessionFrame, shake, SameWire, SameSession, session, history
  <2>2. last + 1 \in Prompts /\ last' = last + 1 /\ mine' = mine \cup {last + 1} /\ queue' = Append(queue, last + 1)
    BY <1>0, <1>3, BoundAssumption DEF SendWrites, ClientType, Prompts
  <2>3. PICK base \in { -1, Cardinality(done) } : sending' = [ s |-> "written", p |-> last + 1, base |-> base ]
    BY <1>3 DEF SendWrites
  <2>4. base \in -1 .. MaxPrompts
    BY <1>0, <2>3, DoneCount, BoundAssumption DEF ProcessType
  <2>5. sending' \in [ s : { "no", "preparing", "written" }, p : Prompts \cup {None}, base : -1 .. MaxPrompts ]
    BY <2>2, <2>3, <2>4
  <2>6. ClientType' /\ ProcessType'
    BY <1>0, <2>1, <2>2, <2>5, Joins DEF ClientType, ProcessType
  <2> QED BY <2>1, <2>6, SameTypes, TypePartsNext
<1>4. CASE SendConfirmed
  <2>1. SameProcess /\ SameWire /\ UNCHANGED << bound, finished, mine, answered, last, told, late, cause, faults >>
    BY <1>4 DEF SendConfirmed, SessionFrame, shake, SameWire, SameProcess
  <2>2. /\ turns < MaxTurns /\ turns' = turns + 1 /\ active' = [ [ NoTurn EXCEPT !.user = TRUE ] EXCEPT !.turn = turns + 1 ]
        /\ of' = [ of EXCEPT ![turns + 1] = sending.p ] /\ sending.p \in Prompts \cup {None}
    BY <1>0, <1>4 DEF SendConfirmed, BeginTurn, ClientType
  <2>3. turns + 1 \in Turns /\ of' \in OfType /\ turns' \in Nat
    BY <2>2, BeginsType
  <2>4. [ NoTurn EXCEPT !.user = TRUE ] \in ActiveType
    BY TurnType, ConstantTypes
  <2>5. active' \in ActiveType
    BY <2>2, <2>3, <2>4, TurnType
  <2>6. record' \in RecordType
    BY <1>0, <1>4, <2>3 DEF SendConfirmed, RecordType, ClientType
  <2>7. sending' = NotSending
    BY <1>4 DEF SendConfirmed
  <2>8. ClientType' /\ SessionType'
    BY <1>0, <2>1, <2>3, <2>5, <2>6, <2>7, BoundAssumption DEF ClientType, SessionType, NotSending
  <2> QED BY <2>1, <2>8, SameTypes, TypePartsNext
<1>5. CASE Interrupt
  <2>1. SameProcess /\ SameWire /\ SameClient /\ UNCHANGED << bound, finished, record, turns, of, told, late, cause >>
    BY <1>5 DEF Interrupt, SessionFrame, shake, client, history, SameWire, SameProcess, SameClient
  <2>2. active' \in ActiveType
    BY <1>0, <1>5, TurnType DEF Interrupt, SessionType
  <2>3. SessionType'
    BY <1>0, <2>1, <2>2 DEF SessionType
  <2> QED BY <2>1, <2>3, SameTypes, TypePartsNext
<1>6. CASE GraceExpires
  <2>1. SameProcess /\ SameWire /\ SameClient /\ UNCHANGED << turns, of >>
    BY <1>6 DEF GraceExpires, SessionFrame, shake, client, SameWire, SameProcess, SameClient
  <2>2. active # NoTurn /\ Finalize(None, {})
    BY <1>6, ConstantTypes DEF GraceExpires
  <2>3. SessionType'
    BY <1>0, <2>1, <2>2, FinalizeType, ConstantTypes DEF SessionType
  <2> QED BY <2>1, <2>3, SameTypes, TypePartsNext
<1> QED BY <1>1, <1>2, <1>3, <1>4, <1>5, <1>6

LEMMA OpensHeld ==
  ASSUME TypeOK, OpenHeld
  PROVE  \/ /\ active' = NoTurn /\ UNCHANGED << turns, of >>
         \/ \E f \in early :
              /\ f.t = "content" /\ f.p \in Prompts \cup {None} /\ turns < MaxTurns /\ turns' = turns + 1 /\ turns + 1 \in Turns
              /\ active' = [ NoTurn EXCEPT !.turn = turns + 1, !.stray = TRUE ]
              /\ of' = [ of EXCEPT ![turns + 1] = f.p ] /\ of' \in OfType
<1>1. CASE HeldContent
  <2>1. PICK f \in early : f.t = "content" /\ BeginTurn(f.p, [ NoTurn EXCEPT !.stray = TRUE ])
    BY <1>1 DEF OpenHeld
  <2>2. f.p \in Prompts \cup {None}
    BY <2>1 DEF TypeOK, Frames
  <2>3. turns < MaxTurns /\ turns' = turns + 1 /\ of' = [ of EXCEPT ![turns + 1] = f.p ]
    BY <2>1 DEF BeginTurn
  <2>4. active' = [ NoTurn EXCEPT !.turn = turns + 1, !.stray = TRUE ]
    BY <2>1 DEF BeginTurn, NoTurn
  <2> QED BY <2>1, <2>2, <2>3, <2>4, BeginsType
<1>2. CASE ~HeldContent
  BY <1>2 DEF OpenHeld
<1> QED BY <1>1, <1>2

LEMMA HandshakeTypeStep ==
  ASSUME Inv, Connect \/ Greeted \/ Away \/ Loaded \/ Listed \/ Reattached
  PROVE  TypeOK'
<1> USE SessionTyped DEF Inv
<1>0. TypeOK /\ SessionType /\ ProcessType /\ WireType /\ ClientType
  BY TypeParts
<1>1. CASE Connect
  <2>1. SameClient /\ UNCHANGED << vibe, holds, queue, run, own, done, failed, silent, line, due, early, active, bound, finished, turns, of, told, late, cause >>
    BY <1>1 DEF Connect, SameClient, client, bounds, history
  <2>2. alive' \in BOOLEAN /\ stage' = "greeting" /\ asking' = "hello" /\ fresh' \in BOOLEAN /\ record' \in RecordType
    BY <1>0, <1>1, ConstantTypes DEF Connect, ProcessType, SessionType
  <2>3. ProcessType' /\ WireType' /\ SessionType'
    BY <1>0, <2>1, <2>2 DEF ProcessType, WireType, SessionType
  <2> QED BY <2>1, <2>3, SameTypes, TypePartsNext
<1>2. CASE Greeted \/ Away
  <2>1. SameSession /\ SameProcess /\ SameClient /\ UNCHANGED << line, fresh, early >>
    BY <1>2 DEF Greeted, Away, HandshakeFrame, SameClient, SameProcess, SameSession, client, session, history
  <2>2. stage' \in { "loading", "listing" } /\ asking' \in { "loaded", "roster" } /\ due' = NoFrame
    BY <1>2 DEF Greeted, Away
  <2>3. WireType'
    BY <1>0, <2>1, <2>2, ConstantTypes DEF WireType
  <2> QED BY <2>1, <2>3, SameTypes, TypePartsNext
<1>3. CASE Loaded
  <2>1. SameProcess /\ SameClient /\ UNCHANGED << line, fresh, asking, active, bound, finished, turns, of, told, late, cause >>
    BY <1>3 DEF Loaded, HandshakeFrame, SameClient, SameProcess, client, history
  <2>2. stage' = "ready" /\ early' = {} /\ due' = NoFrame /\ record' = NoRecord
    BY <1>3 DEF Loaded
  <2>3. WireType' /\ SessionType'
    BY <1>0, <2>1, <2>2, ConstantTypes DEF WireType, SessionType
  <2> QED BY <2>1, <2>3, SameTypes, TypePartsNext
<1>4. CASE Listed
  <2>1. SameProcess /\ SameClient /\ UNCHANGED << line, fresh, asking, early, bound, finished, told, late, cause >>
        /\ stage' = "ready" /\ due' = NoFrame
    BY <1>4 DEF Listed, HandshakeFrame, SameClient, SameProcess, client
  <2>2. WireType'
    BY <1>0, <2>1, ConstantTypes DEF WireType
  <2>3. due.p \in Prompts \cup {None} /\ (~Awaited(due.p, "completed")) \in BOOLEAN
    BY <1>0 DEF WireType, Frames, Awaited
  <2>4. CASE ListedTakes \/ ListedMoves
    <3>1. record.turn \in Turns /\ UNCHANGED turns
      BY <1>0, <2>4 DEF ListedTakes, ListedMoves, SessionType, RecordType
    <3>2. active' \in ActiveType
      <4> DEFINE b == ~Awaited(due.p, "completed")
      <4>1. active' = [ NoTurn EXCEPT !.turn = record.turn, !.stray = b ]
        BY <2>4 DEF ListedTakes, ListedMoves
      <4> HIDE DEF b
      <4> QED BY <2>3, <3>1, <4>1, TurnType, ConstantTypes DEF b
    <3>3. record' \in RecordType
      BY <2>4, <3>1, ConstantTypes DEF ListedTakes, ListedMoves, RecordType
    <3>4. of' \in OfType
      BY <1>0, <2>3, <2>4 DEF ListedTakes, ListedMoves, SessionType, OfType
    <3>5. SessionType'
      BY <1>0, <2>1, <3>1, <3>2, <3>3, <3>4 DEF SessionType
    <3> QED BY <2>1, <2>2, <3>5, SameTypes, TypePartsNext
  <2>5. CASE ListedOpens
    <3>1. turns + 1 \in Turns /\ turns' \in Nat /\ of' \in OfType
      BY <2>3, <2>5, BeginsType DEF ListedOpens
    <3>2. active' \in ActiveType
      BY <2>3, <2>5, <3>1, TurnType, ConstantTypes, Zenon DEF ListedOpens
    <3>3. record' \in RecordType
      BY <2>5, <3>1, ConstantTypes DEF ListedOpens, RecordType
    <3>4. SessionType'
      BY <1>0, <2>1, <3>1, <3>2, <3>3 DEF SessionType
    <3> QED BY <2>1, <2>2, <3>4, SameTypes, TypePartsNext
  <2>6. CASE ListedKeeps \/ ListedDrops
    <3>1. record' \in RecordType /\ UNCHANGED << active, turns, of >>
      BY <1>0, <2>6, ConstantTypes DEF ListedKeeps, ListedDrops, SessionType
    <3>2. SessionType'
      BY <1>0, <2>1, <3>1 DEF SessionType
    <3> QED BY <2>1, <2>2, <3>2, SameTypes, TypePartsNext
  <2> QED BY <1>4, <2>4, <2>5, <2>6, ListedCases
<1>5. CASE Reattached
  <2>1. SameProcess /\ SameClient /\ UNCHANGED << line, fresh, asking, finished, late >>
        /\ stage' = "ready" /\ due' = NoFrame /\ early' = {}
    BY <1>5 DEF Reattached, HandshakeFrame, SameClient, SameProcess, client
  <2>2. WireType'
    BY <1>0, <2>1, ConstantTypes DEF WireType
  <2>3. record # NoRecord => record.turn \in Turns
    BY <1>0 DEF Told, SessionType, RecordType
  <2>4. record # NoRecord /\ ReportsRecord => told' \subseteq Turns /\ cause' \in CauseType
    BY <1>0, <2>3 DEF ReportsRecord, SessionType, CauseType, RecordType
  <2>5. CASE ReattachedSettled
    <3>1. told' \subseteq Turns /\ cause' \in CauseType
      BY <1>0, <2>4, <2>5 DEF ReattachedSettled, SessionType
    <3>2. active' \in ActiveType /\ of' \in OfType /\ turns' \in Nat
      <4>1. OpenHeld
        BY <2>5 DEF ReattachedSettled
      <4>2. \A t \in Turns : [ NoTurn EXCEPT !.turn = t, !.stray = TRUE ] \in ActiveType
        BY TurnType, ConstantTypes
      <4>3. CASE active' = NoTurn /\ UNCHANGED << turns, of >>
        BY <1>0, <4>3, ConstantTypes DEF SessionType
      <4>4. CASE \E f \in early : /\ turns' = turns + 1 /\ turns + 1 \in Turns /\ of' \in OfType
                                 /\ active' = [ NoTurn EXCEPT !.turn = turns + 1, !.stray = TRUE ]
        <5>1. /\ turns' = turns + 1 /\ turns + 1 \in Turns /\ of' \in OfType
              /\ active' = [ NoTurn EXCEPT !.turn = turns + 1, !.stray = TRUE ]
          BY <4>4
        <5>2. turns' \in Nat
          BY <1>0, <5>1 DEF SessionType
        <5> QED BY <4>2, <5>1, <5>2
      <4> QED BY <4>1, <4>3, <4>4, OpensHeld
    <3>3. record' \in RecordType /\ bound' = bound
      BY <2>5, ConstantTypes DEF ReattachedSettled
    <3>4. SessionType'
      BY <1>0, <2>1, <3>1, <3>2, <3>3 DEF SessionType
    <3> QED BY <2>1, <2>2, <3>4, SameTypes, TypePartsNext
  <2>6. CASE ReattachedHeard
    <3>1. record' \in RecordType /\ UNCHANGED << active, bound, turns, of >>
      BY <2>6, ConstantTypes DEF ReattachedHeard
    <3>2. SessionType'
      BY <1>0, <2>1, <2>4, <2>6, <3>1 DEF SessionType, ReattachedHeard
    <3> QED BY <2>1, <2>2, <3>2, SameTypes, TypePartsNext
  <2>7. CASE ReattachedAdopts
    <3>1. UNCHANGED << turns, of, record, told, cause >> /\ bound' \in Prompts \cup {None}
      BY <1>0, <2>7 DEF ReattachedAdopts, SessionType, RecordType
    <3>2. (~Awaited(record.prompt, "answer")) \in BOOLEAN
      BY DEF Awaited
    <3>3. active' \in ActiveType
      BY <2>3, <2>7, <3>2, TurnType, ConstantTypes, Zenon DEF ReattachedAdopts
    <3>4. SessionType'
      BY <1>0, <2>1, <3>1, <3>3 DEF SessionType
    <3> QED BY <2>1, <2>2, <3>4, SameTypes, TypePartsNext
  <2> QED BY <1>5, <2>5, <2>6, <2>7, ReattachedCases
<1> QED BY <1>1, <1>2, <1>3, <1>4, <1>5

\* The process exits while nobody is connected, or under a connection.
ExitsUnheard ==
    /\ alive /\ stage = "closed" /\ alive' = FALSE /\ holds' = FALSE /\ run' = None /\ queue' = << >>
    /\ UNCHANGED << stage, asking, due, early, line, failed, silent, client, session, told, late, cause >>
    /\ UNCHANGED << vibe, own, done, fresh, last, turns, of >>
ExitsHeard ==
    /\ alive /\ stage # "closed" /\ alive' = FALSE /\ holds' = FALSE /\ run' = None /\ queue' = << >>
    /\ Close
    /\ active' = NoTurn /\ bound' = None /\ finished' = {} /\ record' = NoRecord
    /\ told' = IF active # NoTurn THEN told \cup {active.turn} ELSE told
    /\ UNCHANGED << late, cause, vibe, own, done, fresh, last, turns, of >>

LEMMA ExitsCases == Exits => ExitsUnheard \/ ExitsHeard
<1> SUFFICES ASSUME Exits PROVE ExitsUnheard \/ ExitsHeard
  OBVIOUS
<1>1. CASE stage = "closed"
  BY <1>1 DEF Exits, ExitsUnheard
<1>2. CASE stage # "closed"
  BY <1>2 DEF Exits, ExitsHeard
<1> QED BY <1>1, <1>2

\* The connection is lost: with a turn, or with none.
LostTurn ==
    /\ Disconnected /\ active # NoTurn
    /\ active' = NoTurn /\ bound' = None /\ finished' = {} /\ record' = NoRecord
    /\ told' = told \cup {active.turn} /\ cause' = [ turn |-> active.turn, by |-> None ]
    /\ late' = Forgotten([ late EXCEPT ![of[active.turn]] = "known" ])
LostIdle ==
    /\ Disconnected /\ active = NoTurn
    /\ active' = NoTurn /\ bound' = None /\ finished' = {} /\ late' = Forgotten(late)
    /\ UNCHANGED << told, cause, record >>

LEMMA DisconnectedCases == Disconnected => LostTurn \/ LostIdle
<1> SUFFICES ASSUME Disconnected PROVE LostTurn \/ LostIdle
  OBVIOUS
<1>1. HandleExit
  BY DEF Disconnected
<1>2. CASE active # NoTurn
  BY <1>1, <1>2 DEF HandleExit, LostTurn
<1>3. CASE active = NoTurn
  BY <1>1, <1>3 DEF HandleExit, LostIdle
<1> QED BY <1>2, <1>3

LEMMA EndTypeStep ==
  ASSUME Inv, Disconnected \/ Exits \/ Restart
  PROVE  TypeOK'
<1> USE SessionTyped DEF Inv
<1>0. TypeOK /\ SessionType /\ ProcessType /\ WireType /\ ClientType
  BY TypeParts
<1>1. active # NoTurn => active.turn \in Turns
  BY <1>0 DEF Told, SessionType, ActiveType
<1>2. ASSUME Close, UNCHANGED << fresh, last >>, faults' \in Nat
      PROVE  WireType' /\ ClientType'
  <2>1. << >> \in Seq(Frames)
    OBVIOUS
  <2>2. WireType'
    BY <1>0, <1>2, <2>1, ConstantTypes DEF WireType, Close
  <2>3. ClientType'
    BY <1>0, <1>2, BoundAssumption DEF ClientType, Close, NotSending
  <2> QED BY <2>2, <2>3
<1>3. ASSUME faults' = faults + 1
      PROVE  faults' \in Nat
  BY <1>0, <1>3 DEF ClientType
<1>4. \A q : [ late EXCEPT ![q] = "known" ] \in LateType
  BY <1>0 DEF SessionType, LateType
<1>5. Forgotten(late) \in LateType /\ \A q : Forgotten([ late EXCEPT ![q] = "known" ]) \in LateType
  BY <1>0, <1>4, ForgottenType DEF SessionType
<1>6. << >> \in Seq(Prompts)
  OBVIOUS
<1>7. CASE Disconnected
  <2>1. /\ Close /\ UNCHANGED << vibe, alive, queue, run, own, done, fresh, last, turns, of >>
        /\ faults' = faults + 1 /\ holds' \in { holds, holds \/ asking = "loaded" }
    BY <1>7 DEF Disconnected
  <2>2. ProcessType'
    BY <1>0, <2>1 DEF ProcessType, Close
  <2>3. CASE LostTurn
    <3>1. cause' \in CauseType
      BY <1>1, <2>3 DEF LostTurn, CauseType
    <3>2. SessionType'
      BY <1>0, <1>1, <1>5, <2>1, <2>3, <3>1, ConstantTypes DEF LostTurn, SessionType
    <3> QED BY <1>2, <1>3, <2>1, <2>2, <3>2, TypePartsNext
  <2>4. CASE LostIdle
    <3>1. SessionType'
      BY <1>0, <1>5, <2>1, <2>4, ConstantTypes DEF LostIdle, SessionType
    <3> QED BY <1>2, <1>3, <2>1, <2>2, <3>1, TypePartsNext
  <2> QED BY <1>7, <2>3, <2>4, DisconnectedCases
<1>8. CASE Exits
  <2>1. faults' = faults + 1
    BY <1>8 DEF Exits
  <2>2. CASE ExitsUnheard
    <3>1. ProcessType'
      BY <1>0, <1>6, <2>2 DEF ExitsUnheard, ProcessType
    <3>2. SameWire /\ SameSession
      BY <2>2 DEF ExitsUnheard, SameWire, SameSession, session
    <3>3. ClientType'
      BY <1>0, <1>3, <2>1, <2>2 DEF ExitsUnheard, ClientType, client
    <3> QED BY <3>1, <3>2, <3>3, SameTypes, TypePartsNext
  <2>3. CASE ExitsHeard
    <3>1. ProcessType'
      BY <1>0, <1>6, <2>3 DEF ExitsHeard, ProcessType, Close
    <3>2. SessionType'
      BY <1>0, <1>1, <2>3, ConstantTypes DEF ExitsHeard, SessionType
    <3>3. Close /\ UNCHANGED << fresh, last >>
      BY <2>3 DEF ExitsHeard
    <3> QED BY <1>2, <1>3, <2>1, <3>1, <3>2, <3>3, TypePartsNext
  <2> QED BY <1>8, <2>2, <2>3, ExitsCases
<1>9. CASE Restart
  <2>1. /\ Close /\ UNCHANGED << vibe, alive, queue, run, own, done, fresh, record, last, turns, of, told, cause >>
        /\ faults' = faults + 1 /\ holds' \in { holds, holds \/ asking = "loaded" }
        /\ active' = NoTurn /\ bound' = None /\ finished' = {} /\ late' = Forgotten(late)
    BY <1>9 DEF Restart
  <2>2. ProcessType'
    BY <1>0, <2>1 DEF ProcessType, Close
  <2>3. SessionType'
    BY <1>0, <1>5, <2>1, ConstantTypes DEF SessionType
  <2> QED BY <1>2, <1>3, <2>1, <2>2, <2>3, TypePartsNext
<1> QED BY <1>7, <1>8, <1>9

LEMMA TypeStep ==
  ASSUME Inv, [Next]_vars
  PROVE  TypeOK'
<1>1. CASE Next
  BY <1>1, ProcessTypeStep, ReadTypeStep, TurnTypeStep, HandshakeTypeStep, EndTypeStep DEF Next, Backend
<1>2. CASE UNCHANGED vars
  <2>1. SameProcess /\ SameWire /\ SameClient /\ SameSession
    BY <1>2 DEF vars, SameProcess, SameWire, SameClient, SameSession, process, session, client, shake, bounds, history
  <2>2. TypeOK
    BY DEF Inv
  <2> QED BY <2>1, <2>2, SameTypes, TypePartsNext
<1> QED BY <1>1, <1>2

-----------------------------------------------------------------------------
(***************************************************************************)
(* Turns that were told.                                                   *)
(***************************************************************************)

\* The end of the turn in flight, by the end of a prompt or by nobody's.
Finalizes(by, names) == active # NoTurn /\ Finalize(by, names) /\ UNCHANGED << turns, of >>

\* What a step does to the session.
LEMMA SessionCases ==
  ASSUME Inv, [Next]_vars
  PROVE  \/ SameSession
         \/ \E by \in Prompts \cup {None} : \E names \in SUBSET Prompts : Finalizes(by, names)
         \/ ReadNames \/ ReadOpens \/ SendConfirmed \/ Interrupt \/ Connect \/ Loaded
         \/ ListedTakes \/ ListedMoves \/ ListedOpens \/ ListedKeeps \/ ListedDrops
         \/ ReattachedSettled \/ ReattachedHeard \/ ReattachedAdopts
         \/ LostTurn \/ LostIdle \/ ExitsHeard \/ Restart
<1> USE DEF Inv
<1>1. CASE Process
  <2>1. UNCHANGED ProcessFrame
    BY <1>1 DEF Process, AnswersHandshake, Begins, OwnWake, PrintsContent, Ends, Refuses
  <2> QED BY <2>1 DEF ProcessFrame, session, history, SameSession
<1>2. CASE Read
  <2>1. CASE ReadHandshake \/ ReadAnswer \/ ReadQuiet
    BY <2>1 DEF ReadHandshake, ReadAnswer, ReadQuiet, session, history, SameSession
  <2>2. CASE ReadEnds
    <3>1. Head(line).p \in Prompts
      BY <2>2, Moved, ConstantTypes DEF ReadEnds, LineOrder, Pops, IsPrompt, IsSignal, Frames, Handshakes, None
    <3>2. Finalizes(Head(line).p, {Head(line).p})
      BY <2>2 DEF ReadEnds, Finalizes, EndsActive
    <3> QED BY <3>1, <3>2
  <2> QED BY <1>2, <2>1, <2>2, ReadCases
<1>3. CASE \E p \in Prompts : Settle(p)
  <2>1. PICK p \in Prompts : Settle(p)
    BY <1>3
  <2>2. CASE SettleEnds(p)
    <3>1. Finalizes(p, {p} \ failed)
      BY <2>2, ConstantTypes DEF SettleEnds, Finalizes, bounds
    <3> QED BY <3>1
  <2>3. CASE SettleQuiet(p)
    BY <2>3 DEF SettleQuiet, session, history, bounds, SameSession
  <2> QED BY <2>1, <2>2, <2>3, SettleCases
<1>4. CASE SendBegins \/ SendFails \/ SendWrites
  BY <1>4 DEF SendBegins, SendFails, SendWrites, session, history, SameSession
<1>5. CASE GraceExpires
  <2>1. Finalizes(None, {})
    BY <1>5, ConstantTypes DEF GraceExpires, Finalizes
  <2> QED BY <2>1
<1>6. CASE Greeted \/ Away
  BY <1>6 DEF Greeted, Away, session, history, SameSession
<1>7. CASE Listed
  BY <1>7, ListedCases
<1>8. CASE Reattached
  BY <1>8, ReattachedCases
<1>9. CASE Disconnected
  BY <1>9, DisconnectedCases
<1>10. CASE Exits
  <2>1. ExitsUnheard => SameSession
    BY DEF ExitsUnheard, session, SameSession
  <2> QED BY <1>10, <2>1, ExitsCases
<1>11. CASE UNCHANGED vars
  BY <1>11 DEF vars, session, bounds, history, SameSession
<1> QED BY <1>1, <1>2, <1>3, <1>4, <1>5, <1>6, <1>7, <1>8, <1>9, <1>10, <1>11 DEF Next, Backend

LEMMA InitTold == Init => Told
BY ConstantTypes DEF Init, Told, None

LEMMA ToldStep ==
  ASSUME Inv, [Next]_vars
  PROVE  Told'
<1> USE SessionTyped DEF Inv
<1>0. SessionType /\ turns \in Nat /\ active.turn \in Turns \cup {None} /\ record.turn \in Turns \cup {None}
      /\ told \subseteq Nat /\ None \notin Turns /\ None \notin told /\ cause.turn \in Nat /\ record.turn \in Nat /\ active.turn \in Nat
  BY ConstantTypes DEF SessionType, ActiveType, RecordType, CauseType, Turns, None
<1>1. CASE SameSession
  BY <1>1 DEF SameSession, Told
<1>2. ASSUME NEW by \in Prompts \cup {None}, NEW names \in SUBSET Prompts, Finalizes(by, names)
      PROVE  Told'
  <2>1. /\ active' = NoTurn /\ record' = NoRecord /\ told' = told \cup {active.turn} /\ turns' = turns
        /\ active.turn \in Turns
    BY <1>2, FinalizeType, ConstantTypes DEF Finalizes
  <2>2. cause'.turn = active.turn
    BY <1>2 DEF Finalizes, Finalize
  <2> QED BY <1>0, <2>1, <2>2, ConstantTypes DEF Told, None
<1>3. CASE ReadNames
  <2>1. active'.turn = active.turn /\ active.turn # None /\ UNCHANGED << record, turns, told, cause >>
    BY <1>0, <1>3, ConstantTypes DEF ReadNames, SessionType, ActiveType, Told, history
  <2> QED BY <1>0, <2>1 DEF Told
<1>4. CASE ReadOpens
  <2>1. /\ active'.turn = turns + 1 /\ turns' = turns + 1 /\ UNCHANGED << told, cause >>
        /\ record' = record \/ record' = [ NoRecord EXCEPT !.turn = turns + 1 ]
    BY <1>4, ReadOpensType DEF NoTurn
  <2>2. record' = record \/ (record'.turn = turns + 1 /\ turns + 1 # None)
    BY <1>0, <2>1 DEF NoRecord, None
  <2> QED BY <1>0, <2>1, <2>2, ConstantTypes DEF Told, None
<1>5. CASE SendConfirmed
  <2>1. active'.turn = turns + 1 /\ record'.turn = turns + 1 /\ turns' = turns + 1 /\ UNCHANGED << told, cause >>
    BY <1>5 DEF SendConfirmed, BeginTurn, NoTurn
  <2> QED BY <1>0, <2>1 DEF Told, None
<1>6. CASE Interrupt
  <2>1. active'.turn = active.turn /\ active.turn # None /\ UNCHANGED << record, turns, told, cause >>
    BY <1>0, <1>6, ConstantTypes DEF Interrupt, SessionType, ActiveType, Told, history
  <2> QED BY <1>0, <2>1 DEF Told
<1>7. CASE Connect \/ Loaded \/ ListedDrops \/ ListedKeeps \/ Restart \/ LostIdle
  <2>1. /\ active' \in { active, NoTurn } /\ record' \in { record, NoRecord } /\ UNCHANGED << turns, told, cause >>
    BY <1>7 DEF Connect, Loaded, ListedDrops, ListedKeeps, Lists, Restart, LostIdle, Disconnected, HandshakeFrame, bounds, history
  <2> QED BY <1>0, <2>1, ConstantTypes DEF Told, None
<1>8. CASE ListedTakes \/ ListedMoves \/ ReattachedAdopts
  <2>1. /\ active'.turn = record.turn /\ record.turn # None /\ record'.turn = record.turn /\ UNCHANGED << turns, told, cause >>
    <3>1. record.turn # None
      BY <1>8 DEF ListedTakes, ListedMoves, ReattachedAdopts, Told
    <3>2. UNCHANGED << turns, told, cause >> /\ active'.turn = record.turn
      BY <1>8 DEF ListedTakes, ListedMoves, ReattachedAdopts, Lists, NoTurn
    <3>3. record'.turn = record.turn
      BY <1>8 DEF ListedTakes, ListedMoves, ReattachedAdopts, NoRecord
    <3> QED BY <3>1, <3>2, <3>3
  <2> QED BY <1>0, <2>1 DEF Told
<1>9. CASE ListedOpens
  <2>1. active'.turn = turns + 1 /\ record'.turn = turns + 1 /\ turns' = turns + 1 /\ UNCHANGED << told, cause >>
    BY <1>9 DEF ListedOpens, Lists, NoTurn, NoRecord
  <2> QED BY <1>0, <2>1 DEF Told, None
<1>10. CASE ReattachedSettled
  <2>1. \/ active' = NoTurn /\ turns' = turns
        \/ active'.turn = turns + 1 /\ turns' = turns + 1
    <3>1. OpenHeld
      BY <1>10 DEF ReattachedSettled
    <3> QED BY <3>1, OpensHeld DEF NoTurn
  <2>2. /\ record' = NoRecord
        /\ UNCHANGED << told, cause >> \/ (record.turn # None /\ told' = told \cup {record.turn} /\ cause'.turn = record.turn)
    BY <1>10 DEF ReattachedSettled, ReportsRecord, Told
  <2>3. \A t \in told' : t <= turns
    BY <1>0, <2>2 DEF Told
  <2>4. active'.turn \notin told' /\ active'.turn <= turns' /\ (active'.turn = None => active' = NoTurn)
    BY <1>0, <2>1, <2>2, <2>3, ConstantTypes DEF None
  <2>5. cause'.turn <= turns' /\ (cause'.by # None => cause'.turn \in told')
    BY <1>0, <2>1, <2>2 DEF Told
  <2>6. turns <= turns' /\ turns' \in Nat
    BY <1>0, <2>1
  <2>7. told' \subseteq Nat /\ None \notin told'
    BY <1>0, <2>2
  <2> QED BY <1>0, <2>2, <2>3, <2>4, <2>5, <2>6, <2>7, ConstantTypes DEF Told, None
<1>11. CASE ReattachedHeard
  <2>1. stage = "greeting" /\ active = NoTurn
    BY <1>11 DEF ReattachedHeard, Reattaches, HandshakeOrder, Expected, TurnState, NoFrame
  <2>2. record.turn # None /\ record' = NoRecord /\ active' = NoTurn /\ turns' = turns
    BY <1>11, <2>1 DEF ReattachedHeard, Told
  <2>3. told' = told \cup {record.turn} /\ cause'.turn = record.turn
    BY <1>11 DEF ReattachedHeard, ReportsRecord
  <2> QED BY <1>0, <2>2, <2>3, ConstantTypes DEF Told, None
<1>12. CASE LostTurn \/ ExitsHeard
  <2>1. /\ active' = NoTurn /\ record' = NoRecord /\ turns' = turns
        /\ \/ told' = told /\ cause' = cause
           \/ active # NoTurn /\ told' = told \cup {active.turn} /\ (cause' = cause \/ cause'.turn = active.turn)
    BY <1>12 DEF LostTurn, Disconnected, ExitsHeard
  <2>2. active # NoTurn => active.turn # None
    BY DEF Told
  <2>3. told \subseteq told' /\ (\A t \in told' : t <= turns) /\ None \notin told'
    BY <1>0, <2>1, <2>2 DEF Told
  <2>4. cause'.turn <= turns /\ (cause'.by # None => cause'.turn \in told')
    BY <1>0, <2>1, <2>3 DEF Told
  <2> QED BY <1>0, <2>1, <2>3, <2>4, ConstantTypes DEF Told, None
<1> QED BY <1>1, <1>2, <1>3, <1>4, <1>5, <1>6, <1>7, <1>8, <1>9, <1>10, <1>11, <1>12, SessionCases

-----------------------------------------------------------------------------
(***************************************************************************)
(* Prompts and turns are counted.                                          *)
(***************************************************************************)

\* Steps that leave the process and its line alone.
Calm ==
    /\ UNCHANGED << vibe, alive, holds, queue, run, own, done, silent, line, mine, last >>
    /\ due' \in { due, NoFrame } /\ early' \subseteq early
    /\ sending' \in { sending, NotSending, [ NotSending EXCEPT !.s = "preparing" ] }
    /\ \/ stage' = stage
       \/ /\ stage # "closed" /\ stage' # "closed"
          /\ stage' = "ready" => vibe \/ due.t \in { "roster", "loaded" }
          /\ stage' = "loading" => vibe \/ due.t = "away"

\* The end of a connection, under a process that lives on, or with it.
Cuts ==
    /\ Close /\ UNCHANGED << vibe, own, done, last >>
    /\ \/ UNCHANGED << alive, queue, run >> /\ (holds' = holds \/ (alive /\ holds' = TRUE))
       \/ alive' = FALSE /\ holds' = FALSE /\ queue' = << >> /\ run' = None

\* A connection waits for the answer that is due.
LEMMA DueStage ==
  ASSUME HandshakeOrder
  PROVE  /\ due.t = "hello" => stage = "greeting"
         /\ due.t \in { "roster", "away" } => stage = "listing"
         /\ due.t = "loaded" => stage = "loading"
         /\ due # NoFrame \/ asking # "none" => stage \in { "greeting", "listing", "loading" }
         /\ asking = "loaded" => stage = "loading"
<1>1. due # NoFrame => due.t \in Expected
  BY DEF HandshakeOrder
<1>2. asking # "none" => asking \in Expected
  BY DEF HandshakeOrder
<1>3. due.t \in { "hello", "roster", "away", "loaded" } => due # NoFrame
  BY ConstantTypes
<1> QED BY <1>1, <1>2, <1>3 DEF Expected

LEMMA WireCases ==
  ASSUME Inv, [Next]_vars
  PROVE  Process \/ Read \/ SendWrites \/ Connect \/ Calm \/ Cuts \/ ExitsUnheard
<1>0. TypeOK /\ ProcessOrder /\ HandshakeOrder
  BY DEF Inv
<1>1. CASE \E p \in Prompts : Settle(p)
  BY <1>1 DEF Settle, Calm, process, shake, bounds
<1>2. CASE SendBegins \/ SendFails \/ SendConfirmed
  BY <1>2 DEF SendBegins, SendFails, SendConfirmed, SessionFrame, Calm, process, shake
<1>3. CASE Interrupt \/ GraceExpires
  BY <1>3 DEF Interrupt, GraceExpires, SessionFrame, Calm, process, shake, client
<1>4. CASE Greeted \/ Away \/ Loaded \/ Listed \/ Reattached
  <2>1. UNCHANGED HandshakeFrame /\ due' = NoFrame /\ early' \subseteq early
    BY <1>4 DEF Greeted, Away, Loaded, Listed, Reattached
  <2>2. /\ stage' # "closed" /\ due.t \in { "hello", "roster", "away", "loaded" }
        /\ stage' = "ready" => vibe \/ due.t \in { "roster", "loaded" }
        /\ stage' = "loading" => vibe \/ due.t = "away"
    BY <1>4 DEF Greeted, Away, Loaded, Listed, Reattached
  <2>3. stage # "closed"
    BY <1>0, <2>2, DueStage
  <2> QED BY <2>1, <2>2, <2>3 DEF HandshakeFrame, Calm, process, client
<1>5. CASE Disconnected \/ Restart
  <2>1. holds' = holds \/ (asking = "loaded" /\ holds' = TRUE)
    BY <1>0, <1>5 DEF Disconnected, Restart, TypeOK
  <2>2. asking = "loaded" => alive
    BY <1>0, DueStage DEF ProcessOrder
  <2> QED BY <1>5, <2>1, <2>2 DEF Disconnected, Restart, Cuts
<1>6. CASE Exits
  <2>1. ExitsHeard => Cuts
    BY DEF ExitsHeard, Cuts
  <2> QED BY <1>6, <2>1, ExitsCases
<1>7. CASE UNCHANGED vars
  BY <1>7 DEF vars, Calm, process, client, shake, bounds
<1> QED BY <1>1, <1>2, <1>3, <1>4, <1>5, <1>6, <1>7 DEF Next, Backend

\* What reading does beyond the line.
LEMMA ReadKeeps ==
  ASSUME TypeOK, LineOrder, Read
  PROVE  /\ Pops /\ due' \in { due, Head(line) } /\ early' \subseteq early \cup {Head(line)}
         /\ Head(line).t \in Handshakes => due' = Head(line)
         /\ Head(line).t \notin Handshakes => due' = due
         /\ answered' = answered \/ (Head(line).t = "answer" /\ Head(line).p \in mine /\ answered' = answered \cup {Head(line).p})
<1>1. "content" \notin Handshakes /\ "completed" \notin Handshakes /\ "answer" \notin Handshakes
  BY DEF Handshakes
<1> QED BY <1>1, ReadCases DEF ReadHandshake, ReadAnswer, ReadQuiet, ReadNames, ReadOpens, ReadEnds, IsSignal, IsPrompt

CountedWork ==
    /\ last <= MaxPrompts /\ run <= last /\ sending.p <= last /\ due.p <= last
    /\ \A i \in DOMAIN queue : queue[i] <= last
    /\ \A p \in own : p <= last
    /\ \A p \in done : p <= last
    /\ \A p \in mine : p <= last
    /\ \A i \in At : line[i].p <= last
    /\ \A f \in early : f.p <= last
CountedTurns ==
    /\ turns <= MaxTurns /\ bound <= last
    /\ \A t \in Turns : of[t] <= last /\ (t > turns => of[t] = None)
    /\ \A p \in Prompts : p > last => late[p] = "no"

LEMMA CountedParts == (Counted <=> CountedWork /\ CountedTurns) /\ (Counted' <=> CountedWork' /\ CountedTurns')
BY DEF Counted, CountedWork, CountedTurns

LEMMA InitCounted == Init => Counted
<1> SUFFICES ASSUME Init PROVE Counted
  OBVIOUS
<1>1. At = {} /\ DOMAIN queue = {}
  BY DEF Init, At
<1> QED BY <1>1, BoundAssumption DEF Init, Counted, NoFrame, NotSending, None, Turns

\* What the variables speak of is numbered.
LEMMA Numbers ==
  ASSUME TypeOK
  PROVE  /\ None = 0 /\ last \in Nat /\ turns \in Nat /\ run \in Nat /\ bound \in Nat /\ sending.p \in Nat /\ due.p \in Nat
         /\ \A p \in Prompts : p \in Nat /\ p > 0 /\ p <= MaxPrompts
         /\ \A f \in early : f.p \in Nat
         /\ \A i \in At : i \in Nat /\ line[i].p \in Nat /\ line[i] \in Frames
         /\ \A i \in DOMAIN queue : i \in Nat /\ queue[i] \in Prompts
         /\ \A t \in Turns : t \in Nat /\ t > 0 /\ of[t] \in Nat
         /\ line \in Seq(Frames) /\ Len(line) \in Nat /\ queue \in Seq(Prompts) /\ run \in Prompts \cup {None}
         /\ queue # << >> => Head(queue) = queue[1] /\ 1 \in DOMAIN queue /\ Head(queue) \in Prompts
<1>1. \A f \in Frames : f.p \in Nat
  BY BoundAssumption DEF Frames, None, Prompts
<1>2. \A i \in At : i \in Nat /\ line[i] \in Frames
  BY DEF TypeOK, At
<1>3. \A i \in DOMAIN queue : i \in Nat /\ queue[i] \in Prompts
  BY DEF TypeOK
<1>4. \A p \in Prompts : p \in Nat /\ p > 0 /\ p <= MaxPrompts
  BY BoundAssumption DEF Prompts
<1>5. \A t \in Turns : t \in Nat /\ t > 0 /\ of[t] \in Nat
  BY BoundAssumption DEF TypeOK, Prompts, Turns, None
<1>6. last \in Nat /\ turns \in Nat /\ run \in Nat /\ bound \in Nat /\ sending.p \in Nat /\ due.p \in Nat /\ early \subseteq Frames
  BY <1>1, BoundAssumption DEF TypeOK, Prompts, None
<1>7. line \in Seq(Frames) /\ queue \in Seq(Prompts) /\ run \in Prompts \cup {None}
  BY DEF TypeOK
<1>8. Len(line) \in Nat /\ (queue # << >> => Head(queue) = queue[1] /\ 1 \in DOMAIN queue /\ Head(queue) \in Prompts)
  BY <1>7
<1> QED BY <1>1, <1>2, <1>3, <1>4, <1>5, <1>6, <1>7, <1>8 DEF None

LEMMA CountedWorkStep ==
  ASSUME Inv, [Next]_vars
  PROVE  CountedWork' /\ last <= last'
<1>0. /\ CountedWork /\ TypeOK /\ LineOrder
      /\ last \in Nat /\ run \in Nat /\ None = 0 /\ queue \in Seq(Prompts)
      /\ done \subseteq Prompts /\ own \subseteq Prompts /\ mine \subseteq Prompts
  BY CountedParts, Numbers DEF Inv, TypeOK
<1>1. CASE Process
  <2>0. UNCHANGED << sending, due, early, mine >>
    BY <1>1 DEF Process, AnswersHandshake, Begins, OwnWake, PrintsContent, Ends, Refuses, ProcessFrame, client
  <2>1. CASE AnswersHandshake
    <3> DEFINE now == IF run # None THEN run ELSE IF queue # << >> THEN Head(queue) ELSE None
               f == IF asking = "roster" THEN Frame(IF holds THEN "roster" ELSE "away", IF holds THEN now ELSE None) ELSE Frame(asking, None)
    <3>1. now \in Prompts \cup {None} /\ now <= last
      <4>1. queue # << >> => Head(queue) = queue[1] /\ 1 \in DOMAIN queue /\ Head(queue) \in Prompts
        BY <1>0
      <4> QED BY <1>0, <4>1 DEF TypeOK, CountedWork
    <3> HIDE DEF now
    <3>2. f \in Frames /\ f.p <= last
      BY <1>0, <3>1, ConstantTypes DEF TypeOK
    <3>3. Prints(<< f >>) /\ UNCHANGED << run, queue, own, done, last >>
      BY <2>1 DEF AnswersHandshake, now
    <3> HIDE DEF f
    <3>4. \A i \in At' : line'[i].p <= last
      BY <1>0, <3>2, <3>3, PrintsOne, PrintsNone DEF CountedWork, At
    <3> QED BY <1>0, <2>0, <3>3, <3>4 DEF CountedWork
  <2>2. CASE Begins
    <3>1. UNCHANGED << own, done, line, last >> /\ run' = Head(queue) /\ queue' = Tail(queue) /\ queue # << >>
      BY <2>2 DEF Begins
    <3>2. run' <= last /\ \A i \in DOMAIN queue' : queue'[i] <= last
      BY <1>0, <3>1, Leaves DEF CountedWork
    <3> QED BY <1>0, <2>0, <3>1, <3>2 DEF CountedWork, At
  <2>3. CASE OwnWake
    <3>1. UNCHANGED << queue, done, line >> /\ last' = last + 1 /\ run' = last + 1 /\ own' = own \cup {last + 1} /\ last < MaxPrompts
      BY <2>3 DEF OwnWake
    <3>2. last' <= MaxPrompts /\ run' <= last' /\ sending'.p <= last' /\ due'.p <= last'
      BY <1>0, <2>0, <3>1, Numbers, BoundAssumption DEF CountedWork
    <3>3. (\A f \in early' : f.p <= last') /\ (\A i \in At' : line'[i].p <= last') /\ (\A i \in DOMAIN queue' : queue'[i] <= last')
      BY <1>0, <2>0, <3>1, Numbers DEF CountedWork, At
    <3>4. (\A p \in own' : p <= last') /\ (\A p \in done' : p <= last') /\ (\A p \in mine' : p <= last')
      BY <1>0, <2>0, <3>1, Numbers DEF CountedWork
    <3> QED BY <1>0, <3>1, <3>2, <3>3, <3>4 DEF CountedWork
  <2>4. CASE PrintsContent
    <3>1. Prints(<< Frame("content", run) >>) /\ UNCHANGED << run, queue, own, done, last >>
      BY <2>4 DEF PrintsContent, process
    <3>2. Frame("content", run) \in Frames /\ Frame("content", run).p = run
      BY <1>0, ConstantTypes DEF TypeOK
    <3>3. \A i \in At' : line'[i].p <= last
      BY <1>0, <3>1, <3>2, PrintsOne, PrintsNone DEF CountedWork, At
    <3> QED BY <1>0, <2>0, <3>1, <3>3 DEF CountedWork
  <2>5. CASE Ends
    <3>1. UNCHANGED << queue, own, last >> /\ run' = None /\ done' = done \cup {run}
      BY <2>5 DEF Ends
    <3>2. /\ Frame("answer", run) \in Frames /\ Frame("answer", run).p = run
          /\ Frame("completed", run) \in Frames /\ Frame("completed", run).p = run
      BY <1>0, ConstantTypes DEF TypeOK
    <3>3. \A i \in At' : line'[i].p <= last
      <4>1. run <= last /\ \A i \in At : line[i].p <= last
        BY <1>0 DEF CountedWork
      <4>2. CASE stage = "closed"
        <5>1. line' = line
          BY <2>5, <4>2, PrintsNone DEF Ends
        <5> QED BY <4>1, <5>1 DEF At
      <4>3. CASE stage # "closed"
        <5>1. CASE Prints(<< Frame("answer", run) >>) \/ Prints(<< Frame("completed", run) >>)
          BY <1>0, <3>2, <4>1, <4>3, <5>1, PrintsOne DEF At
        <5>2. CASE Prints(<< Frame("completed", run), Frame("answer", run) >>) \/ Prints(<< Frame("answer", run), Frame("completed", run) >>)
          BY <1>0, <3>2, <4>1, <4>3, <5>2, PrintsTwo DEF At
        <5> QED BY <2>5, <5>1, <5>2 DEF Ends
      <4> QED BY <4>2, <4>3
    <3> QED BY <1>0, <2>0, <3>1, <3>3 DEF CountedWork
  <2>6. CASE Refuses
    <3>1. UNCHANGED << run, own, last >> /\ queue # << >> /\ queue' = Tail(queue) /\ done' = done \cup {Head(queue)}
          /\ Prints(<< Frame("answer", Head(queue)) >>)
      BY <2>6 DEF Refuses
    <3>2. Head(queue) <= last /\ Head(queue) \in Prompts /\ \A i \in DOMAIN queue' : queue'[i] <= last
      BY <1>0, <3>1, Leaves DEF CountedWork
    <3>3. Frame("answer", Head(queue)) \in Frames /\ Frame("answer", Head(queue)).p = Head(queue)
      BY <3>2, ConstantTypes
    <3>4. \A i \in At' : line'[i].p <= last
      BY <1>0, <3>1, <3>2, <3>3, PrintsOne, PrintsNone DEF CountedWork, At
    <3> QED BY <1>0, <2>0, <3>1, <3>2, <3>4 DEF CountedWork
  <2> QED BY <1>1, <2>1, <2>2, <2>3, <2>4, <2>5, <2>6 DEF Process
<1>2. CASE Read
  <2>1. /\ Pops /\ due' \in { due, Head(line) } /\ early' \subseteq early \cup {Head(line)}
    BY <1>0, <1>2, ReadKeeps
  <2>2. UNCHANGED << run, queue, own, done, sending, mine, last >> /\ line # << >> /\ line' = Tail(line)
    BY <2>1 DEF Pops, process
  <2>3. Head(line).p <= last /\ \A i \in At' : line'[i].p <= last
    BY <1>0, <2>2, Moved DEF CountedWork
  <2>4. due'.p <= last /\ \A f \in early' : f.p <= last
    BY <1>0, <2>1, <2>3 DEF CountedWork
  <2>5. UNCHANGED << run, queue, own, done, sending, mine, last >>
    BY <2>2
  <2>6. CountedWork /\ last \in Nat
    BY <1>0
  <2> QED BY <2>3, <2>4, <2>5, <2>6 DEF CountedWork
<1>3. CASE SendWrites
  <2>1. /\ UNCHANGED << run, own, done, line, due, early >> /\ last' = last + 1 /\ last < MaxPrompts
        /\ mine' = mine \cup {last + 1} /\ sending'.p = last + 1 /\ queue' = Append(queue, last + 1)
    BY <1>3 DEF SendWrites, SessionFrame, shake
  <2>2. last + 1 \in Prompts
    BY <1>0, <2>1, BoundAssumption DEF Prompts
  <2>3. \A i \in DOMAIN queue : queue[i] <= last + 1
    BY <1>0, Numbers DEF CountedWork
  <2>4. \A i \in DOMAIN queue' : queue'[i] <= last'
    BY <1>0, <2>1, <2>2, <2>3, Joins
  <2>5. last' <= MaxPrompts /\ run' <= last' /\ sending'.p <= last' /\ due'.p <= last'
    BY <1>0, <2>1, Numbers, BoundAssumption DEF CountedWork
  <2>6. (\A f \in early' : f.p <= last') /\ (\A i \in At' : line'[i].p <= last')
    BY <1>0, <2>1, Numbers DEF CountedWork, At
  <2>7. (\A p \in own' : p <= last') /\ (\A p \in done' : p <= last') /\ (\A p \in mine' : p <= last')
    BY <1>0, <2>1, Numbers DEF CountedWork
  <2> QED BY <1>0, <2>1, <2>4, <2>5, <2>6, <2>7 DEF CountedWork
<1>4. CASE Connect
  <2>1. UNCHANGED << run, queue, own, done, sending, mine, last, line, due, early >>
    BY <1>4 DEF Connect, client, bounds
  <2> QED BY <1>0, <2>1 DEF CountedWork, At
<1>5. CASE Calm
  <2>1. sending'.p <= last /\ due'.p <= last
    BY <1>0, <1>5, ConstantTypes DEF Calm, CountedWork, NotSending
  <2> QED BY <1>0, <1>5, <2>1 DEF CountedWork, At, Calm
<1>6. CASE Cuts
  <2>1. /\ queue' = queue \/ queue' = << >>
        /\ run' \in { run, None } /\ UNCHANGED << own, done, last >> /\ line' = << >> /\ due' = NoFrame /\ early' = {}
        /\ sending' = NotSending /\ mine' = {}
    BY <1>6 DEF Cuts, Close
  <2> QED BY <1>0, <2>1, ConstantTypes DEF CountedWork, At
<1>7. CASE ExitsUnheard
  <2>1. queue' = << >> /\ run' = None /\ UNCHANGED << own, done, last, sending, mine, line, due, early >>
    BY <1>7 DEF ExitsUnheard, client
  <2> QED BY <1>0, <2>1 DEF CountedWork, At
<1> QED BY <1>1, <1>2, <1>3, <1>4, <1>5, <1>6, <1>7, WireCases

\* The history: which prompt a turn was begun for, and what was noted about prompts.
LEMMA OfChanges ==
  ASSUME TypeOK, CountedTurns, NEW x \in Turns, NEW q \in Prompts \cup {None}, q <= last, of' = [ of EXCEPT ![x] = q ]
  PROVE  /\ of'[x] = q /\ \A t \in Turns : t # x => of'[t] = of[t]
         /\ \A t \in Turns : of'[t] <= last /\ (t > turns /\ t # x => of'[t] = None)
<1>1. of'[x] = q /\ \A t \in Turns : t # x => of'[t] = of[t]
  BY DEF TypeOK
<1>2. turns \in Nat /\ \A t \in Turns : t \in Nat
  BY Numbers
<1> QED BY <1>1, <1>2 DEF CountedTurns

LEMMA LateChanges ==
  ASSUME TypeOK, CountedTurns, NEW q, q <= last, NEW v, late' = [ late EXCEPT ![q] = v ] \/ late' = Forgotten([ late EXCEPT ![q] = v ])
  PROVE  \A p \in Prompts : p > last => late'[p] = "no"
<1> TAKE p \in Prompts
<1>1. p \in Nat /\ last \in Nat
  BY Numbers
<1> SUFFICES ASSUME p > last PROVE late'[p] = "no"
  OBVIOUS
<1>2. p # q
  BY <1>1
<1>3. late[p] = "no"
  BY DEF CountedTurns
<1>4. [ late EXCEPT ![q] = v ][p] = "no"
  BY <1>2, <1>3 DEF TypeOK
<1> QED BY <1>4 DEF Forgotten

LEMMA LateForgets ==
  ASSUME CountedTurns, late' = Forgotten(late)
  PROVE  \A p \in Prompts : p > last => late'[p] = "no"
BY DEF CountedTurns, Forgotten

LEMMA CountedTurnsStep ==
  ASSUME Inv, [Next]_vars
  PROVE  CountedTurns'
<1>0. /\ TypeOK /\ TypeOK' /\ CountedTurns /\ CountedWork /\ last <= last' /\ Told /\ TurnState /\ HandshakeOrder
      /\ turns \in Nat /\ last \in Nat /\ last' \in Nat /\ None = 0
  <2>1. last' \in Nat
    BY TypeStep DEF TypeOK
  <2> QED BY <2>1, TypeStep, CountedParts, CountedWorkStep, Numbers DEF Inv
<1>1. active.turn \in Turns \cup {None} /\ record.turn \in Turns \cup {None} /\ (active # NoTurn => active.turn \in Turns)
  BY <1>0 DEF TypeOK, Told
<1>2. ASSUME turns' <= MaxTurns, bound' <= last, \A t \in Turns : of'[t] <= last /\ (t > turns' => of'[t] = None),
             \A p \in Prompts : p > last => late'[p] = "no"
      PROVE  CountedTurns'
  <2>1. /\ \A p \in Prompts : p \in Nat
        /\ \A t \in Turns : of'[t] \in Nat
        /\ bound' \in Nat
    <3>1. \A p \in Prompts \cup {None} : p \in Nat
      BY <1>0, Numbers
    <3>2. bound' \in Prompts \cup {None} /\ of' \in OfType
      BY <1>0, TypePartsNext DEF SessionType
    <3> QED BY <3>1, <3>2 DEF OfType
  <2> QED BY <1>0, <1>2, <2>1 DEF CountedTurns
<1>3. ASSUME of' = of, turns' = turns
      PROVE  turns' <= MaxTurns /\ \A t \in Turns : of'[t] <= last /\ (t > turns' => of'[t] = None)
  BY <1>0, <1>3 DEF CountedTurns
<1>4. ASSUME late' = late
      PROVE  \A p \in Prompts : p > last => late'[p] = "no"
  BY <1>0, <1>4 DEF CountedTurns
<1>5. bound' \in {bound, None} => bound' <= last
  BY <1>0 DEF CountedTurns
<1>6. \A t \in Turns : of[t] <= last
  BY <1>0 DEF CountedTurns
<1>7. \A q \in Prompts \cup {None} : q <= last /\ turns < MaxTurns /\ turns' = turns + 1 /\ of' = [ of EXCEPT ![turns + 1] = q ] =>
         turns' <= MaxTurns /\ \A t \in Turns : of'[t] <= last /\ (t > turns' => of'[t] = None)
  <2> TAKE q \in Prompts \cup {None}
  <2>0. HAVE q <= last /\ turns < MaxTurns /\ turns' = turns + 1 /\ of' = [ of EXCEPT ![turns + 1] = q ]
  <2>1. turns + 1 \in Turns /\ turns' <= MaxTurns /\ \A t \in Turns : t \in Nat
    BY <1>0, <2>0, BoundAssumption DEF Turns
  <2>2. \A t \in Turns : of'[t] <= last /\ (t > turns /\ t # turns + 1 => of'[t] = None)
    BY <1>0, <2>0, <2>1, OfChanges
  <2> QED BY <1>0, <2>0, <2>1, <2>2
<1>8. CASE SameSession \/ ReadNames \/ Interrupt \/ Connect \/ Loaded \/ ListedKeeps \/ ListedDrops \/ ListedTakes \/ ReattachedHeard
           \/ ExitsHeard
  <2>1. UNCHANGED << of, turns, late >> /\ bound' \in { bound, None }
    BY <1>8 DEF SameSession, ReadNames, Interrupt, Connect, Loaded, ListedKeeps, ListedDrops, ListedTakes, ReattachedHeard, ExitsHeard,
                Lists, Reattaches, history, bounds
  <2> QED BY <1>2, <1>3, <1>4, <1>5, <2>1
<1>9. ASSUME NEW by \in Prompts \cup {None}, NEW names \in SUBSET Prompts, Finalizes(by, names)
      PROVE  CountedTurns'
  <2>1. UNCHANGED << of, turns >> /\ bound' = None
    BY <1>9 DEF Finalizes, Finalize
  <2>2. late' = late \/ \E v : late' = [ late EXCEPT ![of[active.turn]] = v ]
    BY <1>9 DEF Finalizes, Finalize
  <2>3. of[active.turn] <= last
    BY <1>1, <1>6, <1>9 DEF Finalizes
  <2>4. \A p \in Prompts : p > last => late'[p] = "no"
    BY <1>0, <1>4, <2>2, <2>3, LateChanges
  <2> QED BY <1>2, <1>3, <1>5, <2>1, <2>4
<1>10. CASE ReadOpens
  <2>1. Head(line).p <= last
    BY <1>0, <1>10, Moved DEF CountedWork, ReadOpens, Pops
  <2>2. /\ Head(line).p \in Prompts \cup {None} /\ turns < MaxTurns /\ turns' = turns + 1
        /\ of' = [ of EXCEPT ![turns + 1] = Head(line).p ] /\ bound' = bound
        /\ late' = late \/ (record.turn # None /\ late' = [ late EXCEPT ![of[record.turn]] = "unknown" ])
    BY <1>0, <1>10, ReadOpensType
  <2>3. \A p \in Prompts : p > last => late'[p] = "no"
    BY <1>0, <1>1, <1>4, <1>6, <2>2, LateChanges
  <2> QED BY <1>2, <1>5, <1>7, <2>1, <2>2, <2>3
<1>11. CASE SendConfirmed
  <2>1. /\ turns < MaxTurns /\ turns' = turns + 1 /\ of' = [ of EXCEPT ![turns + 1] = sending.p ] /\ UNCHANGED << bound, late >>
    BY <1>11 DEF SendConfirmed, BeginTurn
  <2>2. sending.p \in Prompts \cup {None} /\ sending.p <= last
    BY <1>0 DEF TypeOK, CountedWork
  <2> QED BY <1>2, <1>4, <1>5, <1>7, <2>1, <2>2
<1>12. CASE ListedMoves
  <2>1. /\ record.turn \in Turns /\ record.turn <= turns /\ turns <= turns /\ turns' = turns /\ of' = [ of EXCEPT ![record.turn] = due.p ]
        /\ UNCHANGED << bound, late >>
    BY <1>0, <1>1, <1>12 DEF ListedMoves, Lists, Told
  <2>2. due.p \in Prompts \cup {None} /\ due.p <= last
    BY <1>0 DEF TypeOK, CountedWork, Frames
  <2>3. turns' <= MaxTurns /\ \A t \in Turns : of'[t] <= last /\ (t > turns' => of'[t] = None)
    <3>1. \A t \in Turns : of'[t] <= last /\ (t > turns /\ t # record.turn => of'[t] = None)
      BY <1>0, <2>1, <2>2, OfChanges
    <3>2. \A t \in Turns : t \in Nat
      BY <1>0, Numbers
    <3> QED BY <1>0, <2>1, <3>1, <3>2 DEF CountedTurns
  <2> QED BY <1>2, <1>4, <1>5, <2>1, <2>3
<1>13. CASE ListedOpens
  <2>1. /\ turns < MaxTurns /\ turns' = turns + 1 /\ of' = [ of EXCEPT ![turns + 1] = due.p ] /\ UNCHANGED << bound, late >>
    BY <1>13 DEF ListedOpens, Lists
  <2>2. due.p \in Prompts \cup {None} /\ due.p <= last
    BY <1>0 DEF TypeOK, CountedWork, Frames
  <2> QED BY <1>2, <1>4, <1>5, <1>7, <2>1, <2>2
<1>14. CASE ReattachedSettled
  <2>1. OpenHeld /\ UNCHANGED << bound, late >>
    BY <1>14 DEF ReattachedSettled, Reattaches
  <2>2. CASE UNCHANGED << turns, of >>
    BY <1>2, <1>3, <1>4, <1>5, <2>1, <2>2
  <2>3. CASE \E f \in early : f.p \in Prompts \cup {None} /\ turns < MaxTurns /\ turns' = turns + 1 /\ of' = [ of EXCEPT ![turns + 1] = f.p ]
    <3>1. \A f \in early : f.p <= last
      BY <1>0 DEF CountedWork
    <3> QED BY <1>2, <1>4, <1>5, <1>7, <2>1, <2>3, <3>1
  <2> QED BY <1>0, <2>1, <2>2, <2>3, OpensHeld
<1>15. CASE ReattachedAdopts
  <2>1. UNCHANGED << of, turns, late >> /\ bound' = record.prompt /\ record # NoRecord /\ vibe
    BY <1>15 DEF ReattachedAdopts, Reattaches
  <2>2. record.turn \in Turns /\ of[record.turn] = record.prompt
    BY <1>0, <1>1, <2>1 DEF Told, TurnState
  <2> QED BY <1>2, <1>3, <1>4, <1>6, <2>1, <2>2
<1>16. CASE LostTurn
  <2>1. UNCHANGED << of, turns >> /\ bound' = None /\ late' = Forgotten([ late EXCEPT ![of[active.turn]] = "known" ])
    BY <1>16 DEF LostTurn, Disconnected
  <2>2. of[active.turn] <= last
    BY <1>1, <1>6, <1>16 DEF LostTurn
  <2> QED BY <1>0, <1>2, <1>3, <1>5, <2>1, <2>2, LateChanges
<1>17. CASE LostIdle \/ Restart
  <2>1. UNCHANGED << of, turns >> /\ bound' = None /\ late' = Forgotten(late)
    BY <1>17 DEF LostIdle, Restart, Disconnected
  <2> QED BY <1>0, <1>2, <1>3, <1>5, <2>1, LateForgets
<1> QED BY <1>8, <1>9, <1>10, <1>11, <1>12, <1>13, <1>14, <1>15, <1>16, <1>17, SessionCases

LEMMA CountedStep ==
  ASSUME Inv, [Next]_vars
  PROVE  Counted'
BY CountedWorkStep, CountedTurnsStep, CountedParts

-----------------------------------------------------------------------------
(***************************************************************************)
(* The process works in the order of the prompts.                          *)
(***************************************************************************)
WorkOrder ==
    /\ \A i, j \in DOMAIN queue : i < j => queue[i] < queue[j]
    /\ run # None => \A i \in DOMAIN queue : run < queue[i]
    /\ \A d \in done : (run # None => d < run) /\ \A i \in DOMAIN queue : d < queue[i]
    /\ \A i \in DOMAIN queue : queue[i] \notin own
    /\ vibe => own = {}
    /\ \A p \in mine : p \notin own
Holding ==
    /\ ~alive => queue = << >> /\ run = None /\ ~holds /\ stage = "closed"
    /\ run # None => holds
    /\ Grok /\ (queue # << >> \/ stage = "ready" \/ \E i \in At : IsPrompt(line[i])) => holds

LEMMA ProcessOrderParts == (ProcessOrder <=> WorkOrder /\ Holding) /\ (ProcessOrder' <=> WorkOrder' /\ Holding')
BY DEF ProcessOrder, WorkOrder, Holding

LEMMA InitProcessOrder == Init => ProcessOrder
<1> SUFFICES ASSUME Init PROVE ProcessOrder
  OBVIOUS
<1>1. At = {} /\ DOMAIN queue = {}
  BY DEF Init, At
<1> QED BY <1>1 DEF Init, ProcessOrder

LEMMA WorkOrderStep ==
  ASSUME Inv, [Next]_vars
  PROVE  WorkOrder'
<1>0. /\ TypeOK /\ LineOrder /\ WorkOrder /\ Holding /\ CountedWork
      /\ last \in Nat /\ run \in Nat /\ None = 0 /\ queue \in Seq(Prompts)
      /\ done \subseteq Prompts /\ own \subseteq Prompts /\ mine \subseteq Prompts
      /\ \A p \in Prompts : p \in Nat /\ p > 0
  BY CountedParts, Numbers, ProcessOrderParts DEF Inv, TypeOK
<1>1. CASE AnswersHandshake \/ PrintsContent \/ Calm \/ Read
  <2>1. UNCHANGED << queue, run, done, own, vibe, mine >>
    BY <1>0, <1>1, ReadKeeps DEF AnswersHandshake, PrintsContent, Calm, ProcessFrame, process, client, Pops
  <2> QED BY <1>0, <2>1 DEF WorkOrder
<1>2. CASE Begins
  <2>1. run = None /\ run' = Head(queue) /\ queue' = Tail(queue) /\ queue # << >> /\ UNCHANGED << done, own, vibe, mine >>
    BY <1>2 DEF Begins, ProcessFrame, client
  <2>2. run' = queue[1] /\ 1 \in DOMAIN queue
    BY <1>0, <2>1, Leaves
  <2>3. \A i \in DOMAIN queue' : i \in Nat /\ i >= 1 /\ i + 1 \in DOMAIN queue /\ queue'[i] = queue[i + 1]
    BY <1>0, <2>1, Leaves
  <2>4. \A i, j \in DOMAIN queue' : i < j => queue'[i] < queue'[j]
    BY <1>0, <2>3 DEF WorkOrder
  <2>5. \A i \in DOMAIN queue' : run' < queue'[i] /\ queue'[i] \notin own
    BY <1>0, <2>2, <2>3 DEF WorkOrder
  <2>6. \A d \in done : d < run' /\ \A i \in DOMAIN queue' : d < queue'[i]
    BY <1>0, <2>2, <2>3 DEF WorkOrder
  <2> QED BY <1>0, <2>1, <2>4, <2>5, <2>6 DEF WorkOrder
<1>3. CASE OwnWake
  <2>1. ~vibe /\ queue = << >> /\ run' = last + 1 /\ own' = own \cup {last + 1} /\ UNCHANGED << done, queue, vibe, mine >>
    BY <1>3 DEF OwnWake, ProcessFrame, client
  <2>2. DOMAIN queue' = {}
    BY <2>1
  <2>3. \A d \in done : d < run'
    BY <1>0, <2>1 DEF CountedWork
  <2>4. \A p \in mine' : p \notin own'
    BY <1>0, <2>1 DEF CountedWork, WorkOrder
  <2> QED BY <2>1, <2>2, <2>3, <2>4 DEF WorkOrder
<1>4. CASE Ends
  <2>1. run # None /\ run' = None /\ done' = done \cup {run} /\ UNCHANGED << own, queue, vibe, mine >>
    BY <1>4 DEF Ends, ProcessFrame, client
  <2> QED BY <1>0, <2>1 DEF WorkOrder
<1>5. CASE Refuses
  <2>1. /\ queue' = Tail(queue) /\ queue # << >> /\ done' = done \cup {Head(queue)} /\ UNCHANGED << run, own, vibe, mine >> /\ ~holds
    BY <1>5 DEF Refuses, ProcessFrame, client
  <2>2. Head(queue) = queue[1] /\ 1 \in DOMAIN queue /\ run = None
    BY <1>0, <2>1, Leaves DEF Holding
  <2>3. \A i \in DOMAIN queue' : i \in Nat /\ i >= 1 /\ i + 1 \in DOMAIN queue /\ queue'[i] = queue[i + 1]
    BY <1>0, <2>1, Leaves
  <2>4. \A i, j \in DOMAIN queue' : i < j => queue'[i] < queue'[j]
    BY <1>0, <2>3 DEF WorkOrder
  <2>5. \A i \in DOMAIN queue' : Head(queue) < queue'[i] /\ queue'[i] \notin own
    BY <1>0, <2>2, <2>3 DEF WorkOrder
  <2>6. \A d \in done' : \A i \in DOMAIN queue' : d < queue'[i]
    BY <1>0, <2>1, <2>3, <2>5 DEF WorkOrder
  <2> QED BY <1>0, <2>1, <2>2, <2>4, <2>5, <2>6 DEF WorkOrder
<1>6. CASE SendWrites
  <2>1. mine' = mine \cup {last + 1} /\ queue' = Append(queue, last + 1) /\ last < MaxPrompts /\ UNCHANGED << run, own, done, vibe >>
    BY <1>6 DEF SendWrites, SessionFrame
  <2>2. last + 1 \in Prompts /\ last + 1 \notin own
    BY <1>0, <2>1, BoundAssumption DEF Prompts, CountedWork
  <2>3. \A i \in DOMAIN queue' : i \in Nat /\
          (\/ queue'[i] = last + 1 /\ i = Len(queue) + 1
           \/ i \in DOMAIN queue /\ i < Len(queue) + 1 /\ queue'[i] = queue[i] /\ queue[i] \in Prompts /\ queue[i] <= last)
    <3>1. Len(queue) \in Nat /\ \A i \in DOMAIN queue : queue[i] \in Prompts /\ queue[i] <= last
      BY <1>0 DEF CountedWork
    <3> QED BY <1>0, <2>1, <2>2, <3>1, Joins
  <2>4. \A i, j \in DOMAIN queue' : i < j => queue'[i] < queue'[j]
    <3>1. Len(queue) \in Nat
      BY <1>0
    <3> QED BY <1>0, <2>3, <3>1 DEF WorkOrder
  <2>5. \A i \in DOMAIN queue' : (run # None => run < queue'[i]) /\ queue'[i] \notin own
    BY <1>0, <2>2, <2>3 DEF WorkOrder, CountedWork
  <2>6. \A d \in done : \A i \in DOMAIN queue' : d < queue'[i]
    BY <1>0, <2>3 DEF WorkOrder, CountedWork
  <2> QED BY <1>0, <2>1, <2>2, <2>4, <2>5, <2>6 DEF WorkOrder
<1>7. CASE Connect
  <2>1. UNCHANGED << queue, run, done, own, vibe, mine >>
    BY <1>7 DEF Connect, client
  <2> QED BY <1>0, <2>1 DEF WorkOrder
<1>8. CASE Cuts \/ ExitsUnheard
  <2>1. /\ UNCHANGED << queue, run >> \/ (queue' = << >> /\ run' = None)
        /\ UNCHANGED << own, done, vibe >> /\ (mine' = {} \/ mine' = mine)
    BY <1>8 DEF Cuts, ExitsUnheard, Close, client
  <2> QED BY <1>0, <2>1 DEF WorkOrder
<1> QED BY <1>1, <1>2, <1>3, <1>4, <1>5, <1>6, <1>7, <1>8, WireCases DEF Process

LEMMA HoldingStep ==
  ASSUME Inv, [Next]_vars
  PROVE  Holding'
<1>0. TypeOK /\ LineOrder /\ Holding /\ HandshakeOrder /\ TurnState
  BY ProcessOrderParts DEF Inv
<1>1. CASE AnswersHandshake
  <2> DEFINE now == IF run # None THEN run ELSE IF queue # << >> THEN Head(queue) ELSE None
             f == IF asking = "roster" THEN Frame(IF holds THEN "roster" ELSE "away", IF holds THEN now ELSE None) ELSE Frame(asking, None)
  <2>1. /\ Prints(<< f >>) /\ UNCHANGED << vibe, stage, alive, queue, run >> /\ alive /\ (holds => holds')
    BY <1>1 DEF AnswersHandshake, ProcessFrame
  <2>2. ~IsPrompt(f) /\ f \in Frames
    <3>1. now \in Prompts \cup {None}
      BY <1>0 DEF TypeOK
    <3> HIDE DEF now
    <3> QED BY <1>0, <3>1, ConstantTypes DEF IsPrompt, IsSignal, TypeOK
  <2> HIDE DEF f
  <2>3. \A i \in At' : IsPrompt(line'[i]) => i \in At /\ IsPrompt(line[i])
    BY <1>0, <2>1, <2>2, PrintsOne, PrintsNone DEF At
  <2> QED BY <1>0, <2>1, <2>3 DEF Holding, Grok
<1>2. CASE Begins \/ OwnWake \/ PrintsContent \/ Ends
  <2>1. holds /\ alive
    BY <1>0, <1>2 DEF Begins, OwnWake, PrintsContent, Ends, Holding
  <2>2. holds' = holds /\ alive' = alive
    BY <1>2 DEF Begins, OwnWake, PrintsContent, Ends, process
  <2> QED BY <2>1, <2>2 DEF Holding
<1>3. CASE Refuses
  <2>1. alive /\ vibe /\ run = None
    BY <1>0, <1>3 DEF Refuses, Holding, Grok
  <2>2. UNCHANGED << alive, vibe, run >>
    BY <1>3 DEF Refuses, ProcessFrame
  <2> QED BY <2>1, <2>2 DEF Holding, Grok
<1>4. CASE Read
  <2>1. UNCHANGED << vibe, stage, alive, queue, run, holds >> /\ line # << >> /\ line' = Tail(line)
    BY <1>0, <1>4, ReadKeeps DEF Pops, process
  <2>2. \A i \in At' : IsPrompt(line'[i]) => \E j \in At : IsPrompt(line[j])
    BY <1>0, <2>1, Moved
  <2> QED BY <1>0, <2>1, <2>2 DEF Holding, Grok
<1>5. CASE SendWrites
  <2>1. sending # NotSending /\ UNCHANGED << vibe, stage, alive, run, holds, line >>
    BY <1>5, ConstantTypes DEF SendWrites, SessionFrame, shake
  <2>2. stage = "ready" /\ alive /\ (Grok => holds)
    BY <1>0, <2>1 DEF TurnState, Holding
  <2> QED BY <1>0, <2>1, <2>2 DEF Holding, Grok
<1>6. CASE Connect
  <2>1. stage' = "greeting" /\ alive' = TRUE /\ UNCHANGED << vibe, holds, queue, run, line >>
    BY <1>6 DEF Connect
  <2> QED BY <1>0, <2>1 DEF Holding, Grok, At
<1>7. CASE Calm
  <2>1. /\ UNCHANGED << vibe, alive, holds, queue, run, line >>
        /\ (stage' # stage => stage # "closed") /\ (stage' = "ready" => stage = "ready" \/ vibe \/ due.t \in { "roster", "loaded" })
    BY <1>7 DEF Calm
  <2>2. stage' = "ready" => vibe \/ holds
    BY <1>0, <2>1 DEF HandshakeOrder, Holding, Grok
  <2>3. ~alive' => queue' = << >> /\ run' = None /\ ~holds' /\ stage' = "closed"
    BY <1>0, <2>1 DEF Holding
  <2> QED BY <1>0, <2>1, <2>2, <2>3 DEF Holding, Grok, At
<1>8. CASE Cuts
  <2>1. /\ stage' = "closed" /\ line' = << >> /\ vibe' = vibe
        /\ \/ UNCHANGED << alive, queue, run >> /\ (holds' = holds \/ (alive /\ holds' = TRUE))
           \/ alive' = FALSE /\ holds' = FALSE /\ queue' = << >> /\ run' = None
    BY <1>8 DEF Cuts, Close
  <2>2. At' = {}
    BY <2>1 DEF At
  <2> QED BY <1>0, <2>1, <2>2 DEF Holding, Grok
<1>9. CASE ExitsUnheard
  <2>1. stage' = "closed" /\ line' = << >> /\ alive' = FALSE /\ holds' = FALSE /\ queue' = << >> /\ run' = None
    BY <1>0, <1>9 DEF ExitsUnheard, HandshakeOrder
  <2>2. At' = {}
    BY <2>1 DEF At
  <2> QED BY <2>1, <2>2 DEF Holding, Grok
<1> QED BY <1>1, <1>2, <1>3, <1>4, <1>5, <1>6, <1>7, <1>8, <1>9, WireCases DEF Process

LEMMA ProcessOrderStep ==
  ASSUME Inv, [Next]_vars
  PROVE  ProcessOrder'
BY WorkOrderStep, HoldingStep, ProcessOrderParts

-----------------------------------------------------------------------------
(***************************************************************************)
(* The line is in that order.                                              *)
(***************************************************************************)
FrameSense ==
    \A i \in At : /\ line[i].t \in Handshakes \/ (IsPrompt(line[i]) /\ line[i].p # None)
                  /\ line[i].t = "content" => line[i].p \in done \/ line[i].p = run
                  /\ IsSignal(line[i]) => line[i].p \in done
FrameOrder ==
    \A i, j \in At : i < j /\ IsPrompt(line[i]) /\ IsPrompt(line[j]) =>
       /\ line[i].p <= line[j].p
       /\ IsSignal(line[i]) /\ line[j].t = "content" => line[i].p < line[j].p
       /\ line[i].t = "completed" /\ line[j].t = "completed" => line[i].p < line[j].p
Completes ==
    Grok => \A i \in At : line[i].t = "content" /\ line[i].p \in done \ silent =>
              \E j \in At : i < j /\ line[j].t = "completed" /\ line[j].p = line[i].p

LEMMA LineOrderParts == (LineOrder <=> FrameSense /\ FrameOrder /\ Completes) /\ (LineOrder' <=> FrameSense' /\ FrameOrder' /\ Completes')
BY DEF LineOrder, FrameSense, FrameOrder, Completes

LEMMA InitLineOrder == Init => LineOrder
BY DEF Init, LineOrder, At

\* What is in the line is of prompts that ended, or runs.
LEMMA FramesPast ==
  ASSUME TypeOK, FrameSense, WorkOrder
  PROVE  \A i \in At : IsPrompt(line[i]) =>
            /\ line[i].p \in Prompts
            /\ run # None => line[i].p <= run /\ (IsSignal(line[i]) => line[i].p < run)
            /\ run = None => line[i].p \in done
            /\ \A k \in DOMAIN queue : line[i].p < queue[k]
<1> TAKE i \in At
<1> SUFFICES ASSUME IsPrompt(line[i])
             PROVE  /\ line[i].p \in Prompts
                    /\ run # None => line[i].p <= run /\ (IsSignal(line[i]) => line[i].p < run)
                    /\ run = None => line[i].p \in done
                    /\ \A k \in DOMAIN queue : line[i].p < queue[k]
  OBVIOUS
<1>1. line[i].p \in Prompts
  <2>1. line[i] \in Frames /\ line[i].p # None
    <3>1. line[i].t \notin Handshakes
      BY DEF IsPrompt, IsSignal, Handshakes
    <3> QED BY <3>1, Numbers DEF FrameSense
  <2> QED BY <2>1 DEF Frames
<1>2. line[i].p \in done \/ (line[i].p = run /\ ~IsSignal(line[i]) /\ run # None)
  BY <1>1, ConstantTypes DEF FrameSense, IsPrompt, IsSignal
<1>3. line[i].p \in Nat /\ run \in Nat
  BY <1>1, Numbers
<1> QED BY <1>1, <1>2, <1>3 DEF WorkOrder

\* One more frame.
LEMMA OrderGrows ==
  ASSUME TypeOK, FrameOrder, NEW f \in Frames, Prints(<< f >>), stage # "closed",
         IsPrompt(f) => \A i \in At : IsPrompt(line[i]) => line[i].p <= f.p /\ (IsSignal(line[i]) => line[i].p < f.p)
  PROVE  FrameOrder'
<1> DEFINE n == Len(line) + 1
<1>1. n \in At' /\ line'[n] = f /\ n \in Nat
  BY PrintsOne
<1>2. \A i \in At : i \in Nat /\ i < n /\ i \in At' /\ line'[i] = line[i]
  BY PrintsOne
<1>3. \A i \in At' : i = n \/ i \in At
  BY PrintsOne
<1> HIDE DEF n
<1>4. ~ (f.t = "completed" /\ f.t = "content")
  OBVIOUS
<1> SUFFICES ASSUME NEW i \in At', NEW j \in At', i < j, IsPrompt(line'[i]), IsPrompt(line'[j])
             PROVE  /\ line'[i].p <= line'[j].p
                    /\ IsSignal(line'[i]) /\ line'[j].t = "content" => line'[i].p < line'[j].p
                    /\ line'[i].t = "completed" /\ line'[j].t = "completed" => line'[i].p < line'[j].p
  BY DEF FrameOrder
<1>5. i \in At /\ line'[i] = line[i]
  BY <1>1, <1>2, <1>3
<1>6. CASE j = n
  BY <1>1, <1>5, <1>6 DEF IsSignal
<1>7. CASE j \in At
  BY <1>2, <1>5, <1>7 DEF FrameOrder
<1> QED BY <1>3, <1>6, <1>7

\* The signals of the prompt that runs.
LEMMA OrderEnds ==
  ASSUME TypeOK, FrameOrder, NEW f \in Frames, NEW g \in Frames, Prints(<< f, g >>), stage # "closed",
         IsSignal(f), IsSignal(g), f.p = g.p, f.t # g.t,
         \A i \in At : IsPrompt(line[i]) => line[i].p <= f.p /\ (IsSignal(line[i]) => line[i].p < f.p)
  PROVE  FrameOrder'
<1> DEFINE n == Len(line) + 1
<1>1. n \in At' /\ line'[n] = f /\ n \in Nat /\ n + 1 \in At' /\ line'[n + 1] = g
  BY PrintsTwo
<1>2. \A i \in At : i \in Nat /\ i < n /\ i \in At' /\ line'[i] = line[i]
  BY PrintsTwo
<1>3. \A i \in At' : i = n \/ i = n + 1 \/ i \in At
  BY PrintsTwo
<1>4. f.p \in Nat
  BY BoundAssumption DEF Frames, Prompts, None
<1> HIDE DEF n
<1> SUFFICES ASSUME NEW i \in At', NEW j \in At', i < j, IsPrompt(line'[i]), IsPrompt(line'[j])
             PROVE  /\ line'[i].p <= line'[j].p
                    /\ IsSignal(line'[i]) /\ line'[j].t = "content" => line'[i].p < line'[j].p
                    /\ line'[i].t = "completed" /\ line'[j].t = "completed" => line'[i].p < line'[j].p
  BY DEF FrameOrder
<1>5. CASE i \in At /\ j \in At
  BY <1>2, <1>5 DEF FrameOrder
<1>6. CASE i \in At /\ (j = n \/ j = n + 1)
  BY <1>1, <1>2, <1>6 DEF IsSignal
<1>7. CASE i = n /\ j = n + 1
  BY <1>1, <1>4, <1>7 DEF IsSignal
<1>8. j \in At => i \in At
  <2>1. j \in At => j \in Nat /\ j < n
    BY <1>2
  <2>2. i \in At \/ i = n \/ i = n + 1
    BY <1>3
  <2> QED BY <1>1, <2>1, <2>2
<1>9. i = n + 1 => j \in At
  <2>1. j \in At \/ j = n \/ j = n + 1
    BY <1>3
  <2> QED BY <1>1, <2>1
<1>10. i = n => j # n
  BY <1>1
<1> QED BY <1>1, <1>3, <1>5, <1>6, <1>7, <1>8, <1>9, <1>10

\* The line and what the process does with it stay.
LEMMA LineOrderKept ==
  ASSUME LineOrder, UNCHANGED << vibe, line, done, silent >>, run' = run \/ run = None
  PROVE  LineOrder'
<1>1. FrameSense /\ FrameOrder /\ Completes
  BY LineOrderParts
<1>2. FrameSense'
  <2>1. "content" \notin Handshakes
    BY DEF Handshakes
  <2>2. \A i \in At : line[i].t = "content" => line[i].p \in done \/ line[i].p = run'
    BY <1>1, <2>1 DEF FrameSense
  <2> QED BY <1>1, <2>2 DEF FrameSense, At
<1>3. FrameOrder' /\ Completes'
  BY <1>1 DEF FrameOrder, Completes, At, Grok
<1> QED BY <1>2, <1>3, LineOrderParts

LEMMA LineOrderStep ==
  ASSUME Inv, [Next]_vars
  PROVE  LineOrder'
<1>0. /\ TypeOK /\ LineOrder /\ FrameSense /\ FrameOrder /\ Completes /\ WorkOrder /\ Holding /\ HandshakeOrder
      /\ run \in Nat /\ None = 0 /\ run \in Prompts \cup {None} /\ done \subseteq Prompts /\ queue \in Seq(Prompts)
  BY LineOrderParts, ProcessOrderParts, Numbers DEF Inv, TypeOK
<1>1. CASE AnswersHandshake
  <2> DEFINE now == IF run # None THEN run ELSE IF queue # << >> THEN Head(queue) ELSE None
             f == IF asking = "roster" THEN Frame(IF holds THEN "roster" ELSE "away", IF holds THEN now ELSE None) ELSE Frame(asking, None)
  <2>1. /\ Prints(<< f >>) /\ UNCHANGED << vibe, done, silent, run, stage >> /\ stage # "closed"
    BY <1>0, <1>1, DueStage DEF AnswersHandshake, ProcessFrame
  <2>2. f \in Frames /\ f.t \in Handshakes /\ asking # "none"
    <3>1. now \in Prompts \cup {None} /\ asking # "none"
      BY <1>0, <1>1 DEF TypeOK, AnswersHandshake
    <3> HIDE DEF now
    <3> QED BY <1>0, <3>1, ConstantTypes DEF Handshakes, TypeOK
  <2> HIDE DEF f
  <2>3. ~IsPrompt(f) /\ f.t # "content" /\ ~IsSignal(f)
    BY <2>2 DEF IsPrompt, IsSignal, Handshakes
  <2>4. FrameOrder'
    BY <1>0, <2>1, <2>2, <2>3, OrderGrows
  <2> DEFINE n == Len(line) + 1
  <2>5. n \in At' /\ line'[n] = f
    BY <1>0, <2>1, <2>2, PrintsOne
  <2>6. \A i \in At : i \in Nat /\ i < n /\ i \in At' /\ line'[i] = line[i]
    BY <1>0, <2>1, <2>2, PrintsOne
  <2>7. \A i \in At' : i = n \/ i \in At
    BY <1>0, <2>1, <2>2, PrintsOne
  <2> HIDE DEF n
  <2>8. FrameSense'
    BY <1>0, <2>1, <2>2, <2>3, <2>5, <2>6, <2>7 DEF FrameSense
  <2>9. Completes'
    BY <1>0, <2>1, <2>2, <2>3, <2>5, <2>6, <2>7 DEF Completes, Grok
  <2> QED BY <2>4, <2>8, <2>9, LineOrderParts
<1>2. CASE Begins \/ OwnWake
  <2>1. UNCHANGED << vibe, line, done, silent >> /\ run = None
    BY <1>2 DEF Begins, OwnWake, ProcessFrame
  <2> QED BY <1>0, <2>1, LineOrderKept
<1>3. CASE PrintsContent
  <2> DEFINE f == Frame("content", run)
  <2>1. /\ Prints(<< f >>) /\ UNCHANGED << vibe, done, silent, run >> /\ stage # "closed" /\ run # None
    BY <1>3 DEF PrintsContent, process, ProcessFrame
  <2>2. f \in Frames /\ f.t = "content" /\ f.p = run /\ IsPrompt(f) /\ f.t \notin Handshakes /\ ~IsSignal(f)
    BY <1>0, ConstantTypes DEF IsPrompt, IsSignal, Handshakes
  <2> HIDE DEF f
  <2>3. FrameOrder'
    <3>1. \A i \in At : IsPrompt(line[i]) => line[i].p <= f.p /\ (IsSignal(line[i]) => line[i].p < f.p)
      BY <1>0, <2>1, <2>2, FramesPast
    <3> QED BY <1>0, <2>1, <2>2, <3>1, OrderGrows
  <2> DEFINE n == Len(line) + 1
  <2>5. n \in At' /\ line'[n] = f
    BY <1>0, <2>1, <2>2, PrintsOne
  <2>6. \A i \in At : i \in Nat /\ i < n /\ i \in At' /\ line'[i] = line[i]
    BY <1>0, <2>1, <2>2, PrintsOne
  <2>7. \A i \in At' : i = n \/ i \in At
    BY <1>0, <2>1, <2>2, PrintsOne
  <2> HIDE DEF n
  <2>8. FrameSense'
    BY <1>0, <2>1, <2>2, <2>5, <2>6, <2>7 DEF FrameSense
  <2>9. run \notin done
    BY <1>0, <2>1 DEF WorkOrder
  <2>10. Completes'
    BY <1>0, <2>1, <2>2, <2>5, <2>6, <2>7, <2>9 DEF Completes, Grok
  <2> QED BY <2>3, <2>8, <2>10, LineOrderParts
<1>4. CASE Ends
  <2>1. run # None /\ run' = None /\ done' = done \cup {run} /\ UNCHANGED << vibe, stage >> /\ silent \subseteq silent'
    BY <1>4 DEF Ends, ProcessFrame
  <2>2. \A i \in At : IsPrompt(line[i]) => line[i].p <= run /\ (IsSignal(line[i]) => line[i].p < run)
    BY <1>0, <2>1, FramesPast
  <2>3. \A k \in { "answer", "completed" } : /\ Frame(k, run) \in Frames /\ Frame(k, run).t = k /\ Frame(k, run).p = run
                                           /\ IsSignal(Frame(k, run)) /\ IsPrompt(Frame(k, run)) /\ k \notin Handshakes
    BY <1>0, ConstantTypes DEF IsPrompt, IsSignal, Handshakes
  <2>4. CASE stage = "closed"
    <3>1. line' = << >>
      BY <1>0, <1>4, <2>4, PrintsNone DEF Ends, HandshakeOrder
    <3> QED BY <3>1 DEF LineOrder, At
  <2>5. CASE stage # "closed" /\ \E k \in { "answer", "completed" } : Prints(<< Frame(k, run) >>) /\ (vibe \/ k = "completed" \/ run \in silent')
    <3>1. PICK k \in { "answer", "completed" } : Prints(<< Frame(k, run) >>) /\ (vibe \/ k = "completed" \/ run \in silent')
      BY <2>5
    <3> DEFINE f == Frame(k, run)
    <3>2. f \in Frames /\ f.t = k /\ f.p = run /\ IsSignal(f) /\ IsPrompt(f) /\ f.t # "content" /\ Prints(<< f >>)
      BY <2>3, <3>1
    <3> HIDE DEF f
    <3>3. FrameOrder'
      BY <1>0, <2>2, <2>5, <3>2, OrderGrows
    <3> DEFINE n == Len(line) + 1
    <3>5. n \in At' /\ line'[n] = f
      BY <1>0, <2>5, <3>2, PrintsOne
    <3>6. \A i \in At : i \in Nat /\ i < n /\ i \in At' /\ line'[i] = line[i]
      BY <1>0, <2>5, <3>2, PrintsOne
    <3>7. \A i \in At' : i = n \/ i \in At
      BY <1>0, <2>5, <3>2, PrintsOne
    <3> HIDE DEF n
    <3>8. FrameSense'
      BY <1>0, <2>1, <3>2, <3>5, <3>6, <3>7 DEF FrameSense
    <3>9. Completes'
      <4> SUFFICES ASSUME Grok', NEW i \in At', line'[i].t = "content", line'[i].p \in done' \ silent'
                   PROVE  \E j \in At' : i < j /\ line'[j].t = "completed" /\ line'[j].p = line'[i].p
        BY DEF Completes
      <4>1. i \in At /\ line'[i] = line[i] /\ i < n
        BY <3>2, <3>5, <3>6, <3>7
      <4>2. CASE line[i].p = run
        <5>1. f.t = "completed"
          BY <2>1, <3>1, <3>2, <4>1, <4>2 DEF Grok
        <5> QED BY <3>2, <3>5, <4>1, <4>2, <5>1
      <4>3. CASE line[i].p \in done
        <5>1. PICK j \in At : i < j /\ line[j].t = "completed" /\ line[j].p = line[i].p
          BY <1>0, <2>1, <4>1, <4>3 DEF Completes, Grok
        <5> QED BY <3>6, <4>1, <5>1
      <4> QED BY <2>1, <4>1, <4>2, <4>3
    <3> QED BY <3>3, <3>8, <3>9, LineOrderParts
  <2>6. CASE stage # "closed" /\ \E k, l \in { "answer", "completed" } : k # l /\ Prints(<< Frame(k, run), Frame(l, run) >>)
    <3>1. PICK k, l \in { "answer", "completed" } : k # l /\ Prints(<< Frame(k, run), Frame(l, run) >>)
      BY <2>6
    <3> DEFINE f == Frame(k, run)
               g == Frame(l, run)
    <3>2. /\ f \in Frames /\ f.t = k /\ f.p = run /\ IsSignal(f) /\ IsPrompt(f) /\ f.t # "content"
          /\ g \in Frames /\ g.t = l /\ g.p = run /\ IsSignal(g) /\ IsPrompt(g) /\ g.t # "content"
          /\ Prints(<< f, g >>) /\ f.t # g.t /\ (f.t = "completed" \/ g.t = "completed")
      BY <2>3, <3>1
    <3> HIDE DEF f, g
    <3>3. FrameOrder'
      BY <1>0, <2>2, <2>6, <3>2, OrderEnds
    <3> DEFINE n == Len(line) + 1
    <3>5. n \in At' /\ line'[n] = f /\ n + 1 \in At' /\ line'[n + 1] = g /\ n \in Nat
      BY <1>0, <2>6, <3>2, PrintsTwo
    <3>6. \A i \in At : i \in Nat /\ i < n /\ i \in At' /\ line'[i] = line[i]
      BY <1>0, <2>6, <3>2, PrintsTwo
    <3>7. \A i \in At' : i = n \/ i = n + 1 \/ i \in At
      BY <1>0, <2>6, <3>2, PrintsTwo
    <3> HIDE DEF n
    <3>8. FrameSense'
      BY <1>0, <2>1, <3>2, <3>5, <3>6, <3>7 DEF FrameSense
    <3>9. Completes'
      <4> SUFFICES ASSUME Grok', NEW i \in At', line'[i].t = "content", line'[i].p \in done' \ silent'
                   PROVE  \E j \in At' : i < j /\ line'[j].t = "completed" /\ line'[j].p = line'[i].p
        BY DEF Completes
      <4>1. i \in At /\ line'[i] = line[i] /\ i < n /\ i < n + 1
        BY <3>2, <3>5, <3>6, <3>7
      <4>2. CASE line[i].p = run
        BY <3>2, <3>5, <4>1, <4>2
      <4>3. CASE line[i].p \in done
        <5>1. PICK j \in At : i < j /\ line[j].t = "completed" /\ line[j].p = line[i].p
          BY <1>0, <2>1, <4>1, <4>3 DEF Completes, Grok
        <5> QED BY <3>6, <4>1, <5>1
      <4> QED BY <2>1, <4>1, <4>2, <4>3
    <3> QED BY <3>3, <3>8, <3>9, LineOrderParts
  <2> QED BY <1>4, <2>4, <2>5, <2>6 DEF Ends, Hearing
<1>5. CASE Refuses
  <2>1. /\ queue # << >> /\ ~holds /\ UNCHANGED << vibe, stage, run >> /\ done' = done \cup {Head(queue)}
        /\ Prints(<< Frame("answer", Head(queue)) >>)
    BY <1>5 DEF Refuses, ProcessFrame
  <2>2. vibe /\ run = None
    BY <1>0, <2>1 DEF Holding, Grok
  <2>3. Head(queue) = queue[1] /\ 1 \in DOMAIN queue /\ Head(queue) \in Prompts /\ Head(queue) # None
    BY <1>0, <2>1, ConstantTypes
  <2> DEFINE f == Frame("answer", Head(queue))
  <2>4. f \in Frames /\ f.t = "answer" /\ f.p = Head(queue) /\ IsSignal(f) /\ IsPrompt(f) /\ f.t # "content" /\ Prints(<< f >>)
    BY <2>1, <2>3, ConstantTypes DEF IsPrompt, IsSignal
  <2> HIDE DEF f
  <2>5. CASE stage = "closed"
    <3>1. line' = << >>
      BY <1>0, <2>1, <2>5, PrintsNone DEF HandshakeOrder
    <3> QED BY <3>1 DEF LineOrder, At
  <2>6. CASE stage # "closed"
    <3>1. \A i \in At : IsPrompt(line[i]) => line[i].p <= f.p /\ (IsSignal(line[i]) => line[i].p < f.p)
      <4> TAKE i \in At
      <4> SUFFICES ASSUME IsPrompt(line[i]) PROVE line[i].p <= f.p /\ line[i].p < f.p
        OBVIOUS
      <4>1. line[i].p \in Prompts /\ line[i].p < queue[1]
        BY <1>0, <2>3, FramesPast
      <4>2. line[i].p \in Nat /\ queue[1] \in Nat
        BY <1>0, <2>3, <4>1, Numbers
      <4> QED BY <2>3, <2>4, <4>1, <4>2
    <3>2. FrameOrder'
      BY <1>0, <2>4, <2>6, <3>1, OrderGrows
    <3> DEFINE n == Len(line) + 1
    <3>5. n \in At' /\ line'[n] = f
      BY <1>0, <2>6, <2>4, PrintsOne
    <3>6. \A i \in At : i \in Nat /\ i < n /\ i \in At' /\ line'[i] = line[i]
      BY <1>0, <2>6, <2>4, PrintsOne
    <3>7. \A i \in At' : i = n \/ i \in At
      BY <1>0, <2>6, <2>4, PrintsOne
    <3> HIDE DEF n
    <3>8. FrameSense'
      BY <1>0, <2>1, <2>3, <2>4, <3>5, <3>6, <3>7 DEF FrameSense
    <3>9. Completes'
      BY <2>1, <2>2 DEF Completes, Grok
    <3> QED BY <3>2, <3>8, <3>9, LineOrderParts
  <2> QED BY <2>5, <2>6
<1>6. CASE Read
  <2>1. UNCHANGED << vibe, run, done, silent >> /\ line # << >> /\ line' = Tail(line)
    BY <1>0, <1>6, ReadKeeps DEF Pops, process
  <2>2. \A i \in At' : i \in Nat /\ i >= 1 /\ i + 1 \in At /\ line'[i] = line[i + 1]
    BY <1>0, <2>1, Moved
  <2>3. \A i \in At : i \in Nat /\ i >= 1 /\ (i = 1 \/ (i - 1 \in At' /\ line'[i - 1] = line[i]))
    BY <1>0, <2>1, Moved
  <2>4. UNCHANGED << vibe, run, done, silent >>
    BY <2>1
  <2>5. FrameSense'
    BY <1>0, <2>2, <2>4 DEF FrameSense
  <2>6. FrameOrder'
    <3> SUFFICES ASSUME NEW i \in At', NEW j \in At', i < j
                 PROVE  i + 1 \in At /\ j + 1 \in At /\ i + 1 < j + 1 /\ line'[i] = line[i + 1] /\ line'[j] = line[j + 1]
      BY <1>0 DEF FrameOrder
    <3> QED BY <2>2
  <2>7. Completes'
    <3> SUFFICES ASSUME Grok', NEW i \in At', line'[i].t = "content", line'[i].p \in done' \ silent'
                 PROVE  \E j \in At' : i < j /\ line'[j].t = "completed" /\ line'[j].p = line'[i].p
      BY DEF Completes
    <3>1. i + 1 \in At /\ line'[i] = line[i + 1] /\ i \in Nat /\ i >= 1
      BY <2>2
    <3>2. PICK j \in At : i + 1 < j /\ line[j].t = "completed" /\ line[j].p = line[i + 1].p
      BY <1>0, <2>4, <3>1 DEF Completes, Grok
    <3>3. j - 1 \in At' /\ line'[j - 1] = line[j] /\ i < j - 1
      BY <2>3, <3>1, <3>2
    <3> QED BY <3>1, <3>2, <3>3
  <2> QED BY <2>5, <2>6, <2>7, LineOrderParts
<1>7. CASE SendWrites \/ Connect \/ Calm
  <2>1. UNCHANGED << vibe, line, done, silent, run >>
    BY <1>7 DEF SendWrites, SessionFrame, Connect, Calm
  <2> QED BY <1>0, <2>1, LineOrderKept
<1>8. CASE Cuts \/ ExitsUnheard
  <2>1. line' = << >>
    BY <1>0, <1>8 DEF Cuts, Close, ExitsUnheard, HandshakeOrder
  <2> QED BY <2>1 DEF LineOrder, At
<1> QED BY <1>1, <1>2, <1>3, <1>4, <1>5, <1>6, <1>7, <1>8, WireCases DEF Process

-----------------------------------------------------------------------------
(***************************************************************************)
(* The handshake.                                                          *)
(***************************************************************************)
NoShakes == \A i \in At : line[i].t \notin Handshakes

LEMMA InitHandshakeOrder == Init => HandshakeOrder
<1> SUFFICES ASSUME Init PROVE HandshakeOrder
  OBVIOUS
<1>1. At = {} /\ due = NoFrame /\ asking = "none" /\ stage = "closed" /\ line = << >>
  BY DEF Init, At
<1> QED BY <1>1, ConstantTypes DEF HandshakeOrder

\* No request is under way, or the next one was just made.
LEMMA HandshakeIdle ==
  ASSUME due' = NoFrame, NoShakes', asking' = "none" \/ asking' \in Expected',
         stage' = "closed" => line' = << >>, stage' = "listing" => Grok'
  PROVE  HandshakeOrder'
<1>1. NoFrame.t \notin { "roster", "loaded", "away" }
  BY ConstantTypes
<1>2. \A i \in At' : line'[i].t \notin Handshakes /\ line'[i].t \notin { "roster", "loaded", "away" }
  BY DEF NoShakes, Handshakes
<1> QED BY <1>1, <1>2 DEF HandshakeOrder

\* The process prints no answer to a handshake.
LEMMA HandshakeKept ==
  ASSUME HandshakeOrder, UNCHANGED << asking, due, stage, vibe, holds >>, stage = "closed" => line' = line,
         \A i \in At' : line'[i].t \in Handshakes => i \in At /\ line'[i] = line[i]
  PROVE  HandshakeOrder'
<1>1. Expected' = Expected
  BY DEF Expected
<1>2. NoShakes => NoShakes'
  BY DEF NoShakes
<1>3. \A i \in At' : line'[i].t \in { "roster", "loaded", "away" } => line'[i].t \in Handshakes
  BY DEF Handshakes
<1> QED BY <1>1, <1>2, <1>3 DEF HandshakeOrder, NoShakes, Grok

LEMMA HandshakeProcessStep ==
  ASSUME Inv, Process
  PROVE  HandshakeOrder'
<1>0. TypeOK /\ HandshakeOrder /\ run \in Prompts \cup {None} /\ queue \in Seq(Prompts)
  BY DEF Inv, TypeOK
<1>1. CASE AnswersHandshake
  <2> DEFINE now == IF run # None THEN run ELSE IF queue # << >> THEN Head(queue) ELSE None
             f == IF asking = "roster" THEN Frame(IF holds THEN "roster" ELSE "away", IF holds THEN now ELSE None) ELSE Frame(asking, None)
  <2>1. /\ Prints(<< f >>) /\ UNCHANGED << vibe, stage, due >> /\ asking' = "none" /\ asking # "none" /\ holds' = (holds \/ asking = "loaded")
    BY <1>1 DEF AnswersHandshake, ProcessFrame
  <2>2. /\ f \in Frames /\ (asking # "roster" => f.t = asking) /\ (asking = "roster" => f.t = IF holds THEN "roster" ELSE "away")
    <3>1. now \in Prompts \cup {None}
      BY <1>0
    <3>2. asking \in { "none", "hello", "roster", "loaded" }
      BY <1>0 DEF TypeOK
    <3> HIDE DEF now
    <3> QED BY <3>1, <3>2, ConstantTypes
  <2> HIDE DEF f
  <2>3. asking \in Expected /\ due = NoFrame /\ NoShakes /\ stage # "closed"
    BY <1>0, <2>1, DueStage DEF HandshakeOrder, NoShakes
  <2>4. f.t \in Expected /\ Expected' = Expected
    BY <2>1, <2>2, <2>3 DEF Expected
  <2> DEFINE n == Len(line) + 1
  <2>5. n \in At' /\ line'[n] = f
    BY <1>0, <2>1, <2>2, <2>3, PrintsOne
  <2>6. \A i \in At' : i = n \/ (i \in At /\ line'[i] = line[i])
    BY <1>0, <2>1, <2>2, <2>3, PrintsOne
  <2> HIDE DEF n
  <2>7. \A i \in At' : line'[i].t \in Handshakes => i = n
    BY <2>3, <2>6 DEF NoShakes
  <2>8. (f.t \in { "roster", "loaded" } => holds') /\ (f.t = "away" => ~holds')
    <3>1. CASE asking = "roster"
      BY <2>1, <2>2, <3>1
    <3>2. CASE asking # "roster"
      <4>1. f.t = asking /\ asking # "away"
        BY <1>0, <2>2, <3>2 DEF TypeOK
      <4> QED BY <2>1, <3>2, <4>1
    <3> QED BY <3>1, <3>2
  <2>9. \A i \in At' : line'[i].t \in { "roster", "loaded", "away" } => line'[i].t \in Handshakes
    BY DEF Handshakes
  <2>10. NoFrame.t \notin { "roster", "loaded", "away" }
    BY ConstantTypes
  <2>11. stage' = "listing" => Grok'
    BY <1>0, <2>1 DEF HandshakeOrder, Grok
  <2> QED BY <2>1, <2>3, <2>4, <2>5, <2>7, <2>8, <2>9, <2>10, <2>11 DEF HandshakeOrder
<1>2. CASE Begins \/ OwnWake \/ PrintsContent \/ Ends \/ Refuses
  <2>1. UNCHANGED << asking, due, stage, vibe, holds >>
    BY <1>2 DEF Begins, OwnWake, PrintsContent, Ends, Refuses, ProcessFrame, process
  <2>2. stage = "closed" => line' = line
    BY <1>2, PrintsNone DEF Begins, OwnWake, PrintsContent, Ends, Refuses
  <2>3. \A p \in Prompts \cup {None} : \A k \in { "content", "answer", "completed" } :
          Frame(k, p) \in Frames /\ Frame(k, p).t \notin Handshakes
    BY ConstantTypes DEF Handshakes
  <2>4. queue # << >> => Head(queue) \in Prompts
    BY <1>0
  <2>5. \A i \in At' : line'[i].t \in Handshakes => i \in At /\ line'[i] = line[i]
    <3>1. CASE line' = line
      BY <3>1 DEF At
    <3>2. CASE stage # "closed" /\ \E f \in Frames : f.t \notin Handshakes /\ Prints(<< f >>)
      BY <1>0, <3>2, PrintsOne
    <3>3. CASE stage # "closed" /\ \E f, g \in Frames : f.t \notin Handshakes /\ g.t \notin Handshakes /\ Prints(<< f, g >>)
      BY <1>0, <3>3, PrintsTwo
    <3>4. CASE Begins \/ OwnWake
      BY <3>1, <3>4 DEF Begins, OwnWake
    <3>5. CASE PrintsContent
      BY <1>0, <2>2, <2>3, <3>1, <3>2, <3>5 DEF PrintsContent
    <3>6. CASE Ends
      BY <1>0, <2>2, <2>3, <3>1, <3>2, <3>3, <3>6 DEF Ends
    <3>7. CASE Refuses
      BY <2>2, <2>3, <2>4, <3>1, <3>2, <3>7 DEF Refuses
    <3> QED BY <1>2, <3>4, <3>5, <3>6, <3>7
  <2> QED BY <1>0, <2>1, <2>2, <2>5, HandshakeKept
<1> QED BY <1>1, <1>2 DEF Process

LEMMA HandshakeOrderStep ==
  ASSUME Inv, [Next]_vars
  PROVE  HandshakeOrder'
<1>0. TypeOK /\ HandshakeOrder /\ LineOrder
  BY DEF Inv
<1>1. CASE Process
  BY <1>1, HandshakeProcessStep
<1>2. CASE Read
  <2>1. /\ UNCHANGED << vibe, holds, stage, asking >> /\ stage # "closed" /\ line # << >> /\ line' = Tail(line)
        /\ Head(line).t \in Handshakes => due' = Head(line)
        /\ Head(line).t \notin Handshakes => due' = due
    BY <1>0, <1>2, ReadKeeps DEF Pops, process
  <2>2. \A i \in At' : i \in Nat /\ i >= 1 /\ i + 1 \in At /\ line'[i] = line[i + 1]
    BY <1>0, <2>1, Moved
  <2>3. Head(line) = line[1] /\ 1 \in At
    BY <1>0, <2>1, Moved
  <2>4. Expected' = Expected
    BY <2>1 DEF Expected
  <2>5. CASE Head(line).t \in Handshakes
    <3>1. NoShakes'
      BY <1>0, <2>2, <2>3, <2>5 DEF HandshakeOrder, NoShakes
    <3>2. asking' = "none" /\ due'.t \in Expected' /\ stage' # "closed"
      BY <1>0, <2>1, <2>3, <2>4, <2>5 DEF HandshakeOrder
    <3>3. (due'.t \in { "roster", "loaded" } => holds') /\ (due'.t = "away" => ~holds')
      BY <1>0, <2>1, <2>3, <2>5 DEF HandshakeOrder
    <3>4. stage' = "listing" => Grok'
      BY <1>0, <2>1 DEF HandshakeOrder, Grok
    <3>5. \A i \in At' : line'[i].t \notin Handshakes /\ line'[i].t \notin { "roster", "loaded", "away" }
      BY <3>1 DEF NoShakes, Handshakes
    <3> QED BY <3>1, <3>2, <3>3, <3>4, <3>5 DEF HandshakeOrder
  <2>6. CASE Head(line).t \notin Handshakes
    <3>1. due' = due /\ UNCHANGED << vibe, holds, stage, asking >> /\ stage' # "closed"
      BY <2>1, <2>6
    <3>2. NoShakes => NoShakes'
      BY <2>2 DEF NoShakes
    <3>3. asking' # "none" => due' = NoFrame /\ NoShakes' /\ asking' \in Expected'
      BY <1>0, <2>4, <3>1, <3>2 DEF HandshakeOrder, NoShakes
    <3>4. due' # NoFrame => due'.t \in Expected' /\ NoShakes'
      BY <1>0, <2>4, <3>1, <3>2 DEF HandshakeOrder, NoShakes
    <3>5. \A i \in At' : line'[i].t \in Handshakes => line'[i].t \in Expected'
      BY <1>0, <2>2, <2>4 DEF HandshakeOrder
    <3>6. \A i, j \in At' : line'[i].t \in Handshakes /\ line'[j].t \in Handshakes => i = j
      <4> TAKE i, j \in At'
      <4>1. line'[i].t \in Handshakes /\ line'[j].t \in Handshakes => i + 1 = j + 1
        BY <1>0, <2>2 DEF HandshakeOrder
      <4> QED BY <2>2, <4>1
    <3>7. \A i \in At' : (line'[i].t \in { "roster", "loaded" } => holds') /\ (line'[i].t = "away" => ~holds')
      BY <1>0, <2>2, <3>1 DEF HandshakeOrder
    <3>8. /\ stage' = "listing" => Grok'
          /\ (due'.t \in { "roster", "loaded" } => holds') /\ (due'.t = "away" => ~holds')
      BY <1>0, <3>1 DEF HandshakeOrder, Grok
    <3> QED BY <3>1, <3>3, <3>4, <3>5, <3>6, <3>7, <3>8 DEF HandshakeOrder, NoShakes
  <2> QED BY <2>5, <2>6
<1>3. CASE \/ \E p \in Prompts : Settle(p)
           \/ SendBegins \/ SendFails \/ SendWrites \/ SendConfirmed \/ Interrupt \/ GraceExpires
           \/ UNCHANGED vars
  <2>1. UNCHANGED << asking, due, stage, vibe, holds, line >>
    BY <1>3 DEF Settle, SendBegins, SendFails, SendWrites, SendConfirmed, Interrupt, GraceExpires, SessionFrame, shake, process, vars
  <2>2. \A i \in At' : i \in At /\ line'[i] = line[i]
    BY <2>1 DEF At
  <2> QED BY <1>0, <2>1, <2>2, HandshakeKept
<1>4. CASE Connect
  <2>1. stage = "closed" /\ stage' = "greeting" /\ asking' = "hello" /\ UNCHANGED << due, line >>
    BY <1>4 DEF Connect
  <2>2. due = NoFrame /\ line = << >>
    BY <1>0, <2>1, DueStage DEF HandshakeOrder
  <2>3. NoShakes' /\ asking' \in Expected'
    BY <2>1, <2>2 DEF NoShakes, At, Expected
  <2> QED BY <2>1, <2>2, <2>3, HandshakeIdle
<1>5. CASE Greeted \/ Away \/ Loaded \/ Listed \/ Reattached
  <2>1. due' = NoFrame /\ UNCHANGED << vibe, line >> /\ due.t \in { "hello", "away", "loaded", "roster" }
    BY <1>5 DEF Greeted, Away, Loaded, Listed, Reattached, HandshakeFrame
  <2>2. due # NoFrame
    BY <2>1, ConstantTypes
  <2>3. NoShakes /\ asking = "none"
    BY <1>0, <2>2 DEF HandshakeOrder, NoShakes
  <2>4. NoShakes'
    BY <2>1, <2>3 DEF NoShakes, At
  <2>5. /\ asking' = "none" \/ asking' \in Expected'
        /\ stage' # "closed" /\ (stage' = "listing" => Grok')
    BY <1>5, <2>3 DEF Greeted, Away, Loaded, Listed, Reattached, HandshakeFrame, Expected, Grok
  <2> QED BY <2>1, <2>4, <2>5, HandshakeIdle
<1>6. CASE Disconnected \/ Exits \/ Restart
  <2>1. CASE Close
    <3>1. stage' = "closed" /\ asking' = "none" /\ due' = NoFrame /\ line' = << >>
      BY <2>1 DEF Close
    <3>2. NoShakes'
      BY <3>1 DEF NoShakes, At
    <3> QED BY <3>1, <3>2, HandshakeIdle
  <2>2. CASE ExitsUnheard
    <3>1. stage = "closed" /\ UNCHANGED << stage, asking, due, line >>
      BY <2>2 DEF ExitsUnheard
    <3>2. asking = "none" /\ due = NoFrame /\ line = << >>
      BY <1>0, <3>1, DueStage DEF HandshakeOrder
    <3>3. NoShakes'
      BY <3>1, <3>2 DEF NoShakes, At
    <3> QED BY <3>1, <3>2, <3>3, HandshakeIdle
  <2> QED BY <1>6, <2>1, <2>2, ExitsCases DEF Disconnected, Restart, ExitsHeard
<1> QED BY <1>1, <1>2, <1>3, <1>4, <1>5, <1>6 DEF Next, Backend

-----------------------------------------------------------------------------
(***************************************************************************)
(* What the roster said stays true of what comes after it.                 *)
(***************************************************************************)

\* A step of the process other than an answer to the handshake, or to a prompt it refuses.
Works == Begins \/ OwnWake \/ PrintsContent \/ Ends

\* What Grok's process adds to the line is of the prompt that runs.
LEMMA WorksPrints ==
  ASSUME TypeOK, HandshakeOrder, Works
  PROVE  /\ \A i \in At : i \in At' /\ line'[i] = line[i]
         /\ \A i \in At' : i \in Nat /\ (i \in At \/ (line'[i].p = run /\ run # None /\ i > Len(line) /\ IsPrompt(line'[i])))
<1>0. run \in Prompts \cup {None} /\ Len(line) \in Nat /\ \A i \in At : i \in Nat
  BY Numbers
<1>1. CASE line' = line
  BY <1>0, <1>1 DEF At
<1>2. \A k \in { "content", "answer", "completed" } :
        Frame(k, run) \in Frames /\ Frame(k, run).p = run /\ IsPrompt(Frame(k, run))
  BY <1>0, ConstantTypes DEF IsPrompt, IsSignal
<1>3. CASE stage # "closed" /\ run # None /\ \E k \in { "content", "answer", "completed" } : Prints(<< Frame(k, run) >>)
  <2>1. PICK k \in { "content", "answer", "completed" } : Prints(<< Frame(k, run) >>)
    BY <1>3
  <2> DEFINE f == Frame(k, run)
  <2>2. f \in Frames /\ f.p = run /\ IsPrompt(f) /\ Prints(<< f >>)
    BY <1>2, <2>1
  <2> HIDE DEF f
  <2> QED BY <1>0, <1>3, <2>2, PrintsOne
<1>4. CASE stage # "closed" /\ run # None /\ \E k, l \in { "content", "answer", "completed" } : Prints(<< Frame(k, run), Frame(l, run) >>)
  <2>1. PICK k, l \in { "content", "answer", "completed" } : Prints(<< Frame(k, run), Frame(l, run) >>)
    BY <1>4
  <2> DEFINE f == Frame(k, run)
             g == Frame(l, run)
  <2>2. f \in Frames /\ f.p = run /\ IsPrompt(f) /\ g \in Frames /\ g.p = run /\ IsPrompt(g) /\ Prints(<< f, g >>)
    BY <1>2, <2>1
  <2> HIDE DEF f, g
  <2> QED BY <1>0, <1>4, <2>2, PrintsTwo
<1>5. CASE Begins \/ OwnWake
  BY <1>1, <1>5 DEF Begins, OwnWake
<1>6. CASE PrintsContent
  BY <1>3, <1>6 DEF PrintsContent
<1>7. CASE Ends
  BY <1>1, <1>3, <1>4, <1>7, PrintsNone DEF Ends
<1> QED BY <1>5, <1>6, <1>7 DEF Works

\* And what becomes of its work.
LEMMA WorksMoves ==
  ASSUME TypeOK, Works
  PROVE  /\ UNCHANGED << vibe, stage, due >> /\ own \subseteq own' /\ done \subseteq done'
         /\ \/ UNCHANGED << run, queue, done, own >>
            \/ run = None /\ queue # << >> /\ run' = Head(queue) /\ queue' = Tail(queue) /\ UNCHANGED << done, own >>
            \/ run = None /\ queue = << >> /\ run' = last + 1 /\ own' = own \cup {last + 1} /\ UNCHANGED << queue, done >>
            \/ run # None /\ run' = None /\ done' = done \cup {run} /\ UNCHANGED << queue, own >>
BY DEF Works, Begins, OwnWake, PrintsContent, Ends, ProcessFrame, process

LEMMA HeardWorks ==
  ASSUME TypeOK, HandshakeOrder, Works, NEW p \in Prompts, p <= last, NEW k \in Nat, k <= Len(line), Heard(p, k)
  PROVE  Heard(p, k)'
<1>0. /\ p \in Nat /\ p # None /\ last \in Nat /\ run \in Nat /\ Len(line) \in Nat /\ \A i \in DOMAIN queue : queue[i] \in Nat
      /\ \A i \in At : line[i].p \in Nat /\ i \in Nat
  <2>1. Len(line) \in Nat /\ None = 0
    BY Numbers
  <2> QED BY <2>1, Numbers
<1>1. \A i \in At' : IsPrompt(line'[i]) => IF i > k THEN line'[i].p >= p ELSE line'[i].p <= p
  <2> TAKE i \in At'
  <2>1. CASE i \in At
    BY <2>1, WorksPrints DEF Heard
  <2>2. CASE line'[i].p = run /\ run # None /\ i > Len(line)
    <3>1. i \in Nat
      BY WorksPrints
    <3> QED BY <1>0, <2>2, <3>1 DEF Heard
  <2> QED BY <2>1, <2>2, WorksPrints
<1>2. \A i \in At' : i < k /\ IsSignal(line'[i]) => line'[i].p < p
  <2> SUFFICES ASSUME NEW i \in At', i < k PROVE i \in At /\ line'[i] = line[i]
    BY DEF Heard
  <2>1. i \in At \/ i > Len(line)
    BY WorksPrints
  <2>2. i \in Nat
    BY WorksPrints
  <2> QED BY <1>0, <2>1, <2>2, WorksPrints
<1>3. CASE UNCHANGED << run, queue, done, own >>
  BY <1>1, <1>2, <1>3 DEF Heard
<1>4. CASE run = None /\ queue # << >> /\ run' = Head(queue) /\ queue' = Tail(queue) /\ UNCHANGED << done, own >>
  <2>1. /\ run' = queue[1] /\ 1 \in DOMAIN queue
        /\ \A i \in DOMAIN queue' : i + 1 \in DOMAIN queue /\ queue'[i] = queue[i + 1]
    BY <1>4, Leaves
  <2> QED BY <1>0, <1>1, <1>2, <1>4, <2>1 DEF Heard
<1>5. CASE run = None /\ queue = << >> /\ run' = last + 1 /\ own' = own \cup {last + 1} /\ UNCHANGED << queue, done >>
  BY <1>0, <1>1, <1>2, <1>5 DEF Heard
<1>6. CASE run # None /\ run' = None /\ done' = done \cup {run} /\ UNCHANGED << queue, own >>
  BY <1>0, <1>1, <1>2, <1>6 DEF Heard
<1> QED BY <1>3, <1>4, <1>5, <1>6, WorksMoves

LEMMA OwnAfterWorks ==
  ASSUME TypeOK, HandshakeOrder, Works, NEW k \in Nat, OwnAfter(k)
  PROVE  OwnAfter(k)'
<1>1. \A i \in At' : i > k /\ IsPrompt(line'[i]) => line'[i].p \in own'
  <2> SUFFICES ASSUME NEW i \in At', i > k, IsPrompt(line'[i]) PROVE line'[i].p \in own'
    OBVIOUS
  <2>1. CASE i \in At
    BY <2>1, WorksPrints, WorksMoves DEF OwnAfter
  <2>2. CASE line'[i].p = run /\ run # None
    BY <2>2, WorksMoves DEF OwnAfter
  <2> QED BY <2>1, <2>2, WorksPrints
<1>2. queue = << >> /\ (run # None => run \in own)
  BY DEF OwnAfter
<1>3. queue' = << >> /\ (run' # None => run' \in own')
  BY <1>2, WorksMoves
<1> QED BY <1>1, <1>3 DEF OwnAfter

\* Reading: the place of the roster moves up.
LEMMA HeardRead ==
  ASSUME TypeOK, line # << >>, line' = Tail(line), UNCHANGED << run, queue, done >>, NEW p, NEW k \in Nat, NEW m \in Nat,
         Heard(p, k), k = m + 1 \/ (k = 0 /\ m = 0)
  PROVE  Heard(p, m)'
<1>1. \A i \in At' : i \in Nat /\ i >= 1 /\ i + 1 \in At /\ line'[i] = line[i + 1]
  BY Moved
<1>2. \A i \in At' : IsPrompt(line'[i]) => IF i > m THEN line'[i].p >= p ELSE line'[i].p <= p
  <2> TAKE i \in At'
  <2>1. IsPrompt(line[i + 1]) => IF i + 1 > k THEN line[i + 1].p >= p ELSE line[i + 1].p <= p
    BY <1>1 DEF Heard
  <2>2. i + 1 > k <=> i > m
    BY <1>1
  <2> QED BY <1>1, <2>1, <2>2
<1>3. \A i \in At' : i < m /\ IsSignal(line'[i]) => line'[i].p < p
  <2> TAKE i \in At'
  <2>1. i + 1 < k /\ IsSignal(line[i + 1]) => line[i + 1].p < p
    BY <1>1 DEF Heard
  <2>2. i < m => i + 1 < k
    BY <1>1
  <2> QED BY <1>1, <2>1, <2>2
<1> QED BY <1>2, <1>3 DEF Heard

LEMMA OwnAfterRead ==
  ASSUME TypeOK, line # << >>, line' = Tail(line), UNCHANGED << run, queue, own >>, NEW k \in Nat, NEW m \in Nat,
         OwnAfter(k), k = m + 1 \/ (k = 0 /\ m = 0)
  PROVE  OwnAfter(m)'
<1>1. \A i \in At' : i \in Nat /\ i >= 1 /\ i + 1 \in At /\ line'[i] = line[i + 1]
  BY Moved
<1>2. \A i \in At' : i > m /\ IsPrompt(line'[i]) => line'[i].p \in own
  <2> TAKE i \in At'
  <2>1. i + 1 > k /\ IsPrompt(line[i + 1]) => line[i + 1].p \in own
    BY <1>1 DEF OwnAfter
  <2>2. i > m => i + 1 > k
    BY <1>1
  <2> QED BY <1>1, <2>1, <2>2
<1> QED BY <1>2 DEF OwnAfter

\* There are rosters only while Grok's handshake is made.
LEMMA RostersVoid ==
  ASSUME HandshakeOrder', vibe' \/ stage' \notin { "listing", "loading" }
  PROVE  Rosters'
<1>1. "roster" \notin Expected' /\ "away" \notin Expected' /\ ~ (Grok' /\ stage' = "loading")
  BY DEF Expected, HandshakeOrder, Grok
<1>2. NoFrame.t \notin { "roster", "away" } /\ "roster" \in Handshakes /\ "away" \in Handshakes
  BY ConstantTypes DEF Handshakes
<1>3. due'.t \notin { "roster", "away" } /\ \A i \in At' : line'[i].t \notin { "roster", "away" }
  BY <1>1, <1>2 DEF HandshakeOrder
<1> QED BY <1>1, <1>3 DEF Rosters

LEMMA InitRosters == Init => Rosters
<1> SUFFICES ASSUME Init PROVE Rosters
  OBVIOUS
<1>1. At = {} /\ due = NoFrame /\ stage = "closed"
  BY DEF Init, At
<1> QED BY <1>1, ConstantTypes DEF Rosters

LEMMA RostersStep ==
  ASSUME Inv, [Next]_vars
  PROVE  Rosters'
<1>0. /\ TypeOK /\ LineOrder /\ FrameSense /\ WorkOrder /\ Holding /\ HandshakeOrder /\ HandshakeOrder' /\ Rosters
      /\ CountedWork /\ TurnState
      /\ run \in Nat /\ None = 0 /\ run \in Prompts \cup {None} /\ queue \in Seq(Prompts) /\ Len(line) \in Nat
  BY LineOrderParts, ProcessOrderParts, Numbers, CountedParts, HandshakeOrderStep DEF Inv
<1>1. \A i \in At : i \in Nat /\ i <= Len(line) /\ i >= 1
  BY <1>0 DEF At, TypeOK
<1>2. CASE AnswersHandshake
  <2> DEFINE current == IF run # None THEN run ELSE IF queue # << >> THEN Head(queue) ELSE None
             frame == IF asking = "roster" THEN Frame(IF holds THEN "roster" ELSE "away", IF holds THEN current ELSE None)
                      ELSE Frame(asking, None)
  <2>1. /\ Prints(<< frame >>) /\ UNCHANGED << vibe, stage, due, run, queue, own, done >> /\ asking # "none"
    BY <1>2 DEF AnswersHandshake, ProcessFrame
  <2>2. stage # "closed" /\ NoShakes /\ due = NoFrame
    BY <1>0, <2>1, DueStage DEF HandshakeOrder, NoShakes
  <2>3. current \in Prompts \cup {None}
    BY <1>0, Numbers
  <2>4. PICK now \in Prompts \cup {None} : now = current
    BY <2>3
  <2>5. PICK f : f = frame
    BY Zenon
  <2>6. /\ f = IF asking = "roster" THEN Frame(IF holds THEN "roster" ELSE "away", IF holds THEN now ELSE None) ELSE Frame(asking, None)
        /\ Prints(<< f >>)
    BY <2>1, <2>4, <2>5
  <2>7. /\ run # None => now = run
        /\ run = None /\ queue # << >> => now = queue[1] /\ 1 \in DOMAIN queue
        /\ run = None /\ queue = << >> => now = None
        /\ run = None /\ queue # << >> => now = Head(queue)
    BY <1>0, <2>4, Numbers
  <2> HIDE DEF current, frame
  <2>8. asking \in { "hello", "roster", "loaded" }
    BY <1>0, <2>1 DEF TypeOK
  <2>9. /\ f \in Frames /\ f.t \notin { "content", "answer", "completed" }
        /\ f.t = "roster" => asking = "roster" /\ holds /\ f.p = now
        /\ f.t = "away" => asking = "roster" /\ ~holds
    <3>1. CASE asking # "roster"
      BY <2>6, <2>8, <3>1, ConstantTypes
    <3>2. CASE asking = "roster" /\ holds
      BY <2>4, <2>6, <3>2, ConstantTypes
    <3>3. CASE asking = "roster" /\ ~holds
      BY <2>6, <3>3, ConstantTypes
    <3> QED BY <3>1, <3>2, <3>3
  <2>10. PICK n \in Nat : n = Len(line) + 1
    BY <1>0
  <2>11. n \in At' /\ line'[n] = f
    BY <1>0, <2>2, <2>6, <2>9, <2>10, PrintsOne
  <2>12. \A i \in At' : i = n \/ (i \in At /\ line'[i] = line[i] /\ i \in Nat /\ i < n)
    BY <1>0, <2>2, <2>6, <2>9, <2>10, PrintsOne
  <2>13. \A i \in At' : line'[i].t \in { "roster", "away" } => i = n
    BY <2>2, <2>12 DEF NoShakes, Handshakes
  <2>14. CASE Grok /\ stage = "loading"
    <3>1. asking # "roster"
      BY <1>0, <2>1, <2>14 DEF HandshakeOrder, Expected
    <3>2. f.t \notin { "roster", "away" }
      BY <2>9, <3>1
    <3>3. \A i \in At' : line'[i].t \notin { "roster", "away" }
      BY <2>11, <2>13, <3>2
    <3>4. OwnAfter(0)
      BY <1>0, <2>14 DEF Rosters
    <3>5. \A i \in At' : i > 0 /\ IsPrompt(line'[i]) => line'[i].p \in own
      BY <2>9, <2>11, <2>12, <3>4 DEF OwnAfter, IsPrompt, IsSignal
    <3>6. OwnAfter(0)'
      BY <2>1, <3>4, <3>5 DEF OwnAfter
    <3>7. due'.t \notin { "roster", "away" }
      BY <2>1, <2>2, ConstantTypes
    <3> QED BY <3>3, <3>6, <3>7 DEF Rosters
  <2>15. CASE ~ (Grok /\ stage = "loading")
    <3>1. due'.t \notin { "roster", "away" } /\ ~ (Grok' /\ stage' = "loading")
      BY <2>1, <2>2, <2>15, ConstantTypes DEF Grok
    <3>2. ASSUME f.t = "roster", f.p # None
          PROVE  Heard(now, n)'
      <4>1. now # None /\ now \in Prompts /\ now \in Nat
        BY <2>9, <3>2, Numbers, <1>0
      <4>2. \A i \in At : IsPrompt(line[i]) => line[i].p <= now /\ (IsSignal(line[i]) => line[i].p < now)
        <5>1. CASE run # None
          BY <1>0, <2>7, <5>1, FramesPast
        <5>2. CASE run = None
          <6>1. now = queue[1] /\ 1 \in DOMAIN queue
            BY <2>7, <4>1, <5>2
          <6>2. \A i \in At : IsPrompt(line[i]) => line[i].p < queue[1] /\ line[i].p \in Nat
            BY <1>0, <6>1, FramesPast, Numbers
          <6> QED BY <4>1, <6>1, <6>2
        <5> QED BY <5>1, <5>2
      <4>3. run # None => run >= now
        BY <1>0, <2>7
      <4>4. \A i \in DOMAIN queue : queue[i] >= now
        <5> TAKE i \in DOMAIN queue
        <5>1. queue[i] \in Nat
          BY <1>0, Numbers
        <5>2. CASE run # None
          BY <1>0, <2>7, <5>1, <5>2 DEF WorkOrder
        <5>3. CASE run = None
          <6>1. now = queue[1] /\ 1 \in DOMAIN queue /\ i \in Nat /\ i >= 1
            BY <1>0, <2>7, <5>3
          <6>2. i = 1 \/ queue[1] < queue[i]
            BY <1>0, <6>1 DEF WorkOrder
          <6> QED BY <4>1, <5>1, <6>1, <6>2
        <5> QED BY <5>2, <5>3
      <4>5. now \in done \/ run = now \/ (run = None /\ queue # << >> /\ Head(queue) = now)
        BY <2>7, <4>1
      <4>6. \A i \in At' : IsPrompt(line'[i]) => IF i > n THEN line'[i].p >= now ELSE line'[i].p <= now
        <5> TAKE i \in At'
        <5>1. CASE i = n
          BY <2>9, <2>11, <5>1 DEF IsPrompt, IsSignal
        <5>2. CASE i \in At /\ line'[i] = line[i] /\ i \in Nat /\ i < n
          BY <2>10, <4>2, <5>2
        <5> QED BY <2>12, <5>1, <5>2
      <4>7. \A i \in At' : i < n /\ IsSignal(line'[i]) => line'[i].p < now
        BY <2>10, <2>12, <4>2 DEF IsPrompt
      <4> QED BY <2>1, <4>3, <4>4, <4>5, <4>6, <4>7 DEF Heard
    <3>3. ASSUME f.t = "away" \/ (f.t = "roster" /\ f.p = None)
          PROVE  OwnAfter(n)'
      <4>1. queue = << >> /\ run = None
        <5>1. CASE f.t = "away"
          <6>1. stage = "listing" /\ ~holds
            BY <1>0, <2>1, <2>9, <5>1 DEF HandshakeOrder, Expected
          <6>2. Grok
            BY <1>0, <6>1 DEF HandshakeOrder
          <6> QED BY <1>0, <6>1, <6>2 DEF Holding
        <5>2. CASE f.t = "roster" /\ f.p = None
          <6>1. now = None
            BY <2>9, <5>2
          <6> QED BY <1>0, <2>7, <6>1, Numbers
        <5> QED BY <3>3, <5>1, <5>2
      <4>2. \A i \in At' : ~ i > n
        BY <2>10, <2>12
      <4> QED BY <2>1, <4>1, <4>2 DEF OwnAfter
    <3>4. ASSUME NEW k \in At', line'[k].t = "roster", line'[k].p # None
          PROVE  Heard(line[k].p, k)'
      <4>1. k = n /\ line'[k].p = now /\ f.t = "roster" /\ f.p # None
        BY <2>9, <2>11, <2>13, <3>4
      <4> QED BY <3>2, <4>1
    <3>5. ASSUME NEW k \in At', line'[k].t = "away" \/ (line'[k].t = "roster" /\ line'[k].p = None)
          PROVE  OwnAfter(k)'
      <4>1. k = n /\ (f.t = "away" \/ (f.t = "roster" /\ f.p = None))
        BY <2>11, <2>13, <3>5
      <4> QED BY <3>3, <4>1
    <3> QED BY <3>1, <3>4, <3>5 DEF Rosters
  <2> QED BY <2>14, <2>15
<1>3. CASE Works
  <2>0. UNCHANGED << vibe, stage, due >>
    BY <1>0, <1>3, WorksMoves
  <2>1. \A k \in At' : line'[k].t \in { "roster", "away" } => k \in At /\ line'[k] = line[k]
    BY <1>0, <1>3, WorksPrints DEF IsPrompt, IsSignal
  <2>2. \A k \in At : line[k].t = "roster" /\ line[k].p # None => line[k].p \in Prompts /\ line[k].p <= last
    BY <1>0, Numbers DEF CountedWork, Frames
  <2>3. ASSUME NEW k \in At', line'[k].t = "roster", line'[k].p # None
        PROVE  Heard(line[k].p, k)'
    <3>1. PICK p \in Prompts : p = line[k].p /\ p <= last /\ p = line'[k].p
      BY <2>1, <2>2, <2>3
    <3>2. Heard(p, k) /\ k \in Nat /\ k <= Len(line)
      BY <1>0, <1>1, <2>1, <2>3, <3>1 DEF Rosters
    <3>3. Heard(p, k)'
      BY <1>0, <1>3, <3>1, <3>2, HeardWorks
    <3> QED BY <3>1, <3>3
  <2>4. ASSUME due'.t = "roster", due'.p # None
        PROVE  Heard(due.p, 0)'
    <3>1. PICK p \in Prompts : p = due.p /\ p <= last /\ p = due'.p
      BY <1>0, <2>0, <2>4 DEF CountedWork, TypeOK, Frames
    <3>2. Heard(p, 0)
      BY <1>0, <2>0, <2>4, <3>1 DEF Rosters
    <3>3. Heard(p, 0)'
      BY <1>0, <1>3, <3>1, <3>2, HeardWorks
    <3> QED BY <3>1, <3>3
  <2>5. ASSUME NEW k \in At', line'[k].t = "away" \/ (line'[k].t = "roster" /\ line'[k].p = None)
        PROVE  OwnAfter(k)'
    BY <1>0, <1>1, <1>3, <2>1, <2>5, OwnAfterWorks DEF Rosters
  <2>6. OwnAfter(0) => OwnAfter(0)'
    BY <1>0, <1>3, OwnAfterWorks
  <2> QED BY <1>0, <2>0, <2>3, <2>4, <2>5, <2>6 DEF Rosters, Grok
<1>4. CASE Refuses
  <2>1. vibe'
    BY <1>0, <1>4 DEF Refuses, Holding, Grok, ProcessFrame
  <2> QED BY <1>0, <2>1, RostersVoid
<1>5. CASE Read
  <2>1. /\ UNCHANGED << vibe, stage, run, queue, own, done >> /\ line # << >> /\ line' = Tail(line)
        /\ Head(line).t \in Handshakes => due' = Head(line)
        /\ Head(line).t \notin Handshakes => due' = due
    BY <1>0, <1>5, ReadKeeps DEF Pops, process
  <2>2. \A i \in At' : i \in Nat /\ i >= 1 /\ i + 1 \in At /\ line'[i] = line[i + 1] /\ i + 1 \in Nat
    BY <1>0, <2>1, Moved
  <2>3. Head(line) = line[1] /\ 1 \in At
    BY <1>0, <2>1, Moved
  <2>4. ASSUME NEW k \in At', line'[k].t = "roster", line'[k].p # None
        PROVE  Heard(line[k].p, k)'
    <3>1. \E p : p = line[k + 1].p /\ p = line'[k].p
      BY <2>2
    <3>2. PICK p : p = line[k + 1].p /\ p = line'[k].p
      BY <3>1
    <3>3. Heard(p, k + 1)
      BY <1>0, <2>2, <2>4, <3>2 DEF Rosters
    <3>4. Heard(p, k)'
      BY <1>0, <2>1, <2>2, <3>3, HeardRead
    <3> QED BY <3>2, <3>4
  <2>5. ASSUME due'.t = "roster", due'.p # None
        PROVE  Heard(due.p, 0)'
    <3>1. \E p : p = due'.p
      OBVIOUS
    <3>2. PICK p : p = due'.p
      BY <3>1
    <3>3. Heard(p, 0) \/ Heard(p, 1)
      <4>1. CASE due' = line[1]
        BY <1>0, <2>3, <2>5, <3>2, <4>1 DEF Rosters
      <4>2. CASE due' = due
        BY <1>0, <2>5, <3>2, <4>2 DEF Rosters
      <4> QED BY <2>1, <2>3, <4>1, <4>2
    <3>4. Heard(p, 0)'
      BY <1>0, <2>1, <3>3, HeardRead
    <3> QED BY <3>2, <3>4
  <2>6. ASSUME NEW k \in At', line'[k].t = "away" \/ (line'[k].t = "roster" /\ line'[k].p = None)
        PROVE  OwnAfter(k)'
    <3>1. OwnAfter(k + 1)
      BY <1>0, <2>2, <2>6 DEF Rosters
    <3> QED BY <1>0, <2>1, <2>2, <3>1, OwnAfterRead
  <2>7. ASSUME due'.t = "away" \/ (due'.t = "roster" /\ due'.p = None)
        PROVE  OwnAfter(0)'
    <3>1. OwnAfter(0) \/ OwnAfter(1)
      <4>1. CASE due' = line[1]
        BY <1>0, <2>3, <2>7, <4>1 DEF Rosters
      <4>2. CASE due' = due
        BY <1>0, <2>7, <4>2 DEF Rosters
      <4> QED BY <2>1, <2>3, <4>1, <4>2
    <3> QED BY <1>0, <2>1, <3>1, OwnAfterRead
  <2>8. ASSUME Grok', stage' = "loading"
        PROVE  OwnAfter(0)'
    <3>1. OwnAfter(0)
      BY <1>0, <2>1, <2>8 DEF Rosters, Grok
    <3> QED BY <1>0, <2>1, <3>1, OwnAfterRead
  <2> QED BY <2>4, <2>5, <2>6, <2>7, <2>8 DEF Rosters
<1>6. CASE SendWrites \/ Connect \/ Cuts \/ ExitsUnheard
  <2>1. stage' \notin { "listing", "loading" }
    <3>1. CASE SendWrites
      BY <1>0, <3>1, ConstantTypes DEF SendWrites, SessionFrame, shake, TurnState
    <3>2. CASE Connect \/ Cuts \/ ExitsUnheard
      BY <3>2 DEF Connect, Cuts, Close, ExitsUnheard
    <3> QED BY <1>6, <3>1, <3>2
  <2> QED BY <1>0, <2>1, RostersVoid
<1>7. CASE Calm
  <2>1. /\ UNCHANGED << vibe, queue, run, own, done, line >> /\ due' \in { due, NoFrame }
        /\ stage' = "loading" => stage = "loading" \/ vibe \/ due.t = "away"
    BY <1>7 DEF Calm
  <2>2. \A p, k : Heard(p, k) => Heard(p, k)'
    BY <2>1 DEF Heard, At
  <2>3. \A k : OwnAfter(k) => OwnAfter(k)'
    BY <2>1 DEF OwnAfter, At
  <2>4. At' = At
    BY <2>1 DEF At
  <2>5. \A k \in At' : line'[k].t = "roster" /\ line'[k].p # None => Heard(line[k].p, k)'
    <3> SUFFICES ASSUME NEW k \in At', line'[k].t = "roster", line'[k].p # None, NEW p, p = line[k].p, p = line'[k].p
                 PROVE  Heard(p, k)'
      BY <2>1
    <3> QED BY <1>0, <2>1, <2>2, <2>4 DEF Rosters
  <2>6. due'.t = "roster" /\ due'.p # None => Heard(due.p, 0)'
    <3> SUFFICES ASSUME due'.t = "roster", due'.p # None, NEW p, p = due'.p
                 PROVE  Heard(p, 0)'
      OBVIOUS
    <3>1. due' = due
      BY <2>1, ConstantTypes
    <3> QED BY <1>0, <2>2, <3>1 DEF Rosters
  <2>7. \A k \in At' : line'[k].t = "away" \/ (line'[k].t = "roster" /\ line'[k].p = None) => OwnAfter(k)'
    BY <1>0, <2>1, <2>3, <2>4 DEF Rosters
  <2>8. due'.t = "away" \/ (due'.t = "roster" /\ due'.p = None) => OwnAfter(0)'
    BY <1>0, <2>1, <2>3, ConstantTypes DEF Rosters
  <2>9. Grok' /\ stage' = "loading" => OwnAfter(0)'
    BY <1>0, <2>1, <2>3 DEF Rosters, Grok
  <2> QED BY <2>5, <2>6, <2>7, <2>8, <2>9 DEF Rosters
<1> QED BY <1>2, <1>3, <1>4, <1>5, <1>6, <1>7, WireCases DEF Process, Works

-----------------------------------------------------------------------------
(***************************************************************************)
(* Turns, records and stages.                                              *)
(***************************************************************************)
TurnStages ==
    /\ stage \in { "closed", "greeting", "loading" } => active = NoTurn
    /\ stage \in { "closed", "greeting" } => finished = {}
    /\ stage # "ready" => mine = {} /\ sending = NotSending
    /\ Grok /\ ~holds => active = NoTurn
    /\ active.timer => stage = "ready"
    /\ stage = "ready" /\ active = NoTurn => record = NoRecord
TurnSends ==
    /\ sending # NotSending => active = NoTurn
    /\ sending.s = "no" => sending = NotSending
    /\ sending.s = "preparing" => sending.p = None
    /\ sending.s = "written" => sending.p \in mine /\ \A t \in Turns : of[t] # sending.p
TurnRecords ==
    /\ active # NoTurn => record = NoRecord \/ record.turn = active.turn
    /\ Grok /\ active # NoTurn /\ record = NoRecord => of[active.turn] \in own \cup silent
    /\ Grok => bound = None
    /\ vibe => finished = {}
    /\ vibe /\ record.turn # None => of[record.turn] = record.prompt /\ record.prompt # None
    /\ active.user => ~active.stray /\ of[active.turn] \in mine /\ bound = None
    /\ bound # None => active # NoTurn /\ of[active.turn] = bound /\ bound \notin mine

LEMMA TurnStateParts ==
  (TurnState <=> TurnStages /\ TurnSends /\ TurnRecords) /\ (TurnState' <=> TurnStages' /\ TurnSends' /\ TurnRecords')
BY DEF TurnState, TurnStages, TurnSends, TurnRecords

LEMMA InitTurnState == Init => TurnState
BY ConstantTypes DEF Init, TurnState

\* Nothing of it changes, but what the process has and begins by itself.
LEMMA TurnStateKept ==
  ASSUME TurnState, UNCHANGED << vibe, stage, active, bound, finished, record, of, sending, mine >>, own \subseteq own', silent \subseteq silent',
         holds => holds' \/ active = NoTurn
  PROVE  TurnState'
BY DEF TurnState, Grok

\* No turn is in flight, and nothing is sent.
LEMMA TurnStateOff ==
  ASSUME active' = NoTurn, bound' = None, sending' = NotSending,
         stage' \in { "closed", "greeting" } => finished' = {}, stage' # "ready" => mine' = {}, stage' = "ready" => record' = NoRecord,
         vibe' => finished' = {}, vibe' /\ record'.turn # None => of'[record'.turn] = record'.prompt /\ record'.prompt # None
  PROVE  TurnState'
BY ConstantTypes DEF TurnState

\* A turn begins, or goes on, which nobody here asked for.
LEMMA TurnStateAdopts ==
  ASSUME active' # NoTurn, ~active'.user, ~active'.timer, sending' = NotSending, stage' \in { "listing", "ready" },
         stage' # "ready" => mine' = {}, Grok' => holds', Grok' => bound' = None, vibe' => finished' = {},
         vibe' \/ of'[active'.turn] \in own' \cup silent' \/ record' # NoRecord, record' = NoRecord \/ record'.turn = active'.turn,
         vibe' /\ record'.turn # None => of'[record'.turn] = record'.prompt /\ record'.prompt # None,
         bound' = None \/ (of'[active'.turn] = bound' /\ bound' \notin mine')
  PROVE  TurnState'
BY ConstantTypes DEF TurnState, Grok

\* Grok's roster names nobody, but content opened a turn: it is of a wake of Grok's own, or
\* of a prompt that failed since.
LEMMA ListedOwn ==
  ASSUME TypeOK, HandshakeOrder, Rosters, Listing, EndsCome, due.t = "roster", due.p = None, active # NoTurn
  PROVE  of[active.turn] \in own \cup silent
<1>1. stage = "listing" /\ Grok
  BY DueStage DEF HandshakeOrder
<1>2. active.prompt # None /\ active.prompt = of[active.turn] /\ ~active.stray /\ ~active.user
  BY <1>1 DEF Listing
<1>3. InProcess(active.prompt) \/ Printed("completed", active.prompt) \/ active.prompt \in silent
  BY <1>1, <1>2 DEF EndsCome, Completing, WaitedFor
<1>4. OwnAfter(0)
  BY DEF Rosters
<1>5. \A i \in At : line[i].t = "completed" => line[i].p \in own
  <2>1. \A i \in At : i > 0
    BY Numbers DEF At
  <2> QED BY <1>4, <2>1 DEF OwnAfter, IsPrompt, IsSignal
<1>6. InProcess(active.prompt) => active.prompt \in own
  BY <1>2, <1>4 DEF OwnAfter, InProcess, Waits
<1> QED BY <1>2, <1>3, <1>5, <1>6 DEF Printed

LEMMA TurnStateStep ==
  ASSUME Inv, [Next]_vars
  PROVE  TurnState'
<1>0. /\ TypeOK /\ LineOrder /\ Holding /\ HandshakeOrder /\ TurnState /\ Told /\ CountedTurns /\ last \in Nat /\ turns \in Nat
  BY ProcessOrderParts, CountedParts, Numbers DEF Inv
<1>1. TurnStages /\ TurnSends /\ TurnRecords
  BY <1>0, TurnStateParts
<1>2. CASE Process
  <2>1. UNCHANGED << vibe, stage, active, bound, finished, record, of, sending, mine >>
    BY <1>2 DEF Process, AnswersHandshake, Begins, OwnWake, PrintsContent, Ends, Refuses, ProcessFrame, session, client, history
  <2>2. own \subseteq own' /\ silent \subseteq silent' /\ (holds => holds')
    <3>1. CASE AnswersHandshake
      <4>1. holds' = (holds \/ asking = "loaded") /\ own' = own /\ silent' = silent
        BY <3>1 DEF AnswersHandshake
      <4> QED BY <4>1
    <3>2. CASE Begins \/ OwnWake \/ PrintsContent \/ Ends \/ Refuses
      BY <3>2 DEF Begins, OwnWake, PrintsContent, Ends, Refuses, process
    <3> QED BY <1>2, <3>1, <3>2 DEF Process
  <2> QED BY <1>0, <2>1, <2>2, TurnStateKept
<1>3. ASSUME NEW by \in Prompts \cup {None}, NEW names \in SUBSET Prompts, Finalizes(by, names),
             UNCHANGED << vibe, stage, sending, mine >>
      PROVE  TurnState'
  <2>1. active # NoTurn /\ active' = NoTurn /\ bound' = None /\ record' = NoRecord /\ (vibe => finished' = {})
    BY <1>3 DEF Finalizes, Finalize
  <2>2. sending = NotSending /\ stage \notin { "closed", "greeting" } /\ (stage # "ready" => mine = {})
    BY <1>1, <2>1 DEF TurnStages, TurnSends
  <2> QED BY <1>3, <2>1, <2>2, ConstantTypes, TurnStateOff
<1>4. CASE Read
  <2>0. UNCHANGED << vibe, stage, sending, mine, own, silent, holds >>
    BY <1>0, <1>4, ReadKeeps DEF Pops, process
  <2>1. CASE ReadHandshake \/ ReadAnswer \/ ReadQuiet
    <3>1. UNCHANGED << active, bound, finished, record, of >>
      BY <2>1 DEF ReadHandshake, ReadAnswer, ReadQuiet, session, history
    <3> QED BY <1>0, <2>0, <3>1, TurnStateKept
  <2>2. CASE ReadNames
    <3>1. UNCHANGED << bound, finished, record, of >> /\ active # NoTurn /\ active' = [ active EXCEPT !.prompt = Head(line).p ]
      BY <2>2 DEF ReadNames, history
    <3>2. active \in ActiveType /\ active.turn # None
      BY <1>0, <3>1 DEF Told, TypeOK, ActiveType
    <3>3. /\ active'.turn = active.turn /\ active'.user = active.user /\ active'.timer = active.timer /\ active'.stray = active.stray
      BY <3>1, <3>2 DEF ActiveType
    <3>4. active' # NoTurn
      BY <3>2, <3>3, ConstantTypes
    <3>5. TurnStages'
      BY <1>1, <2>0, <3>1, <3>3, <3>4 DEF TurnStages, Grok
    <3>6. TurnSends'
      BY <1>1, <2>0, <3>1 DEF TurnSends
    <3>7. TurnRecords'
      BY <1>1, <2>0, <3>1, <3>3, <3>4 DEF TurnRecords, Grok
    <3> QED BY <3>5, <3>6, <3>7, TurnStateParts
  <2>3. CASE ReadOpens
    <3>1. /\ stage \in { "listing", "ready" } /\ active = NoTurn /\ sending.s = "no" /\ Head(line).t = "content" /\ line # << >>
      BY <1>0, <2>3 DEF ReadOpens, Pops, Unheard, TypeOK
    <3>2. /\ active' = [ NoTurn EXCEPT !.turn = turns + 1, !.prompt = IF vibe THEN None ELSE Head(line).p,
                                      !.stray = vibe \/ Head(line).p \in finished ]
          /\ record' = IF vibe THEN record ELSE [ NoRecord EXCEPT !.turn = turns + 1 ]
          /\ UNCHANGED << bound, finished >>
      BY <1>0, <2>3, ReadOpensType
    <3>3. active'.turn = turns + 1 /\ ~active'.user /\ ~active'.timer /\ active' # NoTurn
      <4>1. active'.turn = turns + 1 /\ ~active'.user /\ ~active'.timer
        BY <3>2, Zenon DEF NoTurn
      <4> QED BY <1>0, <4>1, ConstantTypes DEF None
    <3>4. sending = NotSending /\ bound = None /\ (stage # "ready" => mine = {}) /\ (vibe => finished = {})
      BY <1>1, <3>1 DEF TurnStages, TurnSends, TurnRecords
    <3>5. Grok => holds
      <4>1. IsPrompt(line[1]) /\ 1 \in At
        BY <1>0, <3>1, Numbers DEF IsPrompt, At
      <4> QED BY <1>0, <4>1 DEF Holding
    <3>6. CASE Grok
      <4>1. record'.turn = turns + 1 /\ record' # NoRecord
        <5>1. record'.turn = turns + 1
          BY <3>2, <3>6 DEF Grok, NoRecord
        <5> QED BY <1>0, <5>1, ConstantTypes DEF None
      <4> QED BY <2>0, <3>1, <3>2, <3>3, <3>4, <3>5, <3>6, <4>1, TurnStateAdopts DEF Grok
    <3>7. CASE ~Grok
      <4>1. record' = NoRecord /\ stage = "ready" /\ vibe
        <5>1. stage # "listing"
          BY <1>0, <3>7 DEF HandshakeOrder
        <5> QED BY <1>1, <3>1, <3>2, <3>7, <5>1 DEF TurnStages, Grok
      <4> QED BY <2>0, <3>1, <3>2, <3>3, <3>4, <3>7, <4>1, ConstantTypes, TurnStateAdopts DEF Grok
    <3> QED BY <3>6, <3>7
  <2>4. CASE ReadEnds
    <3>1. Head(line).p \in Prompts \cup {None} /\ line # << >>
      BY <1>0, <2>4, Moved DEF ReadEnds, Pops, Frames
    <3>2. PICK p \in Prompts \cup {None} : p = Head(line).p
      BY <3>1
    <3>3. {p} \in SUBSET Prompts
      BY <1>0, <2>4, <3>1, <3>2, Moved DEF ReadEnds, Pops, LineOrder, Handshakes, IsSignal
    <3>4. Finalizes(p, {p})
      BY <2>4, <3>2 DEF ReadEnds, Finalizes, EndsActive
    <3> QED BY <1>3, <2>0, <3>3, <3>4
  <2> QED BY <1>0, <1>4, <2>1, <2>2, <2>3, <2>4, ReadCases
<1>5. ASSUME NEW p \in Prompts, Settle(p)
      PROVE  TurnState'
  <2>1. UNCHANGED << vibe, stage, sending, mine, own, silent, holds >>
    BY <1>5 DEF Settle, process, shake
  <2>2. CASE SettleEnds(p)
    <3>1. Finalizes(p, {p} \ failed)
      BY <2>2, ConstantTypes DEF SettleEnds, Finalizes, bounds
    <3> QED BY <1>3, <2>1, <3>1
  <2>3. CASE SettleQuiet(p)
    <3>1. UNCHANGED << active, bound, finished, record, of >>
      BY <2>3 DEF SettleQuiet, session, history
    <3> QED BY <1>0, <2>1, <3>1, TurnStateKept
  <2> QED BY <1>5, <2>2, <2>3, SettleCases
<1>6. CASE SendBegins \/ SendFails
  <2>1. /\ UNCHANGED << vibe, stage, active, bound, finished, record, of, mine, own, silent, holds >>
        /\ sending' = NotSending \/ (sending' = [ NotSending EXCEPT !.s = "preparing" ] /\ active = NoTurn /\ stage = "ready")
    BY <1>6 DEF SendBegins, SendFails, SessionFrame, shake, session, history, process
  <2>2. \/ sending'.s = "no" /\ sending' = NotSending
        \/ sending'.s = "preparing" /\ sending'.p = None /\ active = NoTurn /\ stage = "ready"
    BY <2>1 DEF NotSending
  <2>3. TurnStages'
    BY <1>1, <2>1, <2>2 DEF TurnStages, Grok
  <2>4. TurnSends' /\ TurnRecords'
    BY <1>1, <2>1, <2>2 DEF TurnSends, TurnRecords, Grok
  <2> QED BY <2>3, <2>4, TurnStateParts
<1>7. CASE SendWrites
  <2>1. /\ UNCHANGED << vibe, stage, active, bound, finished, record, of, own, silent, holds >>
        /\ sending.s = "preparing" /\ mine' = mine \cup {last + 1} /\ sending'.s = "written" /\ sending'.p = last + 1
    BY <1>7 DEF SendWrites, SessionFrame, shake, session, history
  <2>2. sending # NotSending /\ active = NoTurn /\ stage = "ready" /\ bound = None
    BY <1>1, <2>1, ConstantTypes DEF TurnStages, TurnSends, TurnRecords
  <2>3. \A t \in Turns : of[t] # last + 1
    <3>1. \A t \in Turns : of[t] \in Nat /\ of[t] <= last
      BY <1>0, Numbers DEF CountedTurns
    <3> QED BY <1>0, <3>1
  <2>4. TurnStages'
    BY <1>1, <2>1, <2>2 DEF TurnStages, Grok
  <2>5. TurnSends'
    BY <2>1, <2>2, <2>3 DEF TurnSends
  <2>6. TurnRecords'
    BY <1>1, <2>1, <2>2, ConstantTypes DEF TurnRecords, Grok
  <2> QED BY <2>4, <2>5, <2>6, TurnStateParts
<1>8. CASE SendConfirmed
  <2>1. /\ UNCHANGED << vibe, stage, bound, finished, mine, own, holds >> /\ sending' = NotSending /\ sending.s = "written"
        /\ turns < MaxTurns /\ turns' = turns + 1 /\ active' = [ [ NoTurn EXCEPT !.user = TRUE ] EXCEPT !.turn = turns + 1 ]
        /\ of' = [ of EXCEPT ![turns + 1] = sending.p ]
        /\ record' = [ turn |-> turns + 1, prompt |-> sending.p, base |-> sending.base ]
    BY <1>8 DEF SendConfirmed, SessionFrame, shake, BeginTurn, process
  <2>2. active'.turn = turns + 1 /\ active'.user = TRUE /\ active'.timer = FALSE /\ active'.stray = FALSE
    BY <2>1, Zenon DEF NoTurn
  <2>3. active' # NoTurn /\ sending # NotSending /\ turns + 1 \in Turns
    <3>1. turns + 1 \in Turns
      BY <1>0, <2>1, BoundAssumption DEF Turns
    <3> QED BY <2>1, <2>2, <3>1, ConstantTypes
  <2>4. of'[turns + 1] = sending.p /\ record'.turn = turns + 1 /\ record'.prompt = sending.p /\ record' # NoRecord
    <3>1. of'[turns + 1] = sending.p /\ record'.turn = turns + 1 /\ record'.prompt = sending.p
      BY <1>0, <2>1, <2>3 DEF TypeOK
    <3> QED BY <1>0, <3>1, ConstantTypes DEF None
  <2>5. active = NoTurn /\ stage = "ready" /\ sending.p \in mine /\ bound = None
    BY <1>1, <2>1, <2>3 DEF TurnStages, TurnSends, TurnRecords
  <2>6. sending.p # None /\ (Grok => holds)
    BY <1>0, <2>5, ConstantTypes DEF TypeOK, Holding
  <2>7. TurnStages'
    BY <1>1, <2>1, <2>3, <2>5, <2>6 DEF TurnStages, Grok
  <2>8. TurnSends'
    BY <2>1, ConstantTypes DEF TurnSends
  <2>9. TurnRecords'
    BY <1>1, <2>1, <2>2, <2>3, <2>4, <2>5, <2>6 DEF TurnRecords, Grok
  <2> QED BY <2>7, <2>8, <2>9, TurnStateParts
<1>9. CASE Interrupt
  <2>1. /\ UNCHANGED << vibe, stage, sending, mine, own, silent, holds, bound, finished, record, of >>
        /\ stage = "ready" /\ active # NoTurn /\ active' = [ active EXCEPT !.timer = TRUE ]
    BY <1>9 DEF Interrupt, SessionFrame, shake, client, process, history
  <2>2. active \in ActiveType /\ active.turn # None
    BY <1>0, <2>1 DEF Told, TypeOK, ActiveType
  <2>3. /\ active'.turn = active.turn /\ active'.user = active.user /\ active'.stray = active.stray
    BY <2>1, <2>2 DEF ActiveType
  <2>4. active' # NoTurn
    BY <2>2, <2>3, ConstantTypes
  <2>5. TurnStages'
    BY <1>1, <2>1, <2>3, <2>4 DEF TurnStages, Grok
  <2>6. TurnSends'
    BY <1>1, <2>1 DEF TurnSends
  <2>7. TurnRecords'
    BY <1>1, <2>1, <2>3, <2>4 DEF TurnRecords, Grok
  <2> QED BY <2>5, <2>6, <2>7, TurnStateParts
<1>10. CASE GraceExpires
  <2>1. UNCHANGED << vibe, stage, sending, mine >> /\ Finalizes(None, {})
    BY <1>10, ConstantTypes DEF GraceExpires, SessionFrame, shake, client, Finalizes
  <2> QED BY <1>3, <2>1
<1>11. CASE Connect
  <2>1. /\ stage = "closed" /\ stage' = "greeting" /\ UNCHANGED << vibe, active, bound, finished, of, sending, mine >>
        /\ record' \in { record, NoRecord }
    BY <1>11 DEF Connect, client, history
  <2>2. active = NoTurn /\ finished = {} /\ mine = {} /\ sending = NotSending /\ bound = None
    BY <1>1, <2>1 DEF TurnStages, TurnRecords
  <2>3. vibe /\ record'.turn # None => of[record'.turn] = record'.prompt /\ record'.prompt # None
    BY <1>1, <2>1, ConstantTypes DEF TurnRecords
  <2> QED BY <2>1, <2>2, <2>3, TurnStateOff
<1>12. CASE Greeted \/ Away \/ Loaded
  <2>1. /\ UNCHANGED << vibe, active, bound, finished, of, sending, mine, holds >> /\ due.t \in { "hello", "away", "loaded" }
        /\ \/ stage' \in { "loading", "listing" } /\ record' = record
           \/ stage' = "ready" /\ record' = NoRecord
    BY <1>12 DEF Greeted, Away, Loaded, HandshakeFrame, process, client, session, history
  <2>2. stage # "ready" /\ stage # "closed"
    BY <1>0, <2>1, DueStage
  <2>3. active = NoTurn
    <3>1. CASE due.t \in { "hello", "loaded" }
      BY <1>0, <1>1, <3>1, DueStage DEF TurnStages
    <3>2. CASE due.t = "away"
      <4>1. Grok /\ ~holds
        BY <1>0, <3>2, DueStage DEF HandshakeOrder
      <4> QED BY <1>1, <4>1 DEF TurnStages
    <3> QED BY <2>1, <3>1, <3>2
  <2>4. mine = {} /\ sending = NotSending /\ bound = None /\ (vibe => finished = {})
    BY <1>1, <2>2, <2>3 DEF TurnStages, TurnRecords
  <2>5. vibe /\ record'.turn # None => of[record'.turn] = record'.prompt /\ record'.prompt # None
    BY <1>1, <2>1, ConstantTypes DEF TurnRecords
  <2>6. active' = NoTurn /\ bound' = None /\ sending' = NotSending /\ mine' = {} /\ vibe' = vibe /\ of' = of /\ finished' = finished
    BY <2>1, <2>3, <2>4
  <2> QED BY <2>1, <2>4, <2>5, <2>6, TurnStateOff
<1>13. CASE Listed
  <2>1. /\ UNCHANGED << vibe, holds, own, silent, sending, mine, bound, finished >> /\ stage' = "ready" /\ due.t = "roster"
    BY <1>13 DEF Listed, HandshakeFrame, process, client
  <2>2. stage = "listing" /\ Grok /\ holds
    BY <1>0, <2>1, DueStage DEF HandshakeOrder
  <2>3. mine = {} /\ sending = NotSending /\ bound = None
    BY <1>1, <2>2 DEF TurnStages, TurnRecords
  <2>4. CASE ListedTakes \/ ListedMoves \/ ListedOpens
    <3>1. \E t \in Turns : /\ active' = [ NoTurn EXCEPT !.turn = t, !.stray = ~Awaited(due.p, "completed") ]
                           /\ record' = [ NoRecord EXCEPT !.turn = t ]
      <4>1. ListedOpens => turns + 1 \in Turns
        BY <1>0, BoundAssumption DEF ListedOpens, Turns
      <4>2. record.turn # None => record.turn \in Turns
        BY <1>0 DEF TypeOK
      <4> QED BY <2>4, <4>1, <4>2, Zenon DEF ListedTakes, ListedMoves, ListedOpens
    <3>2. PICK t \in Turns : /\ active' = [ NoTurn EXCEPT !.turn = t, !.stray = ~Awaited(due.p, "completed") ]
                             /\ record' = [ NoRecord EXCEPT !.turn = t ]
      BY <3>1
    <3>3. active'.turn = t /\ ~active'.user /\ ~active'.timer /\ record'.turn = t
      BY <3>2, Zenon DEF NoTurn, NoRecord
    <3>4. active' # NoTurn /\ record' # NoRecord
      BY <3>3, ConstantTypes
    <3> QED BY <2>1, <2>2, <2>3, <3>3, <3>4, TurnStateAdopts DEF Grok
  <2>5. CASE ListedKeeps \/ (ListedDrops /\ active # NoTurn)
    <3>1. active # NoTurn /\ UNCHANGED << active, of >> /\ record' \in { record, NoRecord }
      BY <2>5 DEF ListedKeeps, ListedDrops
    <3>2. ~active.user /\ ~active.timer
      BY <1>1, <2>2, <3>1 DEF TurnStages, Inv, Listing
    <3>3. record' # NoRecord \/ of[active.turn] \in own \cup silent
      <4>1. CASE ListedKeeps
        BY <1>1, <2>2, <3>1, <4>1 DEF ListedKeeps, TurnRecords
      <4>2. CASE ListedDrops
        BY <1>0, <2>1, <3>1, <4>2, ListedOwn DEF Inv, ListedDrops
      <4> QED BY <2>5, <4>1, <4>2
    <3>4. record' = NoRecord \/ record'.turn = active.turn
      BY <1>1, <3>1 DEF TurnRecords
    <3> QED BY <2>1, <2>2, <2>3, <3>1, <3>2, <3>3, <3>4, TurnStateAdopts DEF Grok
  <2>6. CASE ListedDrops /\ active = NoTurn
    BY <2>1, <2>2, <2>3, <2>6, ConstantTypes, TurnStateOff DEF ListedDrops, Grok
  <2> QED BY <1>0, <1>13, <2>4, <2>5, <2>6, ListedCases
<1>14. CASE Reattached
  <2>1. /\ UNCHANGED << vibe, holds, own, sending, mine, finished >> /\ stage' = "ready" /\ due.t = "hello" /\ vibe
    BY <1>14 DEF Reattached, HandshakeFrame, process, client
  <2>2. stage = "greeting"
    BY <1>0, <2>1, DueStage
  <2>3. mine = {} /\ sending = NotSending /\ bound = None /\ active = NoTurn /\ finished = {}
    BY <1>1, <2>2 DEF TurnStages, TurnRecords
  <2>4. CASE (ReattachedSettled /\ active' = NoTurn) \/ ReattachedHeard
    <3>1. active' = NoTurn /\ record' = NoRecord /\ bound' = None
      BY <2>3, <2>4 DEF ReattachedSettled, ReattachedHeard
    <3> QED BY <2>1, <2>3, <3>1, ConstantTypes, TurnStateOff
  <2>5. CASE ReattachedSettled /\ active' # NoTurn
    <3>1. record' = NoRecord /\ bound' = None /\ OpenHeld
      BY <2>3, <2>5 DEF ReattachedSettled
    <3>2. active' = [ NoTurn EXCEPT !.turn = turns + 1, !.stray = TRUE ]
      BY <1>0, <2>5, <3>1, OpensHeld
    <3>3. ~active'.user /\ ~active'.timer
      BY <3>2, Zenon DEF NoTurn
    <3> QED BY <2>1, <2>3, <2>5, <3>1, <3>3, ConstantTypes, TurnStateAdopts DEF Grok
  <2>6. CASE ReattachedAdopts
    <3>1. /\ active' = [ NoTurn EXCEPT !.turn = record.turn, !.stray = ~Awaited(record.prompt, "answer") ]
          /\ bound' = record.prompt /\ UNCHANGED << of, record >> /\ record # NoRecord
      BY <2>6 DEF ReattachedAdopts
    <3>2. active'.turn = record.turn /\ ~active'.user /\ ~active'.timer
      BY <3>1, Zenon DEF NoTurn
    <3>3. record.turn # None /\ of[record.turn] = record.prompt /\ record.prompt # None
      BY <1>0, <1>1, <2>1, <3>1 DEF Told, TurnRecords
    <3>4. active' # NoTurn
      BY <3>2, <3>3, ConstantTypes
    <3> QED BY <2>1, <2>3, <3>1, <3>2, <3>3, <3>4, TurnStateAdopts DEF Grok
  <2> QED BY <1>0, <1>14, <2>4, <2>5, <2>6, ReattachedCases
<1>15. CASE Disconnected \/ Restart \/ ExitsHeard
  <2>1. /\ stage' = "closed" /\ sending' = NotSending /\ mine' = {} /\ active' = NoTurn /\ bound' = None /\ finished' = {}
        /\ UNCHANGED << vibe, of >> /\ record' \in { record, NoRecord }
    BY <1>15, DisconnectedCases DEF Disconnected, LostTurn, LostIdle, Restart, ExitsHeard, Close
  <2>2. vibe /\ record'.turn # None => of[record'.turn] = record'.prompt /\ record'.prompt # None
    BY <1>1, <2>1, ConstantTypes DEF TurnRecords
  <2> QED BY <2>1, <2>2, TurnStateOff
<1>16. CASE ExitsUnheard \/ UNCHANGED vars
  <2>1. UNCHANGED << vibe, stage, active, bound, finished, record, of, sending, mine, own, silent >> /\ (holds' = holds \/ stage = "closed")
    BY <1>16 DEF ExitsUnheard, session, client, vars, process, history, shake
  <2>2. holds => holds' \/ active = NoTurn
    BY <1>1, <2>1 DEF TurnStages
  <2> QED BY <1>0, <2>1, <2>2, TurnStateKept
<1> QED BY <1>2, <1>4, <1>5, <1>6, <1>7, <1>8, <1>9, <1>10, <1>11, <1>12, <1>13, <1>14, <1>15, <1>16, ExitsCases DEF Next, Backend

-----------------------------------------------------------------------------
(***************************************************************************)
(* Turns while Grok lists its sessions.                                    *)
(***************************************************************************)
LEMMA InitListing == Init => Listing
BY DEF Init, Listing, FinishedPast

\* What was noted as finished stays past while the process works.
LEMMA FinishedStaysPast ==
  ASSUME TypeOK, FinishedPast, WorkOrder, UNCHANGED finished, done \subseteq done',
         \A i \in At' : line'[i].t = "content" => (line'[i].p = run /\ run # None) \/ \E j \in At : line[j] = line'[i]
  PROVE  FinishedPast'
<1>0. run \in Nat /\ None = 0
  BY Numbers
<1>1. \A x \in finished : run # None => run > x
  BY <1>0 DEF FinishedPast, WorkOrder
<1> QED BY <1>1 DEF FinishedPast

LEMMA FinishedPastProcess ==
  ASSUME TypeOK, FinishedPast, WorkOrder, Holding, HandshakeOrder, Process, stage # "closed"
  PROVE  FinishedPast'
<1>0. turns \in Nat /\ run \in Nat /\ None = 0 /\ done \subseteq Prompts
  BY Numbers DEF TypeOK
<1>1. UNCHANGED finished
  BY DEF Process, AnswersHandshake, Begins, OwnWake, PrintsContent, Ends, Refuses, ProcessFrame, session
<1>2. CASE AnswersHandshake
  <2> DEFINE current == IF run # None THEN run ELSE IF queue # << >> THEN Head(queue) ELSE None
             frame == IF asking = "roster" THEN Frame(IF holds THEN "roster" ELSE "away", IF holds THEN current ELSE None)
                      ELSE Frame(asking, None)
  <2>1. /\ Prints(<< frame >>) /\ UNCHANGED done
    BY <1>2 DEF AnswersHandshake
  <2>2. frame \in Frames /\ frame.t # "content"
    <3>1. current \in Prompts \cup {None}
      BY Numbers
    <3>2. asking \in { "none", "hello", "roster", "loaded" }
      BY DEF TypeOK
    <3> HIDE DEF current
    <3> QED BY <3>1, <3>2, ConstantTypes
  <2> HIDE DEF frame
  <2>3. \A i \in At' : line'[i].t = "content" => i \in At /\ line[i] = line'[i]
    BY <2>1, <2>2, PrintsOne
  <2> QED BY <1>1, <2>1, <2>3, FinishedStaysPast
<1>3. CASE Works
  <2>1. \A i \in At' : (line'[i].p = run /\ run # None) \/ \E j \in At : line[j] = line'[i]
    BY <1>3, WorksPrints
  <2> QED BY <1>1, <1>3, <2>1, WorksMoves, FinishedStaysPast
<1>4. CASE Refuses
  <2>1. done \subseteq done' /\ queue # << >> /\ Prints(<< Frame("answer", Head(queue)) >>)
    BY <1>4 DEF Refuses
  <2>2. Frame("answer", Head(queue)) \in Frames /\ Frame("answer", Head(queue)).t = "answer"
    BY <2>1, Numbers, ConstantTypes
  <2>3. \A i \in At' : line'[i].t = "content" => i \in At /\ line[i] = line'[i]
    BY <2>1, <2>2, PrintsOne
  <2> QED BY <1>1, <2>1, <2>3, FinishedStaysPast
<1> QED BY <1>2, <1>3, <1>4 DEF Process, Works

LEMMA ListingStep ==
  ASSUME Inv, [Next]_vars
  PROVE  Listing'
<1>0. /\ TypeOK /\ LineOrder /\ FrameSense /\ FrameOrder /\ WorkOrder /\ Holding /\ HandshakeOrder /\ TurnState /\ Listing /\ Told
      /\ turns \in Nat /\ run \in Nat /\ None = 0 /\ done \subseteq Prompts
  BY LineOrderParts, ProcessOrderParts, Numbers DEF Inv, TypeOK
<1>1. TurnStages /\ TurnSends /\ TurnRecords
  BY <1>0, TurnStateParts
<1>2. SUFFICES ASSUME stage' = "listing" PROVE Listing'
  BY DEF Listing, FinishedPast
<1>3. ASSUME UNCHANGED << stage, active, of >>, Listing => FinishedPast'
      PROVE  Listing'
  BY <1>0, <1>2, <1>3 DEF Listing
<1>4. CASE Process
  <2>1. UNCHANGED << stage, active, of >>
    BY <1>4 DEF Process, AnswersHandshake, Begins, OwnWake, PrintsContent, Ends, Refuses, ProcessFrame, session, history
  <2>2. FinishedPast'
    BY <1>0, <1>2, <1>4, <2>1, FinishedPastProcess DEF Listing
  <2> QED BY <1>3, <2>1, <2>2
<1>7. CASE Read
  <2>0. UNCHANGED << vibe, stage, done >> /\ line # << >> /\ line' = Tail(line)
    BY <1>0, <1>7, ReadKeeps DEF Pops, process
  <2>1. \A i \in At' : i \in Nat /\ i >= 1 /\ i + 1 \in At /\ line'[i] = line[i + 1]
    BY <1>0, <2>0, Moved
  <2>2. Head(line) = line[1] /\ 1 \in At
    BY <1>0, <2>0, Moved
  <2>3. Grok
    BY <1>0, <1>2, <2>0 DEF HandshakeOrder
  <2>4. CASE ReadHandshake \/ ReadAnswer \/ ReadQuiet
    <3>1. UNCHANGED << active, of, finished >>
      BY <2>4 DEF ReadHandshake, ReadAnswer, ReadQuiet, session, history
    <3>2. FinishedPast'
      <4>1. UNCHANGED << finished, done >> /\ \A i \in At' : \E j \in At : line[j] = line'[i]
        BY <2>0, <2>1, <3>1
      <4> QED BY <1>0, <1>2, <2>0, <4>1, FinishedStaysPast DEF Listing
    <3> QED BY <1>3, <2>0, <3>1, <3>2
  <2>5. CASE ReadNames
    BY <1>0, <1>2, <2>0, <2>5 DEF ReadNames, Listing, FinishedPast
  <2>6. CASE ReadOpens
    <3>1. Head(line).t = "content"
      BY <2>6 DEF ReadOpens
    <3>2. /\ active' = [ NoTurn EXCEPT !.turn = turns + 1, !.prompt = IF vibe THEN None ELSE Head(line).p,
                                      !.stray = vibe \/ Head(line).p \in finished ]
          /\ of' = [ of EXCEPT ![turns + 1] = Head(line).p ] /\ turns + 1 \in Turns
          /\ UNCHANGED finished
      BY <1>0, <2>6, ReadOpensType
    <3>3. Head(line).p \notin finished
      <4>1. \A x \in finished : Head(line).p > x /\ x \in Nat
        BY <1>0, <1>2, <2>0, <2>2, <3>1, Numbers DEF Listing, FinishedPast
      <4>2. ~ (Head(line).p > Head(line).p) \/ Head(line).p \notin Nat
        OBVIOUS
      <4> QED BY <4>1, <4>2
    <3>4. Head(line).p # None
      BY <1>0, <2>2, <3>1 DEF FrameSense, Handshakes
    <3>5. active'.turn = turns + 1 /\ active'.prompt = Head(line).p /\ ~active'.user /\ ~active'.stray
      <4>1. active' = [ NoTurn EXCEPT !.turn = turns + 1, !.prompt = Head(line).p, !.stray = FALSE ]
        BY <2>3, <3>2, <3>3 DEF Grok
      <4> QED BY <4>1, Zenon DEF NoTurn
    <3>6. of'[turns + 1] = Head(line).p
      BY <1>0, <3>2 DEF TypeOK
    <3>7. \A x \in finished' : x \in done' /\ \A i \in At' : line'[i].t = "content" => line'[i].p > x
      BY <1>0, <1>2, <2>0, <2>1, <3>2 DEF Listing, FinishedPast
    <3> QED BY <1>2, <3>4, <3>5, <3>6, <3>7 DEF Listing, FinishedPast
  <2>7. CASE ReadEnds
    <3>1. IsSignal(Head(line)) /\ EndsActive(Head(line).p) /\ Finalize(Head(line).p, {Head(line).p})
      BY <2>7 DEF ReadEnds
    <3>2. active.prompt = Head(line).p
      BY <1>0, <1>2, <2>0, <2>3, <3>1 DEF EndsActive, Listing, FinishedPast, Grok
    <3>3. finished' \subseteq finished \cup {Head(line).p} /\ active' = NoTurn
      BY <2>3, <3>1, <3>2 DEF Finalize, Grok
    <3>4. Head(line).p \in done
      BY <1>0, <2>2, <3>1 DEF FrameSense
    <3>5. \A i \in At' : line'[i].t = "content" => line'[i].p > Head(line).p
      <4> SUFFICES ASSUME NEW i \in At', line'[i].t = "content" PROVE line'[i].p > Head(line).p
        OBVIOUS
      <4>1. line[1].p < line[i + 1].p
        BY <1>0, <2>1, <2>2, <3>1 DEF FrameOrder, IsPrompt
      <4> QED BY <2>1, <2>2, <4>1, <1>0, Numbers
    <3>6. \A x \in finished' : x \in done' /\ \A i \in At' : line'[i].t = "content" => line'[i].p > x
      <4>1. \A x \in finished : x \in done' /\ \A i \in At' : line'[i].t = "content" => line'[i].p > x
        BY <1>0, <1>2, <2>0, <2>1 DEF Listing, FinishedPast
      <4> QED BY <2>0, <3>3, <3>4, <3>5, <4>1
    <3> QED BY <3>3, <3>6 DEF Listing, FinishedPast
  <2> QED BY <1>0, <1>7, <2>4, <2>5, <2>6, <2>7, ReadCases
<1>8. ~ \E p \in Prompts : Settle(p)
  <2> SUFFICES ASSUME NEW p \in Prompts, Settle(p) PROVE FALSE
    OBVIOUS
  <2>1. stage = "listing" /\ p \in mine
    BY <1>0, <1>2 DEF Settle, shake, TypeOK
  <2> QED BY <1>1, <2>1 DEF TurnStages
<1>9. ~ SendBegins /\ ~ SendFails /\ ~ SendWrites /\ ~ SendConfirmed /\ ~ Interrupt /\ ~ GraceExpires
  <2>1. SendBegins \/ SendFails \/ SendWrites \/ SendConfirmed \/ Interrupt \/ GraceExpires => stage = "listing"
    BY <1>2 DEF SendBegins, SendFails, SendWrites, SendConfirmed, Interrupt, GraceExpires, SessionFrame, shake
  <2>2. stage = "listing" => sending = NotSending /\ ~active.timer
    BY <1>1 DEF TurnStages
  <2> QED BY <2>1, <2>2, ConstantTypes DEF SendBegins, SendFails, SendWrites, SendConfirmed, Interrupt, GraceExpires
<1>10. CASE Greeted
  <2>1. stage = "greeting" /\ UNCHANGED << active, finished >>
    BY <1>0, <1>10, DueStage DEF Greeted, session
  <2> QED BY <1>1, <2>1 DEF Listing, FinishedPast, TurnStages
<1>11. ~ (Connect \/ Away \/ Loaded \/ Listed \/ Reattached)
  BY <1>2 DEF Connect, Away, Loaded, Listed, Reattached
<1>12. ~ (Disconnected \/ Restart \/ ExitsHeard \/ ExitsUnheard)
  BY <1>2 DEF Disconnected, Restart, ExitsHeard, ExitsUnheard, Close
<1>13. CASE UNCHANGED vars
  BY <1>0, <1>2, <1>13 DEF vars, session, history, process, shake, Listing, FinishedPast, At
<1> QED BY <1>4, <1>7, <1>8, <1>9, <1>10, <1>11, <1>12, <1>13, ExitsCases DEF Next, Backend

-----------------------------------------------------------------------------
(***************************************************************************)
(* The ends that are to come.                                              *)
(***************************************************************************)
AnswersCome ==
    /\ answered \subseteq done
    /\ active.user => Answerable(of[active.turn])
    /\ sending.s = "written" => Answerable(sending.p)
RecordRuns ==
    record.turn # None =>
        of[record.turn] # None /\ (alive => of[record.turn] \in done \/ InProcess(of[record.turn]))
BoundCome ==
    vibe /\ active # NoTurn /\ ~active.user /\ ~active.stray =>
        bound # None /\ (InProcess(bound) \/ Printed("answer", bound))
NamedCome ==
    Grok /\ active # NoTurn /\ ~active.user /\ ~active.stray =>
        Completing(WaitedFor) /\ (active.prompt = None => FinishedPast)

LEMMA EndsComeParts ==
  (EndsCome <=> AnswersCome /\ RecordRuns /\ BoundCome /\ NamedCome) /\ (EndsCome' <=> AnswersCome' /\ RecordRuns' /\ BoundCome' /\ NamedCome')
BY DEF EndsCome, AnswersCome, RecordRuns, BoundCome, NamedCome

LEMMA InitEndsCome == Init => EndsCome
BY ConstantTypes DEF Init, EndsCome

\* What is in the line stays there until it is read.
LEMMA LineStays ==
  ASSUME TypeOK, HandshakeOrder, Process
  PROVE  /\ \A i \in At : i \in At' /\ line'[i] = line[i]
         /\ \A k, p : Printed(k, p) => Printed(k, p)'
<1>1. \A i \in At : i \in At' /\ line'[i] = line[i]
  <2>1. CASE line' = line
    BY <2>1 DEF At
  <2>2. CASE stage # "closed" /\ \E f \in Frames : Prints(<< f >>)
    BY <2>2, PrintsOne
  <2>3. CASE AnswersHandshake
    <3> DEFINE current == IF run # None THEN run ELSE IF queue # << >> THEN Head(queue) ELSE None
               frame == IF asking = "roster" THEN Frame(IF holds THEN "roster" ELSE "away", IF holds THEN current ELSE None)
                        ELSE Frame(asking, None)
    <3>1. stage # "closed" /\ Prints(<< frame >>)
      BY <2>3, DueStage DEF AnswersHandshake
    <3>2. frame \in Frames
      <4>1. current \in Prompts \cup {None}
        BY Numbers
      <4>2. asking \in { "none", "hello", "roster", "loaded" }
        BY DEF TypeOK
      <4> HIDE DEF current
      <4> QED BY <4>1, <4>2, ConstantTypes
    <3> HIDE DEF frame
    <3> QED BY <2>2, <3>1, <3>2
  <2>4. CASE Works
    BY <2>4, WorksPrints
  <2>5. CASE Refuses
    <3>1. Frame("answer", Head(queue)) \in Frames /\ Prints(<< Frame("answer", Head(queue)) >>)
      BY <2>5, Numbers, ConstantTypes DEF Refuses
    <3> QED BY <2>1, <2>2, <3>1, PrintsNone
  <2> QED BY <2>3, <2>4, <2>5 DEF Process, Works
<1> QED BY <1>1 DEF Printed

LEMMA PrintedRead ==
  ASSUME TypeOK, line # << >>, line' = Tail(line), NEW k, NEW q, Printed(k, q), Head(line).t # k \/ Head(line).p # q
  PROVE  Printed(k, q)'
<1>1. Head(line) = line[1] /\ \A i \in At : i = 1 \/ (i - 1 \in At' /\ line'[i - 1] = line[i])
  BY Moved
<1>2. PICK i \in At : line[i].t = k /\ line[i].p = q
  BY DEF Printed
<1>3. i # 1
  BY <1>1, <1>2
<1> QED BY <1>1, <1>2, <1>3 DEF Printed

\* The prompt that runs ends, and the process says so.
LEMMA EndsPrints ==
  ASSUME TypeOK, Ends, stage # "closed", NEW p \in Prompts, p = run
  PROVE  /\ vibe \/ p \notin own => Printed("answer", p)'
         /\ ~vibe => Printed("completed", p)' \/ p \in silent'
<1>1. \A k \in { "answer", "completed" } : Frame(k, p) \in Frames /\ Frame(k, p).t = k /\ Frame(k, p).p = p
  BY ConstantTypes
<1>2. ASSUME NEW k \in { "answer", "completed" }, Prints(<< Frame(k, p) >>)
      PROVE  Printed(k, p)'
  BY <1>1, <1>2, PrintsOne DEF Printed
<1>3. ASSUME NEW k \in { "answer", "completed" }, NEW l \in { "answer", "completed" }, Prints(<< Frame(k, p), Frame(l, p) >>)
      PROVE  Printed(k, p)' /\ Printed(l, p)'
  BY <1>1, <1>3, PrintsTwo DEF Printed
<1>4. \/ vibe /\ Prints(<< Frame("answer", p) >>)
      \/ ~vibe /\ p \in own /\ Prints(<< Frame("completed", p) >>)
      \/ ~vibe /\ p \notin own /\ Prints(<< Frame("completed", p), Frame("answer", p) >>)
      \/ ~vibe /\ p \notin own /\ Prints(<< Frame("answer", p), Frame("completed", p) >>)
      \/ ~vibe /\ p \notin own /\ Prints(<< Frame("answer", p) >>) /\ p \in silent'
  BY DEF Ends, Hearing
<1> QED BY <1>2, <1>3, <1>4

\* A prompt that is to be answered is answered.
LEMMA InProcessMoves ==
  ASSUME TypeOK, WorkOrder, Holding, Process, NEW p \in Prompts, InProcess(p)
  PROVE  \/ InProcess(p)'
         \/ /\ p \in done'
            /\ stage # "closed" /\ (vibe \/ p \notin own) => Printed("answer", p)'
            /\ stage # "closed" /\ ~vibe => Printed("completed", p)' \/ p \in silent'
<1>0. p # None
  BY Numbers
<1>1. CASE UNCHANGED << run, queue >>
  BY <1>1 DEF InProcess, Waits
<1>2. CASE Begins
  <2>1. run' = queue[1] /\ run = None /\ \A i \in DOMAIN queue : i = 1 \/ (i - 1 \in DOMAIN queue' /\ queue'[i - 1] = queue[i])
    BY <1>2, Leaves DEF Begins
  <2>2. PICK i \in DOMAIN queue : queue[i] = p
    BY <1>0, <2>1 DEF InProcess, Waits
  <2> QED BY <2>1, <2>2 DEF InProcess, Waits
<1>3. CASE OwnWake
  BY <1>0, <1>3 DEF OwnWake, InProcess, Waits
<1>4. CASE Ends
  <2>1. CASE p = run
    BY <1>4, <2>1, EndsPrints DEF Ends
  <2>2. CASE Waits(p)
    BY <1>4, <2>2 DEF Ends, InProcess, Waits
  <2> QED BY <2>1, <2>2 DEF InProcess
<1>5. CASE Refuses
  <2>1. /\ run' = run /\ done' = done \cup {Head(queue)} /\ Head(queue) = queue[1] /\ Prints(<< Frame("answer", Head(queue)) >>)
        /\ \A i \in DOMAIN queue : i = 1 \/ (i - 1 \in DOMAIN queue' /\ queue'[i - 1] = queue[i])
    BY <1>5, Leaves DEF Refuses
  <2>2. CASE p = run
    BY <2>1, <2>2 DEF InProcess
  <2>3. CASE p # queue[1] /\ Waits(p)
    BY <2>1, <2>3 DEF InProcess, Waits
  <2>4. CASE p = queue[1]
    <3>1. p \in done' /\ Prints(<< Frame("answer", p) >>)
      BY <2>1, <2>4
    <3>2. Frame("answer", p) \in Frames /\ Frame("answer", p).t = "answer" /\ Frame("answer", p).p = p
      BY ConstantTypes
    <3>3. stage # "closed" => Printed("answer", p)'
      BY <3>1, <3>2, PrintsOne DEF Printed
    <3>4. stage # "closed" /\ ~vibe => p \in silent'
      BY <1>5, <2>1, <2>4 DEF Refuses, Hearing
    <3> QED BY <3>1, <3>3, <3>4
  <2> QED BY <2>2, <2>3, <2>4 DEF InProcess
<1>6. CASE AnswersHandshake \/ PrintsContent
  BY <1>1, <1>6 DEF AnswersHandshake, PrintsContent, process
<1> QED BY <1>2, <1>3, <1>4, <1>5, <1>6 DEF Process

LEMMA AnswerableMoves ==
  ASSUME TypeOK, WorkOrder, Holding, HandshakeOrder, Process, stage # "closed", NEW p \in Prompts, vibe \/ p \notin own, Answerable(p)
  PROVE  Answerable(p)'
<1>1. answered' = answered
  BY DEF Process, AnswersHandshake, Begins, OwnWake, PrintsContent, Ends, Refuses, ProcessFrame, client
<1>2. InProcess(p) => InProcess(p)' \/ Printed("answer", p)'
  BY InProcessMoves
<1>3. Printed("answer", p) => Printed("answer", p)'
  BY LineStays
<1> QED BY <1>1, <1>2, <1>3 DEF Answerable

\* The completion of a prompt is said, or never will be.
LEMMA CompletingMoves ==
  ASSUME TypeOK, WorkOrder, Holding, HandshakeOrder, Process, stage # "closed", Grok, NEW p \in Prompts, Completing(p)
  PROVE  Completing(p)'
<1>1. finished' = finished /\ silent \subseteq silent'
  BY DEF Process, AnswersHandshake, Begins, OwnWake, PrintsContent, Ends, Refuses, ProcessFrame, session, process
<1>2. Printed("completed", p) => Printed("completed", p)'
  BY LineStays
<1>3. InProcess(p) => InProcess(p)' \/ Printed("completed", p)' \/ p \in silent'
  BY InProcessMoves DEF Grok
<1> QED BY <1>1, <1>2, <1>3 DEF Completing

\* With no turn there is only the record to keep.
LEMMA EndsComeOff ==
  ASSUME active' = NoTurn, sending'.s # "written", answered' \subseteq done', RecordRuns'
  PROVE  EndsCome'
BY EndsComeParts, ConstantTypes DEF AnswersCome, BoundCome, NamedCome

\* The record of a turn stays good while nothing is taken from the process.
LEMMA RecordRunsKept ==
  ASSUME RecordRuns, UNCHANGED << of, run, queue, done >>, record' \in { record, NoRecord }, alive' => alive
  PROVE  RecordRuns'
<1>1. CASE record' = NoRecord
  BY <1>1, ConstantTypes DEF RecordRuns
<1>2. CASE record' = record
  BY <1>2 DEF RecordRuns, InProcess, Waits
<1> QED BY <1>1, <1>2

\* So do all the ends while nothing happens to the turn and to the line.
LEMMA EndsComeKept ==
  ASSUME EndsCome, UNCHANGED << vibe, run, queue, done, silent, alive, line, answered, sending, finished, bound, of >>,
         record' \in { record, NoRecord },
         active'.user = active.user, active'.stray = active.stray, active'.prompt = active.prompt, active'.turn = active.turn,
         active' # NoTurn => active # NoTurn
  PROVE  EndsCome'
<1>1. RecordRuns'
  BY EndsComeParts, RecordRunsKept
<1>2. \A k, q : Printed(k, q)' <=> Printed(k, q)
  BY DEF Printed, At
<1>3. \A q : (InProcess(q)' <=> InProcess(q)) /\ (Answerable(q)' <=> Answerable(q))
  BY <1>2 DEF Answerable, InProcess, Waits
<1>4. AnswersCome'
  BY <1>3, EndsComeParts DEF AnswersCome
<1>5. BoundCome'
  BY <1>2, <1>3, EndsComeParts DEF BoundCome
<1>6. (FinishedPast' <=> FinishedPast) /\ WaitedFor' = WaitedFor /\ \A q : Completing(q)' <=> Completing(q)
  BY <1>2, <1>3 DEF FinishedPast, WaitedFor, Completing, At
<1>7. NamedCome'
  BY <1>6, EndsComeParts DEF NamedCome, Grok
<1> QED BY <1>1, <1>4, <1>5, <1>7, EndsComeParts

LEMMA EndsComeProcessStep ==
  ASSUME Inv, Process
  PROVE  EndsCome'
<1>0. /\ TypeOK /\ FrameSense /\ HandshakeOrder /\ TurnStages /\ TurnSends /\ TurnRecords /\ Listing /\ Told
      /\ WorkOrder /\ Holding /\ AnswersCome /\ RecordRuns /\ BoundCome /\ NamedCome
  BY LineOrderParts, TurnStateParts, ProcessOrderParts, EndsComeParts DEF Inv
<1>1. /\ UNCHANGED << vibe, stage, active, bound, finished, record, of, sending, mine, answered, alive >> /\ done \subseteq done'
      /\ own \subseteq own'
  BY DEF Process, AnswersHandshake, Begins, OwnWake, PrintsContent, Ends, Refuses, ProcessFrame, session, client, history, process
<1>2. \A k, q : Printed(k, q) => Printed(k, q)'
  BY <1>0, LineStays
<1>3. \A q \in mine : Answerable(q) => Answerable(q)'
  <2> TAKE q \in mine
  <2>1. q \in Prompts /\ q \notin own /\ stage # "closed"
    BY <1>0 DEF TypeOK, WorkOrder, TurnStages, TurnSends
  <2> QED BY <1>0, <2>1, AnswerableMoves
<1>4. AnswersCome'
  <2>1. active.user => of[active.turn] \in mine
    BY <1>0 DEF TurnRecords
  <2>2. sending.s = "written" => sending.p \in mine
    BY <1>0 DEF TurnSends
  <2> QED BY <1>0, <1>1, <1>3, <2>1, <2>2 DEF AnswersCome
<1>5. RecordRuns'
  <2> SUFFICES ASSUME record.turn # None PROVE RecordRuns'
    BY <1>1 DEF RecordRuns
  <2>1. of[record.turn] \in Prompts /\ (alive => of[record.turn] \in done \/ InProcess(of[record.turn]))
    BY <1>0 DEF RecordRuns, TypeOK
  <2> PICK q \in Prompts : q = of[record.turn]
    BY <2>1
  <2>2. InProcess(q) => InProcess(q)' \/ q \in done'
    BY <1>0, InProcessMoves
  <2>3. of'[record'.turn] = q /\ (alive' => q \in done' \/ InProcess(q)')
    BY <1>1, <2>1, <2>2
  <2> QED BY <1>0, <2>1, <2>3, Numbers DEF RecordRuns, InProcess, Waits
<1>6. BoundCome'
  <2>1. active # NoTurn => stage # "closed"
    BY <1>0 DEF TurnStages
  <2>2. bound # None => bound \in Prompts
    BY <1>0 DEF TypeOK
  <2> QED BY <1>0, <1>1, <1>2, <2>1, <2>2, InProcessMoves DEF BoundCome
<1>7. NamedCome'
  <2> SUFFICES ASSUME Grok, active # NoTurn, ~active.user, ~active.stray
               PROVE  NamedCome'
    BY <1>1 DEF NamedCome, Grok
  <2>1. stage # "closed"
    BY <1>0 DEF TurnStages
  <2>2. Completing(WaitedFor) /\ (active.prompt = None => FinishedPast) /\ WaitedFor' = WaitedFor
    BY <1>0, <1>1 DEF NamedCome, WaitedFor
  <2> PICK q \in Prompts : q = WaitedFor
    BY <2>2 DEF Completing
  <2>3. Completing(q)'
    BY <1>0, <2>1, <2>2, CompletingMoves
  <2>4. active.prompt = None => FinishedPast'
    BY <1>0, <2>1, <2>2, FinishedPastProcess
  <2> QED BY <1>1, <2>2, <2>3, <2>4 DEF NamedCome
<1> QED BY <1>4, <1>5, <1>6, <1>7, EndsComeParts

LEMMA AnswerableRead ==
  ASSUME TypeOK, HandshakeOrder, ReadHandshake \/ ReadAnswer \/ ReadQuiet \/ ReadNames \/ ReadOpens \/ ReadEnds,
         NEW q \in mine, Answerable(q)
  PROVE  Answerable(q)'
<1>1. /\ line # << >> /\ line' = Tail(line) /\ UNCHANGED << run, queue >> /\ answered \subseteq answered'
      /\ Head(line).t = "answer" /\ Head(line).p = q => q \in answered'
  BY DEF ReadHandshake, ReadAnswer, ReadQuiet, ReadNames, ReadOpens, ReadEnds, Pops, process, Handshakes, IsSignal
<1>2. Printed("answer", q) => Printed("answer", q)' \/ q \in answered'
  BY <1>1, PrintedRead
<1>3. InProcess(q) => InProcess(q)'
  BY <1>1 DEF InProcess, Waits
<1> QED BY <1>1, <1>2, <1>3 DEF Answerable

LEMMA EndsComeReadStep ==
  ASSUME Inv, Read
  PROVE  EndsCome'
<1>0. /\ TypeOK /\ FrameSense /\ FrameOrder /\ Completes /\ HandshakeOrder /\ TurnStages /\ TurnSends /\ TurnRecords /\ Told
      /\ WorkOrder /\ AnswersCome /\ RecordRuns /\ BoundCome /\ NamedCome
  BY LineOrderParts, TurnStateParts, ProcessOrderParts, EndsComeParts DEF Inv
<1> PICK f \in Frames : f = Head(line)
  BY <1>0, ReadKeeps, Moved DEF Inv, Pops
<1>1. /\ UNCHANGED << vibe, alive, run, queue, own, done, silent, stage, sending, mine >> /\ line # << >> /\ line' = Tail(line)
      /\ answered' = answered \/ (f.t = "answer" /\ f.p \in mine /\ answered' = answered \cup {f.p})
  BY <1>0, ReadKeeps DEF Inv, Pops, process
<1>2. ReadHandshake \/ ReadAnswer \/ ReadQuiet \/ ReadNames \/ ReadOpens \/ ReadEnds
  BY ReadCases DEF Inv
<1>3. 1 \in At /\ f = line[1]
  BY <1>0, <1>1, Moved
<1>4. \A i \in At' : i + 1 \in At /\ line'[i] = line[i + 1]
  BY <1>0, <1>1, Moved
<1>5. \A q \in mine : Answerable(q) => Answerable(q)'
  BY <1>0, <1>2, AnswerableRead
<1>6. \A k, q : Printed(k, q) /\ (f.t # k \/ f.p # q) => Printed(k, q)'
  BY <1>0, <1>1, PrintedRead
<1>7. answered' \subseteq done' /\ (sending.s = "written" => Answerable(sending.p)')
  <2>1. IsSignal(f) => f.p \in done
    BY <1>0, <1>3 DEF FrameSense
  <2>2. sending.s = "written" => sending.p \in mine
    BY <1>0 DEF TurnSends
  <2> QED BY <1>0, <1>1, <1>5, <2>1, <2>2 DEF AnswersCome, IsSignal
<1>8. \A q : (InProcess(q) => InProcess(q)') /\ (Completing(q) /\ UNCHANGED finished /\ (f.t # "completed" \/ f.p # q) => Completing(q)')
  BY <1>1, <1>6 DEF Completing, InProcess, Waits
<1>9. CASE ReadHandshake \/ ReadAnswer \/ ReadQuiet
  <2>1. UNCHANGED << active, bound, finished, record, of >>
    BY <1>9 DEF ReadHandshake, ReadAnswer, ReadQuiet, session, history
  <2>2. AnswersCome'
    <3>1. active.user => of[active.turn] \in mine
      BY <1>0 DEF TurnRecords
    <3> QED BY <1>0, <1>1, <1>5, <1>7, <2>1, <3>1 DEF AnswersCome
  <2>3. RecordRuns'
    BY <1>0, <1>1, <2>1, RecordRunsKept
  <2>4. IsSignal(f) => (ReadAnswer /\ f.t = "answer" /\ f.p \in mine) \/ Unheard \/ ~Tells(f) \/ ~EndsActive(f.p)
    BY <1>9 DEF ReadHandshake, ReadAnswer, ReadQuiet, Handshakes, IsSignal
  <2>5. Unheard => active = NoTurn
    BY <1>0 DEF Unheard, TurnStages
  <2>6. BoundCome'
    <3> SUFFICES ASSUME vibe, active # NoTurn, ~active.user, ~active.stray PROVE BoundCome'
      BY <1>1, <2>1 DEF BoundCome
    <3>1. bound # None /\ (InProcess(bound) \/ Printed("answer", bound)) /\ bound \notin mine
      BY <1>0 DEF BoundCome, TurnRecords
    <3> PICK b : b = bound
      OBVIOUS
    <3>2. InProcess(b) => InProcess(b)'
      BY <1>1 DEF InProcess, Waits
    <3>3. f.t # "answer" \/ f.p # b
      BY <2>4, <2>5, <3>1 DEF EndsActive, Tells, IsSignal
    <3>4. Printed("answer", b) => Printed("answer", b)'
      BY <1>6, <3>3
    <3> QED BY <2>1, <3>1, <3>2, <3>4 DEF BoundCome
  <2>7. NamedCome'
    <3> SUFFICES ASSUME Grok, active # NoTurn, ~active.user, ~active.stray PROVE NamedCome'
      BY <1>1, <2>1 DEF NamedCome, Grok
    <3>1. f.t = "completed" => ~EndsActive(f.p)
      BY <2>4, <2>5 DEF IsSignal, Tells
    <3>2. Completing(WaitedFor) /\ (active.prompt = None => FinishedPast) /\ WaitedFor' = WaitedFor
      BY <1>0, <2>1 DEF NamedCome, WaitedFor
    <3> PICK q : q = WaitedFor
      OBVIOUS
    <3>3. f.t # "completed" \/ f.p # q
      BY <3>1, <3>2 DEF EndsActive, Completing, WaitedFor, Grok
    <3>4. Completing(q)'
      BY <1>8, <2>1, <3>2, <3>3
    <3>5. active.prompt = None => FinishedPast'
      BY <1>0, <1>1, <1>4, <2>1, <3>2, FinishedStaysPast
    <3> QED BY <2>1, <3>2, <3>4, <3>5 DEF NamedCome
  <2> QED BY <2>2, <2>3, <2>6, <2>7, EndsComeParts
<1>10. CASE ReadNames
  <2>1. /\ Grok /\ active # NoTurn /\ active.prompt = None /\ f.t = "content" /\ active' = [ active EXCEPT !.prompt = f.p ]
        /\ UNCHANGED << bound, finished, record, of, answered >>
    BY <1>10 DEF ReadNames, history
  <2>2. active'.user = active.user /\ active'.stray = active.stray /\ active'.prompt = f.p /\ active'.turn = active.turn
    <3>1. active \in ActiveType
      BY <1>0 DEF TypeOK, ActiveType
    <3> QED BY <2>1, <3>1 DEF ActiveType
  <2>3. AnswersCome'
    <3>1. active.user => of[active.turn] \in mine
      BY <1>0 DEF TurnRecords
    <3> QED BY <1>0, <1>1, <1>5, <1>7, <2>1, <2>2, <3>1 DEF AnswersCome
  <2>4. NamedCome'
    <3>0. SUFFICES ASSUME ~active.user, ~active.stray PROVE NamedCome'
      BY <2>2 DEF NamedCome
    <3>1. FinishedPast
      BY <1>0, <2>1, <3>0 DEF NamedCome
    <3>2. f.p \in Prompts /\ (f.p \in done \/ f.p = run)
      BY <1>0, <1>3, <2>1 DEF FrameSense, Handshakes, TypeOK, Frames
    <3>3. f.p \notin finished
      <4>1. \A x \in finished : f.p > x
        BY <1>3, <2>1, <3>1 DEF FinishedPast
      <4>2. f.p \in Nat /\ ~ (f.p > f.p)
        BY <3>2 DEF Prompts
      <4> QED BY <4>1, <4>2
    <3>4. f.p \in done \ silent => Printed("completed", f.p)'
      <4>1. f.p \in done \ silent => Printed("completed", f.p)
        BY <1>0, <1>3, <2>1 DEF Completes, Printed
      <4> QED BY <1>6, <2>1, <4>1
    <3> PICK q \in Prompts : q = f.p
      BY <3>2
    <3>5. Completing(q)'
      <4>1. q = run => InProcess(q)'
        BY <1>1 DEF InProcess
      <4>2. q \in silent \/ InProcess(q)' \/ Printed("completed", q)'
        BY <3>2, <3>4, <4>1
      <4> QED BY <1>1, <2>1, <3>3, <4>2 DEF Completing
    <3>6. WaitedFor' = f.p /\ active'.prompt # None
      BY <1>0, <2>2, <3>2, Numbers DEF WaitedFor
    <3>7. (WaitedFor' = q) /\ active'.prompt # None
      BY <3>6
    <3> QED BY <3>5, <3>7 DEF NamedCome
  <2>5. BoundCome' /\ RecordRuns'
    BY <1>0, <1>1, <2>1, RecordRunsKept DEF BoundCome, Grok
  <2> QED BY <2>3, <2>4, <2>5, EndsComeParts
<1>11. CASE ReadOpens
  <2>1. /\ f.t = "content" /\ answered' = answered
        /\ active' = [ NoTurn EXCEPT !.turn = turns + 1, !.prompt = IF vibe THEN None ELSE f.p, !.stray = vibe \/ f.p \in finished ]
        /\ record' = IF vibe THEN record ELSE [ NoRecord EXCEPT !.turn = turns + 1 ]
        /\ UNCHANGED << bound, finished >> /\ active = NoTurn /\ ~Unheard
        /\ of' = [ of EXCEPT ![turns + 1] = f.p ] /\ turns + 1 \in Turns
    BY <1>0, <1>11, ReadOpensType DEF ReadOpens
  <2>2. ~active'.user /\ active'.prompt = (IF vibe THEN None ELSE f.p) /\ active'.stray = (vibe \/ f.p \in finished)
    <3>1. (vibe \/ f.p \in finished) \in BOOLEAN
      OBVIOUS
    <3> QED BY <2>1, <3>1, Zenon DEF NoTurn
  <2>3. AnswersCome'
    BY <1>1, <1>7, <2>2 DEF AnswersCome
  <2> PICK q \in Prompts : q = f.p
    BY <1>0, <1>3, <2>1 DEF FrameSense, Handshakes, TypeOK, Frames
  <2>7. q \in done \/ InProcess(q)
    BY <1>0, <1>3, <2>1 DEF FrameSense, Handshakes, InProcess
  <2>4. RecordRuns'
    <3>1. CASE vibe
      <4>1. record = NoRecord
        BY <1>0, <2>1, <3>1, ReadKeeps DEF Inv, Pops, TurnStages, Unheard, HandshakeOrder, Grok, TypeOK
      <4> QED BY <2>1, <3>1, <4>1, ConstantTypes DEF RecordRuns
    <3>2. CASE ~vibe
      <4>1. record'.turn = turns + 1 /\ of'[turns + 1] = q
        BY <1>0, <2>1, <3>2 DEF NoRecord, TypeOK
      <4>2. InProcess(q) => InProcess(q)'
        BY <1>8
      <4>3. of'[record'.turn] = q /\ (q \in done' \/ InProcess(q)') /\ q # None
        BY <1>0, <1>1, <2>7, <4>1, <4>2, Numbers
      <4> QED BY <4>3 DEF RecordRuns, InProcess, Waits
    <3> QED BY <3>1, <3>2
  <2>5. BoundCome'
    BY <1>1, <2>2 DEF BoundCome
  <2>6. NamedCome'
    <3> SUFFICES ASSUME Grok, f.p \notin finished PROVE NamedCome'
      BY <1>1, <2>2 DEF NamedCome, Grok
    <3>1. q \in done \ silent => Printed("completed", q)'
      <4>1. q \in done \ silent => Printed("completed", q)
        BY <1>0, <1>3, <2>1 DEF Completes, Printed
      <4> QED BY <1>6, <2>1, <4>1
    <3>2. Completing(q)'
      <4>1. InProcess(q) => InProcess(q)'
        BY <1>8
      <4>2. q \in silent \/ InProcess(q)' \/ Printed("completed", q)'
        BY <2>7, <3>1, <4>1
      <4> QED BY <1>1, <2>1, <4>2 DEF Completing
    <3>3. WaitedFor' = q /\ active'.prompt # None
      BY <1>0, <2>2, Numbers DEF WaitedFor, Grok
    <3> QED BY <3>2, <3>3 DEF NamedCome
  <2> QED BY <2>3, <2>4, <2>5, <2>6, EndsComeParts
<1>12. CASE ReadEnds
  <2>1. active # NoTurn /\ active' = NoTurn /\ record' = NoRecord
    BY <1>12 DEF ReadEnds, EndsActive, Finalize
  <2>2. sending'.s # "written"
    BY <1>0, <1>1, <2>1, ConstantTypes DEF TurnSends
  <2>3. RecordRuns'
    BY <2>1, ConstantTypes DEF RecordRuns
  <2> QED BY <1>7, <2>1, <2>2, <2>3, EndsComeOff
<1> QED BY <1>2, <1>9, <1>10, <1>11, <1>12

LEMMA EndsComeStep ==
  ASSUME Inv, [Next]_vars
  PROVE  EndsCome'
<1>0. /\ TypeOK /\ FrameSense /\ HandshakeOrder /\ TurnStages /\ TurnSends /\ TurnRecords /\ Told
      /\ WorkOrder /\ Holding /\ Listing /\ AnswersCome /\ RecordRuns /\ EndsCome
  BY LineOrderParts, TurnStateParts, ProcessOrderParts, EndsComeParts DEF Inv
<1>1. CASE Process
  BY <1>1, EndsComeProcessStep
<1>2. CASE Read
  BY <1>2, EndsComeReadStep
<1>3. CASE \E p \in Prompts : Settle(p)
  <2> PICK p \in Prompts : Settle(p)
    BY <1>3
  <2>1. /\ UNCHANGED << vibe, run, queue, done, silent, alive, line, sending, of >> /\ answered' = answered \ {p} /\ sending.p # p
    BY DEF Settle, process
  <2>2. CASE SettleEnds(p)
    <3>1. active # NoTurn /\ active' = NoTurn /\ record' = NoRecord
      BY <2>2, ConstantTypes DEF SettleEnds, Finalize
    <3>2. sending'.s # "written"
      BY <1>0, <2>1, <3>1, ConstantTypes DEF TurnSends
    <3> QED BY <1>0, <2>1, <3>1, <3>2, EndsComeOff, ConstantTypes DEF RecordRuns, AnswersCome
  <2>3. CASE SettleQuiet(p)
    <3>1. ~ (active.user /\ of[active.turn] = p) /\ UNCHANGED << active, bound, finished, record >>
      BY <2>3 DEF SettleQuiet, session
    <3>2. \A k, q : Printed(k, q)' <=> Printed(k, q)
      BY <2>1 DEF Printed, At
    <3>3. \A q : q # p /\ Answerable(q) => Answerable(q)'
      BY <2>1, <3>2 DEF Answerable, InProcess, Waits
    <3>4. AnswersCome'
      BY <1>0, <2>1, <3>1, <3>3 DEF AnswersCome
    <3>5. RecordRuns'
      BY <1>0, <2>1, <3>1, RecordRunsKept
    <3>6. BoundCome' /\ NamedCome'
      <4>1. \A w : (InProcess(w)' <=> InProcess(w)) /\ (Completing(w)' <=> Completing(w))
        BY <2>1, <3>1, <3>2 DEF InProcess, Waits, Completing
      <4>2. (FinishedPast' <=> FinishedPast) /\ WaitedFor' = WaitedFor
        BY <2>1, <3>1 DEF FinishedPast, WaitedFor, At
      <4> QED BY <1>0, <2>1, <3>1, <3>2, <4>1, <4>2, EndsComeParts DEF BoundCome, NamedCome, Grok
    <3> QED BY <3>4, <3>5, <3>6, EndsComeParts
  <2> QED BY <2>2, <2>3, SettleCases
<1>4. CASE SendBegins \/ SendFails
  <2>1. /\ UNCHANGED << of, run, queue, done, alive, active, record, answered >>
        /\ sending'.s # "written"
    BY <1>4 DEF SendBegins, SendFails, SessionFrame, process, session, NotSending, history
  <2>2. active = NoTurn
    BY <1>0, <1>4, ConstantTypes DEF SendBegins, SendFails, TurnSends
  <2>3. RecordRuns'
    BY <1>0, <2>1, RecordRunsKept
  <2> QED BY <1>0, <2>1, <2>2, <2>3, EndsComeOff DEF AnswersCome
<1>5. CASE SendWrites
  <2>1. /\ UNCHANGED << vibe, run, done, alive, active, record, answered, stage >> /\ last < MaxPrompts
        /\ sending.s = "preparing" /\ sending'.p = last + 1 /\ queue' = Append(queue, last + 1)
    BY <1>5 DEF SendWrites, SessionFrame, session, shake
  <2>2. active = NoTurn /\ record = NoRecord
    BY <1>0, <2>1, ConstantTypes DEF TurnStages, TurnSends
  <2>3. last + 1 \in Prompts
    BY <1>0, <2>1, BoundAssumption DEF TypeOK, Prompts
  <2> PICK q \in Prompts : q = last + 1
    BY <2>3
  <2>4. sending'.p = q /\ Answerable(q)'
    <3>1. Len(queue) + 1 \in DOMAIN queue' /\ queue'[Len(queue) + 1] = q
      BY <1>0, <2>1, Joins
    <3> QED BY <2>1, <3>1 DEF Answerable, InProcess, Waits
  <2>5. AnswersCome'
    BY <1>0, <2>1, <2>2, <2>4, ConstantTypes DEF AnswersCome
  <2>6. RecordRuns' /\ BoundCome' /\ NamedCome'
    BY <2>1, <2>2, ConstantTypes DEF RecordRuns, BoundCome, NamedCome
  <2> QED BY <2>5, <2>6, EndsComeParts
<1>6. CASE SendConfirmed
  <2>1. /\ UNCHANGED << vibe, run, queue, done, alive, line, answered >> /\ sending' = NotSending /\ sending.s = "written"
        /\ turns < MaxTurns /\ active' = [ [ NoTurn EXCEPT !.user = TRUE ] EXCEPT !.turn = turns + 1 ]
        /\ of' = [ of EXCEPT ![turns + 1] = sending.p ]
        /\ record' = [ turn |-> turns + 1, prompt |-> sending.p, base |-> sending.base ]
    BY <1>6 DEF SendConfirmed, SessionFrame, BeginTurn, process
  <2>2. active'.turn = turns + 1 /\ active'.user = TRUE
    BY <2>1, Zenon DEF NoTurn
  <2>3. of'[turns + 1] = sending.p
    <3>1. turns + 1 \in Turns
      BY <1>0, <2>1, BoundAssumption DEF TypeOK, Turns
    <3> QED BY <1>0, <2>1, <3>1 DEF TypeOK
  <2> PICK q : q = sending.p
    OBVIOUS
  <2>4. Answerable(q) /\ of'[active'.turn] = q
    BY <1>0, <2>1, <2>2, <2>3 DEF AnswersCome
  <2>5. (\A k : Printed(k, q)' <=> Printed(k, q)) /\ (InProcess(q)' <=> InProcess(q))
    BY <2>1 DEF Printed, InProcess, Waits, At
  <2>6. Answerable(q)'
    BY <2>1, <2>4, <2>5 DEF Answerable
  <2>7. AnswersCome'
    BY <1>0, <2>1, <2>4, <2>6, ConstantTypes DEF AnswersCome
  <2>8. q \in done \/ InProcess(q)
    BY <1>0, <2>4 DEF Answerable, AnswersCome, Printed, FrameSense, IsSignal
  <2>9. RecordRuns'
    <3>1. q # None
      BY <1>0, <2>1, Numbers DEF TurnSends, TypeOK
    <3>2. of'[record'.turn] = q /\ (q \in done' \/ InProcess(q)')
      BY <2>1, <2>3, <2>5, <2>8
    <3> QED BY <3>1, <3>2 DEF RecordRuns, InProcess, Waits
  <2>10. BoundCome' /\ NamedCome'
    BY <2>2 DEF BoundCome, NamedCome
  <2> QED BY <2>7, <2>9, <2>10, EndsComeParts
<1>7. CASE Interrupt
  <2>1. UNCHANGED << vibe, run, queue, done, silent, alive, line, answered, sending, finished, bound, of, record >> /\ active # NoTurn
        /\ active' = [ active EXCEPT !.timer = TRUE ]
    BY <1>7 DEF Interrupt, SessionFrame, process, client, history
  <2>2. active \in ActiveType
    BY <1>0 DEF TypeOK, ActiveType
  <2>3. active'.user = active.user /\ active'.stray = active.stray /\ active'.prompt = active.prompt /\ active'.turn = active.turn
    BY <2>1, <2>2 DEF ActiveType
  <2> QED BY <1>0, <2>1, <2>3, EndsComeKept
<1>8. CASE GraceExpires
  <2>1. active # NoTurn /\ active' = NoTurn /\ record' = NoRecord /\ UNCHANGED << sending, answered, done >>
    BY <1>8, ConstantTypes DEF GraceExpires, Finalize, process, client
  <2>2. sending'.s # "written"
    BY <1>0, <2>1, ConstantTypes DEF TurnSends
  <2> QED BY <1>0, <2>1, <2>2, EndsComeOff, ConstantTypes DEF RecordRuns, AnswersCome
<1>9. CASE Connect
  <2>1. /\ stage = "closed" /\ UNCHANGED << of, active, sending, answered, run, queue, done >>
        /\ alive' = TRUE /\ record' = IF alive THEN record ELSE NoRecord
    BY <1>9 DEF Connect, client, history
  <2>2. active = NoTurn /\ sending = NotSending
    BY <1>0, <2>1 DEF TurnStages, TurnSends
  <2>3. RecordRuns'
    <3>1. CASE alive
      BY <1>0, <2>1, <3>1, RecordRunsKept
    <3>2. CASE ~alive
      BY <2>1, <3>2, ConstantTypes DEF RecordRuns
    <3> QED BY <3>1, <3>2
  <2> QED BY <1>0, <2>1, <2>2, <2>3, EndsComeOff, ConstantTypes DEF AnswersCome
<1>10. CASE Greeted \/ Away \/ Loaded
  <2>1. /\ UNCHANGED << of, active, sending, answered, run, queue, done, alive >> /\ due.t \in { "hello", "away", "loaded" }
        /\ record' \in { record, NoRecord }
    BY <1>10 DEF Greeted, Away, Loaded, HandshakeFrame, process, client, session, history
  <2>2. active = NoTurn /\ sending = NotSending
    <3>1. stage \in { "greeting", "listing", "loading" }
      BY <1>0, <2>1, DueStage
    <3>2. due.t = "away" => Grok /\ ~holds
      BY <1>0, DueStage DEF HandshakeOrder
    <3> QED BY <1>0, <2>1, <3>1, <3>2, DueStage DEF TurnStages, TurnSends
  <2>3. RecordRuns'
    BY <1>0, <2>1, RecordRunsKept
  <2> QED BY <1>0, <2>1, <2>2, <2>3, EndsComeOff, ConstantTypes DEF AnswersCome
<1>11. CASE Listed
  <2>1. /\ UNCHANGED << vibe, run, queue, done, silent, alive, line, answered, sending, finished, bound >> /\ due.t = "roster"
    BY <1>11 DEF Listed, HandshakeFrame, process, client
  <2>2. stage = "listing" /\ Grok /\ mine = {} /\ sending = NotSending /\ answered = {}
    BY <1>0, <2>1, DueStage DEF HandshakeOrder, TurnStages, TurnSends, TypeOK
  <2>3. CASE ListedTakes \/ ListedMoves \/ ListedOpens
    <3>1. /\ due.p # None
          /\ \E t : active' = [ NoTurn EXCEPT !.turn = t, !.stray = ~Awaited(due.p, "completed") ]
      BY <2>3, Zenon DEF ListedTakes, ListedMoves, ListedOpens
    <3> PICK p \in Prompts : p = due.p
      BY <1>0, <3>1, ConstantTypes DEF TypeOK, Frames
    <3>2. ~active'.user /\ active'.prompt = None /\ (~active'.stray => Awaited(p, "completed"))
      <4>1. PICK t : active' = [ NoTurn EXCEPT !.turn = t, !.stray = ~Awaited(due.p, "completed") ]
        BY <3>1
      <4>2. ~active'.user /\ active'.prompt = None /\ (active'.stray = ~Awaited(due.p, "completed"))
        BY <4>1, Zenon DEF NoTurn
      <4> QED BY <4>2
    <3>3. AnswersCome' /\ BoundCome'
      BY <1>0, <2>1, <2>2, <3>2, ConstantTypes DEF AnswersCome, BoundCome, Grok
    <3>4. FinishedPast /\ FinishedPast'
      BY <1>0, <2>1, <2>2 DEF Listing, FinishedPast, At
    <3>5. (p \in done \/ InProcess(p)) /\ p # None
      <4>1. Heard(p, 0)
        BY <2>1, <3>1 DEF Inv, Rosters
      <4>2. queue # << >> => Head(queue) = queue[1] /\ 1 \in DOMAIN queue
        BY <1>0, Numbers
      <4> QED BY <1>0, <4>1, <4>2, Numbers DEF Heard, InProcess, Waits
    <3>6. Awaited(p, "completed") => p \notin finished /\ (p \in done => Printed("completed", p))
      <4> SUFFICES ASSUME Awaited(p, "completed") PROVE p \notin finished /\ (p \in done => Printed("completed", p))
        OBVIOUS
      <4>1. p \notin finished /\ (p \in done => Frame("completed", p) \in { line[i] : i \in 1 .. Len(line) })
        BY DEF Awaited
      <4> QED BY <1>0, <4>1, ConstantTypes DEF Printed, At, TypeOK
    <3>7. \A q : (InProcess(q)' <=> InProcess(q)) /\ (Completing(q)' <=> Completing(q))
      BY <2>1 DEF InProcess, Waits, Completing, Printed, At
    <3>8. CASE ListedTakes
      <4>1. record.turn # None /\ of[record.turn] \notin done /\ active'.turn = record.turn /\ record'.turn = record.turn /\ of' = of
        <5>1. active' = [ NoTurn EXCEPT !.turn = record.turn, !.stray = ~Awaited(due.p, "completed") ]
          BY <3>8 DEF ListedTakes
        <5>2. active'.turn = record.turn
          BY <5>1, Zenon DEF NoTurn
        <5>3. record'.turn = record.turn
          BY <3>8 DEF ListedTakes, NoRecord
        <5> QED BY <3>8, <5>2, <5>3 DEF ListedTakes
      <4>2. of[record.turn] \in Prompts /\ InProcess(of[record.turn]) /\ of[record.turn] \notin finished
        BY <1>0, <2>2, <3>4, <4>1 DEF RecordRuns, Holding, TypeOK, FinishedPast
      <4> PICK q \in Prompts : q = of[record.turn]
        BY <4>2
      <4>3. of'[record'.turn] = q /\ InProcess(q)' /\ q # None
        BY <1>0, <3>7, <4>1, <4>2, Numbers
      <4>4. RecordRuns'
        BY <4>3 DEF RecordRuns, InProcess, Waits
      <4>5. Completing(q)'
        BY <3>7, <4>2 DEF Completing
      <4>6. WaitedFor' = q
        BY <3>2, <4>1, <4>3 DEF WaitedFor
      <4>7. NamedCome'
        BY <3>4, <4>5, <4>6 DEF NamedCome
      <4> QED BY <3>3, <4>4, <4>7, EndsComeParts
    <3>9. CASE ListedMoves \/ ListedOpens
      <4>1. PICK t \in Turns : active'.turn = t /\ record'.turn = t /\ of' = [ of EXCEPT ![t] = p ]
        <5>1. PICK t \in Turns : /\ active' = [ NoTurn EXCEPT !.turn = t, !.stray = ~Awaited(due.p, "completed") ]
                                /\ record' = [ NoRecord EXCEPT !.turn = t ] /\ of' = [ of EXCEPT ![t] = p ]
          <6>1. CASE ListedMoves
            BY <1>0, <6>1, ConstantTypes DEF ListedMoves, TypeOK
          <6>2. CASE ListedOpens
            <7>1. turns + 1 \in Turns
              BY <1>0, <6>2, BoundAssumption DEF ListedOpens, TypeOK, Turns
            <7> QED BY <6>2, <7>1 DEF ListedOpens
          <6> QED BY <3>9, <6>1, <6>2
        <5>2. active'.turn = t
          BY <5>1, Zenon DEF NoTurn
        <5>3. record'.turn = t
          BY <5>1 DEF NoRecord
        <5> QED BY <5>1, <5>2, <5>3
      <4>2. of'[t] = p
        BY <1>0, <4>1 DEF TypeOK
      <4>3. of'[record'.turn] = p /\ (p \in done' \/ InProcess(p)')
        BY <2>1, <3>5, <3>7, <4>1, <4>2
      <4>4. RecordRuns'
        BY <3>5, <4>3 DEF RecordRuns, InProcess, Waits
      <4>5. ~active'.stray => Completing(p)'
        BY <3>2, <3>5, <3>6, <3>7 DEF Completing
      <4>6. WaitedFor' = p
        BY <3>2, <4>1, <4>2 DEF WaitedFor
      <4>7. NamedCome'
        BY <3>4, <4>5, <4>6 DEF NamedCome
      <4> QED BY <3>3, <4>4, <4>7, EndsComeParts
    <3> QED BY <2>3, <3>8, <3>9
  <2>4. CASE ListedKeeps \/ ListedDrops
    <3>1. UNCHANGED << active, of >> /\ record' \in { record, NoRecord }
      BY <2>4 DEF ListedKeeps, ListedDrops
    <3> QED BY <1>0, <2>1, <3>1, EndsComeKept
  <2> QED BY <1>0, <1>11, <2>3, <2>4, ListedCases
<1>12. CASE Reattached
  <2>1. /\ UNCHANGED << vibe, run, queue, done, silent, alive, line, answered, sending, finished >> /\ due.t = "hello" /\ vibe
    BY <1>12 DEF Reattached, HandshakeFrame, process, client
  <2>2. stage = "greeting" /\ mine = {} /\ sending = NotSending /\ answered = {} /\ active = NoTurn
    BY <1>0, <2>1, DueStage DEF TurnStages, TurnSends, TypeOK
  <2>3. CASE ReattachedSettled \/ ReattachedHeard
    <3>1. record' = NoRecord /\ ~active'.user /\ (active' = NoTurn \/ active'.stray)
      <4>1. CASE ReattachedHeard
        BY <2>2, <4>1, ConstantTypes DEF ReattachedHeard
      <4>2. CASE ReattachedSettled
        <5>1. OpenHeld /\ record' = NoRecord
          BY <4>2 DEF ReattachedSettled
        <5>2. active' = NoTurn \/ active' = [ NoTurn EXCEPT !.turn = turns + 1, !.stray = TRUE ]
          BY <1>0, <5>1, OpensHeld
        <5>3. active' = [ NoTurn EXCEPT !.turn = turns + 1, !.stray = TRUE ] => ~active'.user /\ active'.stray
          BY Zenon DEF NoTurn
        <5> QED BY <5>1, <5>2, <5>3, ConstantTypes
      <4> QED BY <2>3, <4>1, <4>2
    <3>2. AnswersCome' /\ RecordRuns' /\ BoundCome' /\ NamedCome'
      BY <1>0, <2>1, <2>2, <3>1, ConstantTypes DEF AnswersCome, RecordRuns, BoundCome, NamedCome, Grok
    <3> QED BY <3>2, EndsComeParts
  <2>4. CASE ReattachedAdopts
    <3>1. /\ active' = [ NoTurn EXCEPT !.turn = record.turn, !.stray = ~Awaited(record.prompt, "answer") ]
          /\ bound' = record.prompt /\ UNCHANGED << record, of >> /\ record # NoRecord
      BY <2>4 DEF ReattachedAdopts
    <3> PICK p : p = record.prompt
      OBVIOUS
    <3>2. ~active'.user /\ (~active'.stray => Awaited(p, "answer"))
      <4>1. ~active'.user /\ (active'.stray = ~Awaited(record.prompt, "answer"))
        BY <3>1, Zenon DEF NoTurn
      <4> QED BY <4>1
    <3>3. record.turn # None /\ p \in Prompts /\ (p \in done \/ InProcess(p))
      <4>1. record.turn # None /\ alive
        BY <1>0, <2>2, <3>1 DEF Told, Holding
      <4> QED BY <1>0, <2>1, <4>1 DEF TurnRecords, TypeOK, RecordRuns
    <3>4. Awaited(p, "answer") => InProcess(p) \/ Printed("answer", p)
      <4> SUFFICES ASSUME Awaited(p, "answer"), p \in done PROVE Printed("answer", p)
        BY <3>3
      <4>1. Frame("answer", p) \in { line[i] : i \in 1 .. Len(line) }
        BY DEF Awaited
      <4>2. PICK i \in At : line[i] = Frame("answer", p)
        BY <1>0, <4>1 DEF At, TypeOK
      <4> QED BY <3>3, <4>2, ConstantTypes DEF Printed
    <3>5. (InProcess(p)' <=> InProcess(p)) /\ (Printed("answer", p)' <=> Printed("answer", p))
      BY <2>1 DEF InProcess, Waits, Printed, At
    <3>6. BoundCome'
      BY <3>1, <3>2, <3>3, <3>4, <3>5, ConstantTypes DEF BoundCome
    <3>7. AnswersCome' /\ NamedCome'
      BY <1>0, <2>1, <2>2, <3>2, ConstantTypes DEF AnswersCome, NamedCome, Grok
    <3>8. RecordRuns'
      BY <1>0, <2>1, <3>1, RecordRunsKept
    <3> QED BY <3>6, <3>7, <3>8, EndsComeParts
  <2> QED BY <1>0, <1>12, <2>3, <2>4, ReattachedCases DEF Inv
<1>13. CASE Disconnected \/ Restart \/ ExitsHeard
  <2>1. /\ active' = NoTurn /\ sending' = NotSending /\ answered' = {} /\ record' \in { record, NoRecord } /\ UNCHANGED << of, done >>
        /\ UNCHANGED << run, queue, alive >> \/ alive' = FALSE
    BY <1>13, DisconnectedCases DEF Disconnected, LostTurn, LostIdle, Restart, ExitsHeard, Close
  <2>2. RecordRuns'
    <3>1. CASE UNCHANGED << run, queue, alive >>
      BY <1>0, <2>1, <3>1, RecordRunsKept
    <3>2. CASE alive' = FALSE
      BY <1>0, <2>1, <3>2, ConstantTypes DEF RecordRuns
    <3> QED BY <2>1, <3>1, <3>2
  <2> QED BY <2>1, <2>2, EndsComeOff, ConstantTypes
<1>14. CASE ExitsUnheard
  <2>1. stage = "closed" /\ alive' = FALSE /\ UNCHANGED << active, sending, answered, done, of, record >>
    BY <1>14 DEF ExitsUnheard, session, client, history
  <2>2. active = NoTurn /\ sending = NotSending
    BY <1>0, <2>1 DEF TurnStages, TurnSends
  <2> QED BY <1>0, <2>1, <2>2, EndsComeOff, ConstantTypes DEF AnswersCome, RecordRuns
<1>15. CASE UNCHANGED vars
  <2>1. UNCHANGED << vibe, run, queue, done, silent, alive, line, answered, sending, finished, bound, of, record, active >>
    BY <1>15 DEF vars, session, client, process, history
  <2> QED BY <1>0, <2>1, EndsComeKept
<1> QED BY <1>1, <1>2, <1>3, <1>4, <1>5, <1>6, <1>7, <1>8, <1>9, <1>10, <1>11, <1>12, <1>13, <1>14, <1>15, ExitsCases DEF Next, Backend

-----------------------------------------------------------------------------
(***************************************************************************)
(* Whose ends are to come.                                                 *)
(***************************************************************************)
TurnsNamed == \A p \in Prompts : Pending(p) /\ HasTurn(p) => Current # None /\ of[Current] = p
LateKnown == \A p \in Prompts : late[p] = "known" /\ Live(p) => p \in finished
QueueSole == \A i \in DOMAIN queue : late[queue[i]] = "no" => Only(queue[i])
RosterNames(q) == Printed("roster", q) \/ (due = Frame("roster", q) /\ active = NoTurn)
RosterSole == \A q \in Prompts : RosterNames(q) => Sole(q)

LEMMA NamesParts ==
  /\ Names <=> (Grok => TurnsNamed /\ LateKnown /\ QueueSole /\ RosterSole)
  /\ Names' <=> (Grok' => TurnsNamed' /\ LateKnown' /\ QueueSole' /\ RosterSole')
<1>1. Names <=> (Grok => TurnsNamed /\ LateKnown /\ QueueSole /\ RosterSole)
  BY DEF Names, TurnsNamed, LateKnown, QueueSole, RosterSole, RosterNames
<1>2. Names' <=> (Grok' => TurnsNamed' /\ LateKnown' /\ QueueSole' /\ RosterSole')
  BY DEF Names, TurnsNamed, LateKnown, QueueSole, RosterSole, RosterNames
<1> QED BY <1>1, <1>2

LEMMA InitNames == Init => Names
<1> SUFFICES ASSUME Init PROVE Names
  OBVIOUS
<1>1. /\ queue = << >> /\ line = << >> /\ due = NoFrame /\ run = None /\ \A p \in Prompts : late[p] = "no"
  BY DEF Init
<1>2. \A p \in Prompts : ~InProcess(p) /\ ~Live(p) /\ Frame("roster", p) # NoFrame /\ ~Printed("roster", p)
  BY <1>1, ConstantTypes DEF InProcess, Waits, Live, Printed, At
<1> QED BY <1>1, <1>2, NamesParts DEF TurnsNamed, LateKnown, QueueSole, RosterSole, RosterNames, Pending

LEMMA ProviderSame == ASSUME Inv, [Next]_vars PROVE vibe' = vibe
<1>1. Process => vibe' = vibe
  BY DEF Process, AnswersHandshake, Begins, OwnWake, PrintsContent, Ends, Refuses, ProcessFrame
<1>2. Read => vibe' = vibe
  BY DEF Read
<1> QED BY <1>1, <1>2, WireCases DEF SendWrites, SessionFrame, Connect, Calm, Cuts, ExitsUnheard

\* What the process adds to the line.
LEMMA PrintedWorks ==
  ASSUME TypeOK, HandshakeOrder, Works, NEW k, NEW p, Printed(k, p)'
  PROVE  Printed(k, p) \/ (run # None /\ p = run /\ k \in { "content", "completed", "answer" })
<1>1. PICK i \in At' : line'[i].t = k /\ line'[i].p = p
  BY DEF Printed
<1>2. CASE i \in At
  BY <1>1, <1>2, WorksPrints DEF Printed
<1>3. CASE line'[i].p = run /\ run # None /\ IsPrompt(line'[i])
  BY <1>1, <1>3 DEF IsPrompt, IsSignal
<1> QED BY <1>2, <1>3, WorksPrints

LEMMA PrintedAnswers ==
  ASSUME TypeOK, HandshakeOrder, AnswersHandshake, NEW k, NEW p, Printed(k, p)'
  PROVE  \/ Printed(k, p)
         \/ k \in Handshakes /\ p = (IF run # None THEN run ELSE IF queue # << >> THEN Head(queue) ELSE None)
         \/ k \in Handshakes /\ p = None
<1> DEFINE current == IF run # None THEN run ELSE IF queue # << >> THEN Head(queue) ELSE None
           frame == IF asking = "roster" THEN Frame(IF holds THEN "roster" ELSE "away", IF holds THEN current ELSE None)
                    ELSE Frame(asking, None)
<1>1. current \in Prompts \cup {None}
  BY Numbers
<1>2. stage # "closed" /\ Prints(<< frame >>) /\ asking \in Handshakes
  BY DueStage DEF AnswersHandshake, TypeOK, Handshakes
<1> HIDE DEF current
<1>3. frame \in Frames /\ frame.t \in Handshakes /\ frame.p \in { current, None }
  <2>1. asking \in { "none", "hello", "roster", "loaded" }
    BY DEF TypeOK
  <2> QED BY <1>1, <1>2, <2>1, ConstantTypes DEF Handshakes
<1> HIDE DEF frame
<1>4. \A i \in At' : line'[i] = frame \/ (i \in At /\ line'[i] = line[i])
  BY <1>2, <1>3, PrintsOne
<1>5. PICK i \in At' : line'[i].t = k /\ line'[i].p = p
  BY DEF Printed
<1>6. CASE line'[i] = frame
  BY <1>3, <1>5, <1>6 DEF current
<1>7. CASE i \in At /\ line'[i] = line[i]
  BY <1>5, <1>7 DEF Printed
<1> QED BY <1>4, <1>6, <1>7

\* Grok refuses nothing.
LEMMA NeverRefuses == ASSUME Holding, Grok PROVE ~Refuses
BY DEF Holding, Refuses

\* Of prompts that are there, ends that are to come become fewer.
LEMMA Shrinks ==
  ASSUME Inv, [Next]_vars, Grok
  PROVE  /\ own \subseteq own' /\ Grok' /\ done \subseteq done'
         /\ \A p \in Prompts : p <= last => (Waits(p)' => Waits(p)) /\ (InProcess(p)' => InProcess(p)) /\ (Live(p)' => Live(p))
<1>0. TypeOK /\ HandshakeOrder /\ Holding /\ LineOrder /\ last \in Nat /\ None \notin Prompts
  BY ProcessOrderParts, Numbers, ConstantTypes DEF Inv
<1>1. ASSUME UNCHANGED << vibe, run, queue, own, done >>, mine \subseteq mine' \/ \A k, p : ~Printed(k, p)',
             \A k \in { "completed", "answer" } : \A p : Printed(k, p)' => Printed(k, p)
      PROVE  /\ own \subseteq own' /\ Grok' /\ done \subseteq done'
             /\ \A p \in Prompts : p <= last => (Waits(p)' => Waits(p)) /\ (InProcess(p)' => InProcess(p)) /\ (Live(p)' => Live(p))
  <2>1. \A p : (Waits(p)' <=> Waits(p)) /\ (InProcess(p)' <=> InProcess(p))
    BY <1>1 DEF InProcess, Waits
  <2> QED BY <1>1, <2>1 DEF Live, Grok
<1>2. CASE AnswersHandshake
  <2>1. UNCHANGED << vibe, run, queue, own, done, mine >>
    BY <1>2 DEF AnswersHandshake, ProcessFrame, client
  <2>2. \A k \in { "completed", "answer" } : \A p : Printed(k, p)' => Printed(k, p)
    BY <1>0, <1>2, PrintedAnswers DEF Handshakes
  <2> QED BY <1>1, <2>1, <2>2
<1>3. CASE Works
  <2>1. mine' = mine
    BY <1>3 DEF Works, Begins, OwnWake, PrintsContent, Ends, ProcessFrame, client
  <2>2. own \subseteq own' /\ Grok' /\ done \subseteq done'
    BY <1>0, <1>3, WorksMoves DEF Grok
  <2>3. ASSUME NEW p \in Prompts, p <= last
        PROVE  (Waits(p)' => Waits(p)) /\ (InProcess(p)' => InProcess(p)) /\ (Live(p)' => Live(p))
    <3>1. (Waits(p)' => Waits(p)) /\ (InProcess(p)' => InProcess(p))
      <4>1. CASE UNCHANGED << run, queue >>
        BY <4>1 DEF InProcess, Waits
      <4>2. CASE run = None /\ queue # << >> /\ run' = Head(queue) /\ queue' = Tail(queue)
        <5>1. 1 \in DOMAIN queue /\ run' = queue[1] /\ \A i \in DOMAIN queue' : i + 1 \in DOMAIN queue /\ queue'[i] = queue[i + 1]
          BY <1>0, <4>2, Leaves
        <5>2. Waits(p)' => Waits(p)
          BY <5>1 DEF Waits
        <5> QED BY <5>1, <5>2 DEF InProcess, Waits
      <4>3. CASE run = None /\ queue = << >> /\ run' = last + 1 /\ UNCHANGED queue
        <5>1. p \in Nat /\ p # last + 1
          BY <1>0, <2>3, Numbers
        <5> QED BY <4>3, <5>1 DEF InProcess, Waits
      <4>4. CASE run' = None /\ UNCHANGED queue
        BY <1>0, <4>4 DEF InProcess, Waits
      <4> QED BY <1>0, <1>3, <4>1, <4>2, <4>3, <4>4, WorksMoves
    <3>2. \A k : Printed(k, p)' => Printed(k, p) \/ p = run
      BY <1>0, <1>3, PrintedWorks
    <3> QED BY <2>1, <3>1, <3>2 DEF Live, InProcess
  <2> QED BY <2>2, <2>3
<1>4. ~Refuses
  BY <1>0, NeverRefuses
<1>5. CASE Read
  <2>1. UNCHANGED << vibe, run, queue, own, done, mine >> /\ line # << >> /\ line' = Tail(line)
    BY <1>0, <1>5, ReadKeeps DEF Pops, process
  <2>2. \A i \in At' : i + 1 \in At /\ line'[i] = line[i + 1]
    BY <1>0, <2>1, Moved
  <2>3. \A k, p : Printed(k, p)' => Printed(k, p)
    BY <2>2 DEF Printed
  <2> QED BY <1>1, <2>1, <2>3
<1>6. CASE SendWrites
  <2>1. UNCHANGED << vibe, run, own, done, line >> /\ mine \subseteq mine' /\ queue' = Append(queue, last + 1) /\ last < MaxPrompts
    BY <1>6 DEF SendWrites, SessionFrame
  <2>2. last + 1 \in Prompts
    BY <1>0, <2>1, BoundAssumption DEF Prompts
  <2>3. \A i \in DOMAIN queue' : queue'[i] = last + 1 \/ (i \in DOMAIN queue /\ queue'[i] = queue[i])
    BY <1>0, <2>1, <2>2, Joins
  <2>4. \A p \in Prompts : p <= last => (Waits(p)' => Waits(p)) /\ (InProcess(p)' => InProcess(p))
    <3> SUFFICES ASSUME NEW p \in Prompts, p <= last PROVE (Waits(p)' => Waits(p)) /\ (InProcess(p)' => InProcess(p))
      OBVIOUS
    <3>1. p \in Nat /\ p # last + 1
      BY <1>0, Numbers
    <3> QED BY <2>1, <2>3, <3>1 DEF InProcess, Waits
  <2>5. \A k, p : Printed(k, p)' <=> Printed(k, p)
    BY <2>1 DEF Printed, At
  <2> QED BY <2>1, <2>4, <2>5 DEF Live, Grok
<1>7. CASE Connect \/ Calm
  <2>1. UNCHANGED << vibe, run, queue, own, done, line, mine >>
    BY <1>7 DEF Connect, Calm, client
  <2>2. \A k, p : Printed(k, p)' <=> Printed(k, p)
    BY <2>1 DEF Printed, At
  <2> QED BY <1>1, <2>1, <2>2
<1>8. CASE Cuts \/ ExitsUnheard
  <2>1. /\ UNCHANGED << vibe, own, done >> /\ (UNCHANGED << run, queue >> \/ (run' = None /\ queue' = << >>))
        /\ line' = << >> \/ (UNCHANGED << line, mine >>)
    BY <1>8 DEF Cuts, ExitsUnheard, Close, client
  <2>2. \A p \in Prompts : (Waits(p)' => Waits(p)) /\ (InProcess(p)' => InProcess(p))
    BY <1>0, <2>1 DEF InProcess, Waits
  <2>3. (\A k, p : ~Printed(k, p)') \/ (mine' = mine /\ \A k, p : Printed(k, p)' => Printed(k, p))
    BY <2>1 DEF Printed, At
  <2> QED BY <2>1, <2>2, <2>3 DEF Live, Grok
<1> QED BY <1>2, <1>3, <1>4, <1>5, <1>6, <1>7, <1>8, WireCases DEF Process, Works

\* Turns are of prompts that are there.
LEMMA TurnsThere ==
  ASSUME TypeOK, Counted, NEW p \in Prompts
  PROVE  /\ HasTurn(p) => p <= last
         /\ late[p] # "no" => p <= last
         /\ p \in Nat /\ last \in Nat /\ p # None
<1>1. p \in Nat /\ last \in Nat /\ p # None
  BY Numbers
<1>2. \A t \in Turns : of[t] <= last
  BY DEF Counted
<1>3. late[p] # "no" => ~ (p > last)
  BY DEF Counted
<1> QED BY <1>1, <1>2, <1>3 DEF HasTurn

LEMMA QueueSoleByPrompt ==
  /\ TypeOK => (QueueSole <=> \A p \in Prompts : Waits(p) /\ late[p] = "no" => Only(p))
  /\ TypeOK' => (QueueSole' <=> \A p \in Prompts : Waits(p)' /\ late'[p] = "no" => Only(p)')
<1>1. TypeOK => (QueueSole <=> \A p \in Prompts : Waits(p) /\ late[p] = "no" => Only(p))
  BY DEF TypeOK, QueueSole, Waits
<1>2. TypeOK' => (QueueSole' <=> \A p \in Prompts : Waits(p)' /\ late'[p] = "no" => Only(p)')
  <2> SUFFICES ASSUME TypeOK' PROVE QueueSole' <=> \A p \in Prompts : Waits(p)' /\ late'[p] = "no" => Only(p)'
    OBVIOUS
  <2>1. \A i \in DOMAIN queue' : queue'[i] \in Prompts
    BY DEF TypeOK
  <2> QED BY <2>1 DEF QueueSole, Waits, Only
<1> QED BY <1>1, <1>2

\* A roster that Grok's process lists is of what it works on.
LEMMA FreshSole ==
  ASSUME TypeOK, FrameSense, WorkOrder, QueueSole, NEW q \in Prompts,
         q = (IF run # None THEN run ELSE IF queue # << >> THEN Head(queue) ELSE None)
  PROVE  Sole(q)
<1> SUFFICES ASSUME NEW r \in Prompts, r > q, Pending(r) PROVE Only(r)
  BY DEF Sole
<1>0. q \in Nat /\ r \in Nat /\ q # None
  BY Numbers
<1>1. \A i \in At : IsPrompt(line[i]) => line[i].p <= q
  <2>1. CASE run # None
    BY <2>1, FramesPast
  <2>2. CASE run = None
    <3>1. 1 \in DOMAIN queue /\ q = queue[1]
      BY <1>0, <2>2, Numbers
    <3>2. \A i \in At : IsPrompt(line[i]) => line[i].p < q
      BY <3>1, FramesPast
    <3> QED BY <1>0, <3>2, Numbers
  <2> QED BY <2>1, <2>2
<1>2. ~Printed("completed", r) /\ ~Printed("answer", r)
  BY <1>0, <1>1 DEF Printed, IsPrompt, IsSignal
<1>3. InProcess(r) /\ late[r] = "no"
  BY <1>2 DEF Pending, Live
<1>4. r # run
  <2>1. run # None => run = q
    OBVIOUS
  <2>2. r # None
    BY Numbers
  <2> QED BY <1>0, <2>1, <2>2
<1> QED BY <1>3, <1>4 DEF InProcess, Waits, QueueSole

LEMMA RosterComes ==
  ASSUME Inv, [Next]_vars, Grok, NEW q \in Prompts, RosterNames(q)', active' = NoTurn => active = NoTurn
  PROVE  Sole(q)
<1>0. TypeOK /\ HandshakeOrder /\ Holding /\ LineOrder /\ FrameSense /\ WorkOrder /\ QueueSole /\ RosterSole
  BY ProcessOrderParts, LineOrderParts, NamesParts DEF Inv
<1>1. ASSUME Printed("roster", q)' => Printed("roster", q), due' = Frame("roster", q) => due' = due \/ Printed("roster", q)
      PROVE  Sole(q)
  BY <1>0, <1>1 DEF RosterSole, RosterNames
<1>2. CASE AnswersHandshake
  <2>1. due' = due
    BY <1>2 DEF AnswersHandshake, ProcessFrame
  <2>2. Printed("roster", q)' => Printed("roster", q) \/ q = (IF run # None THEN run ELSE IF queue # << >> THEN Head(queue) ELSE None)
    BY <1>0, <1>2, PrintedAnswers, ConstantTypes
  <2> QED BY <1>0, <1>1, <2>1, <2>2, FreshSole
<1>3. CASE Works
  BY <1>0, <1>1, <1>3, PrintedWorks, WorksMoves
<1>4. ~Refuses
  BY <1>0, NeverRefuses
<1>5. CASE Read
  <2>1. line # << >> /\ line' = Tail(line) /\ due' \in { due, Head(line) }
    BY <1>0, <1>5, ReadKeeps DEF Pops
  <2>2. (\A i \in At' : i + 1 \in At /\ line'[i] = line[i + 1]) /\ 1 \in At /\ Head(line) = line[1]
    BY <1>0, <2>1, Moved
  <2>3. Printed("roster", q)' => Printed("roster", q)
    BY <2>2 DEF Printed
  <2>4. due' = Frame("roster", q) => due' = due \/ Printed("roster", q)
    BY <2>1, <2>2, ConstantTypes DEF Printed
  <2> QED BY <1>1, <2>3, <2>4
<1>6. CASE SendWrites \/ Connect \/ Calm \/ ExitsUnheard
  <2>1. line' = line /\ due' \in { due, NoFrame }
    BY <1>6 DEF SendWrites, Connect, Calm, ExitsUnheard, SessionFrame, shake
  <2>2. NoFrame # Frame("roster", q)
    BY ConstantTypes
  <2> QED BY <1>1, <2>1, <2>2 DEF Printed, At
<1>7. CASE Cuts
  BY <1>1, <1>7, ConstantTypes DEF Cuts, Close, Printed, At
<1> QED BY <1>2, <1>3, <1>4, <1>5, <1>6, <1>7, WireCases DEF Process, Works

\* The turns stay, and what was noted about them.
LEMMA NamesKept ==
  ASSUME Inv, [Next]_vars, Grok, of' = of, Current' = Current, LateKnown',
         (active' = NoTurn => active = NoTurn) \/ \A q : ~RosterNames(q)',
         \A p \in Prompts : late'[p] = "no" => late[p] = "no",
         \A p \in Prompts : p <= last /\ Pending(p)' => Pending(p)
  PROVE  Names'
<1>0. TypeOK /\ Counted /\ TurnsNamed /\ QueueSole /\ \A p \in Prompts : HasTurn(p) => p <= last
  BY NamesParts, TurnsThere DEF Inv
<1>1. \A p : (HasTurn(p)' <=> HasTurn(p)) /\ (Only(p)' <=> Only(p))
  BY DEF HasTurn, Only
<1>2. TurnsNamed'
  BY <1>0, <1>1 DEF TurnsNamed
<1>3. QueueSole'
  <2> SUFFICES ASSUME NEW p \in Prompts, Waits(p)', late'[p] = "no" PROVE Only(p)'
    BY TypeStep, QueueSoleByPrompt
  <2>1. HasTurn(p) => Waits(p)
    BY <1>0, Shrinks DEF Waits
  <2>2. HasTurn(p) => Only(p)
    BY <1>0, <2>1 DEF Waits, QueueSole
  <2>3. Only(p)
    BY <2>2 DEF HasTurn, Only
  <2> QED BY <1>1, <2>3
<1>4. RosterSole'
  <2> SUFFICES ASSUME NEW q \in Prompts, RosterNames(q)', NEW r \in Prompts, r > q, Pending(r)' PROVE Only(r)'
    BY DEF RosterSole, Sole
  <2>1. Sole(q)
    BY RosterComes
  <2>2. HasTurn(r) => Only(r)
    BY <1>0, <2>1 DEF Sole
  <2> QED BY <1>1, <2>2 DEF HasTurn, Only
<1> QED BY <1>2, <1>3, <1>4, NamesParts

LEMMA NamesSame ==
  ASSUME Inv, [Next]_vars, Grok, UNCHANGED << of, late, finished >>, Current' = Current, active' = NoTurn => active = NoTurn
  PROVE  Names'
<1>0. TypeOK /\ Counted /\ LateKnown
  BY NamesParts DEF Inv
<1>1. \A p \in Prompts : p <= last /\ Pending(p)' => Pending(p)
  BY Shrinks DEF Pending
<1>2. LateKnown'
  BY <1>0, Shrinks, TurnsThere DEF LateKnown
<1> QED BY <1>1, <1>2, NamesKept

\* No turn is of a prompt whose end is to come.
LEMMA NamesClean ==
  ASSUME TypeOK', WorkOrder', LateKnown', \A p \in Prompts : Pending(p)' => ~HasTurn(p)'
  PROVE  Names'
<1>1. TurnsNamed'
  BY DEF TurnsNamed
<1>2. \A p \in Prompts : Pending(p)' => Only(p)'
  BY DEF HasTurn, Only
<1>3. QueueSole'
  <2> SUFFICES ASSUME NEW p \in Prompts, Waits(p)', late'[p] = "no" PROVE Only(p)'
    BY QueueSoleByPrompt
  <2>1. Pending(p)'
    BY DEF Pending, InProcess, Waits, WorkOrder
  <2> QED BY <1>2, <2>1
<1>4. RosterSole'
  BY <1>2 DEF RosterSole, Sole
<1> QED BY <1>1, <1>3, <1>4, NamesParts

\* No turn is of one but the current turn, which is of prompt x.
LEMMA NamesOpens ==
  ASSUME TypeOK', WorkOrder', LateKnown', NEW x \in Prompts, Current' # None, of'[Current'] = x,
         \A p \in Prompts : Pending(p)' /\ p # x => ~HasTurn(p)',
         Waits(x)' /\ late'[x] = "no" => Only(x)', \A q \in Prompts : RosterNames(q)' => x <= q
  PROVE  Names'
<1>1. TurnsNamed'
  BY DEF TurnsNamed
<1>2. \A p \in Prompts : Pending(p)' /\ p # x => Only(p)'
  BY DEF HasTurn, Only
<1>3. QueueSole'
  <2> SUFFICES ASSUME NEW p \in Prompts, Waits(p)', late'[p] = "no" PROVE Only(p)'
    BY QueueSoleByPrompt
  <2>1. Pending(p)' /\ Waits(p)'
    BY DEF Pending, InProcess, Waits, WorkOrder
  <2> QED BY <1>2, <2>1
<1>4. RosterSole'
  <2> SUFFICES ASSUME NEW q \in Prompts, RosterNames(q)', NEW r \in Prompts, r > q, Pending(r)' PROVE Only(r)'
    BY DEF RosterSole, Sole
  <2>1. r # x
    <3>1. x \in Nat /\ q \in Nat /\ r \in Nat /\ x <= q
      BY BoundAssumption DEF Prompts
    <3> QED BY <3>1
  <2> QED BY <1>2, <2>1
<1> QED BY <1>1, <1>3, <1>4, NamesParts

LEMMA DoneIdle ==
  ASSUME TypeOK, WorkOrder, NEW p \in Prompts, p \in done
  PROVE  ~InProcess(p)
<1>1. p \in Nat /\ p # None /\ run \in Nat
  BY Numbers
<1> QED BY <1>1 DEF InProcess, Waits, WorkOrder

LEMMA LateKnownSame ==
  ASSUME Inv, [Next]_vars, Grok, finished \subseteq finished', \A p \in Prompts : late'[p] = "known" => late[p] = "known"
  PROVE  LateKnown'
<1>0. TypeOK /\ Counted /\ LateKnown
  BY NamesParts DEF Inv
<1> QED BY <1>0, Shrinks, TurnsThere DEF LateKnown

\* Grok forgets with its session what it knew.
LEMMA LateKnownForgotten ==
  ASSUME Grok, NEW l, late' = Forgotten(l)
  PROVE  LateKnown'
BY DEF LateKnown, Forgotten, Grok

\* Nothing of a prompt of the person's is to come.
LEMMA NamesVoid ==
  ASSUME Inv, [Next]_vars, of' = of, LateKnown', \A p \in Prompts : p <= last /\ Live(p)' => p \in own'
  PROVE  Names'
<1>1. TypeOK' /\ WorkOrder'
  BY TypeStep, WorkOrderStep
<1>2. \A p \in Prompts : HasTurn(p)' => p <= last
  BY TurnsThere DEF HasTurn, Inv
<1>3. \A p \in Prompts : Pending(p)' => Live(p)' /\ p \notin own'
  BY DEF Pending, Live
<1> QED BY <1>1, <1>2, <1>3, NamesClean

\* The turn ends: nothing speaks of its prompt any more.
LEMMA NamesFinalize ==
  ASSUME Inv, [Next]_vars, Grok, active # NoTurn, NEW by \in Prompts \cup {None}, NEW names, Finalize(by, names), of' = of,
         by # None => by \in done
  PROVE  Names'
<1> DEFINE q == of[active.turn]
<1>0. /\ TypeOK /\ Counted /\ TurnsNamed /\ LateKnown /\ WorkOrder /\ TypeOK' /\ WorkOrder' /\ Told
      /\ active.turn \in Turns /\ q \in Prompts \cup {None}
  <2>1. TypeOK /\ Told /\ active.turn # None
    BY DEF Inv, Told
  <2>2. active.turn \in Turns /\ q \in Prompts \cup {None}
    BY <2>1 DEF TypeOK
  <2> QED BY <2>1, <2>2, NamesParts, ProcessOrderParts, TypeStep, WorkOrderStep DEF Inv
<1>1. /\ finished' = (finished \cup {active.prompt} \cup names) \ {None} /\ None \notin Prompts
      /\ late' = IF q = None \/ (q = by /\ q \in finished') THEN late ELSE [ late EXCEPT ![q] = IF q \in finished' THEN "known" ELSE "unknown" ]
  BY ConstantTypes DEF Finalize, Grok
<1>2. finished \subseteq finished'
  BY <1>0, <1>1 DEF TypeOK
<1> HIDE DEF q
<1>3. \A p \in Prompts : late'[p] = late[p] \/ (p = q /\ q # None /\ ~(q = by /\ q \in finished') /\ late'[p] = IF q \in finished' THEN "known" ELSE "unknown")
  BY <1>0, <1>1 DEF TypeOK
<1>4. LateKnown'
  <2> SUFFICES ASSUME NEW p \in Prompts, late'[p] = "known", Live(p)' PROVE p \in finished'
    BY DEF LateKnown
  <2>1. CASE late[p] = "known"
    BY <1>0, <1>2, <2>1, Shrinks, TurnsThere DEF LateKnown
  <2>2. CASE p = q /\ late'[p] = IF q \in finished' THEN "known" ELSE "unknown"
    BY <2>2
  <2> QED BY <1>3, <2>1, <2>2
<1>5. ASSUME NEW r \in Prompts, Pending(r)', HasTurn(r)' PROVE FALSE
  <2>1. HasTurn(r) /\ r <= last
    BY <1>0, <1>5, TurnsThere DEF HasTurn
  <2>2. late'[r] = "no" /\ r \notin own'
    BY <1>5 DEF Pending
  <2>3. r # q
    <3> SUFFICES ASSUME r = q PROVE FALSE
      OBVIOUS
    <3>1. r = by /\ by # None /\ r \in finished'
      BY <1>0, <1>1, <2>2 DEF TypeOK
    <3>2. r \in done' /\ r \in finished'
      BY <3>1, Shrinks
    <3>3. ~InProcess(r)'
      <4>1. r \in Nat /\ r # None /\ run' \in Nat
        BY <1>0, BoundAssumption DEF Prompts, None, TypeOK
      <4> QED BY <1>0, <3>2, <4>1 DEF InProcess, Waits, WorkOrder
    <3> QED BY <1>5, <3>2, <3>3 DEF Pending
  <2>4. Pending(r)
    BY <1>2, <1>3, <1>5, <2>1, <2>2, <2>3, Shrinks DEF Pending
  <2> QED BY <1>0, <2>1, <2>3, <2>4 DEF TurnsNamed, Current, q
<1> QED BY <1>0, <1>4, <1>5, NamesClean

LEMMA NamesReadStep ==
  ASSUME Inv, [Next]_vars, Grok, Read
  PROVE  Names'
<1>0. /\ TypeOK /\ Told /\ Counted /\ LineOrder /\ FrameSense /\ HandshakeOrder /\ TurnsNamed /\ WorkOrder /\ Rosters
      /\ TypeOK' /\ WorkOrder' /\ TurnStages
  BY NamesParts, ProcessOrderParts, LineOrderParts, TurnStateParts, TypeStep, WorkOrderStep DEF Inv
<1> PICK f : f = Head(line)
  OBVIOUS
<1>1. UNCHANGED << vibe, run, queue, own, done, stage >> /\ line # << >> /\ line' = Tail(line) /\ stage # "closed"
  BY <1>0, ReadKeeps DEF Pops, process
<1>2. 1 \in At /\ f = line[1] /\ f \in Frames
  BY <1>0, <1>1, Moved
<1>3. CASE ReadHandshake \/ ReadAnswer \/ ReadQuiet
  BY <1>3, NamesSame DEF ReadHandshake, ReadAnswer, ReadQuiet, session, history, Current
<1>4. CASE ReadNames
  <2>1. active # NoTurn /\ UNCHANGED << of, late, finished, record >> /\ active' = [ active EXCEPT !.prompt = f.p ]
    BY <1>4 DEF ReadNames, history
  <2>2. active \in ActiveType /\ active.turn # None
    BY <1>0, <2>1 DEF TypeOK, ActiveType, Told
  <2>3. active'.turn = active.turn
    BY <2>1, <2>2 DEF ActiveType
  <2>4. active' # NoTurn
    BY <2>2, <2>3, ConstantTypes
  <2> QED BY <2>1, <2>3, <2>4, NamesSame DEF Current
<1>5. CASE ReadEnds
  <2>1. IsSignal(f) /\ active # NoTurn /\ Finalize(f.p, {f.p}) /\ of' = of
    BY <1>5 DEF ReadEnds, EndsActive
  <2>2. f.p \in Prompts \cup {None} /\ f.p \in done
    BY <1>0, <1>2, <2>1 DEF FrameSense, Frames
  <2> QED BY <2>1, <2>2, NamesFinalize
<1>6. CASE ReadOpens
  <2>1. f.t = "content" /\ active = NoTurn
    BY <1>6 DEF ReadOpens
  <2>2. f.p \in Prompts /\ (f.p \in done \/ f.p = run)
    BY <1>0, <1>2, <2>1, ConstantTypes DEF FrameSense, Handshakes, Frames
  <2> PICK x \in Prompts : x = f.p
    BY <2>2
  <2>3. /\ turns < MaxTurns /\ turns' = turns + 1 /\ turns + 1 \in Turns
        /\ active' = [ NoTurn EXCEPT !.turn = turns + 1, !.prompt = IF vibe THEN None ELSE x, !.stray = vibe \/ x \in finished ]
        /\ of' = [ of EXCEPT ![turns + 1] = x ]
        /\ late' = IF record.turn # None /\ of[record.turn] \notin { None, x }
                     THEN [ late EXCEPT ![of[record.turn]] = "unknown" ] ELSE late
        /\ UNCHANGED finished
    BY <1>0, <1>6, ReadOpensType DEF Grok
  <2>4. Current' = turns + 1 /\ Current' # None
    <3>1. active'.turn = turns + 1
      BY <2>3, Zenon DEF NoTurn
    <3>2. turns + 1 \in Turns /\ None \notin Turns
      BY <2>3, ConstantTypes
    <3>3. active' # NoTurn
      BY <3>1, <3>2, ConstantTypes
    <3> QED BY <3>1, <3>2, <3>3 DEF Current
  <2>5. of'[turns + 1] = x /\ of[turns + 1] = None /\ \A t \in Turns : t # turns + 1 => of'[t] = of[t]
    <3>1. turns + 1 > turns
      BY <1>0, Numbers
    <3> QED BY <1>0, <2>3, <3>1 DEF TypeOK, Counted
  <2>6. \A p \in Prompts : p # x => (HasTurn(p)' => HasTurn(p))
    BY <2>5 DEF HasTurn
  <2>7. \A p \in Prompts : late'[p] # "unknown" => late'[p] = late[p]
    BY <1>0, <2>3 DEF TypeOK
  <2>8. LateKnown'
    BY <2>3, <2>7, LateKnownSame
  <2>9. \A p \in Prompts : Pending(p)' /\ p # x => ~HasTurn(p)'
    <3> SUFFICES ASSUME NEW p \in Prompts, Pending(p)', p # x, HasTurn(p)' PROVE FALSE
      OBVIOUS
    <3>1. HasTurn(p) /\ p <= last /\ p # None
      BY <1>0, <2>6, TurnsThere
    <3>2. Pending(p) /\ late'[p] = "no"
      BY <2>3, <2>7, <3>1, Shrinks DEF Pending
    <3>3. record.turn # None /\ of[record.turn] = p
      BY <1>0, <2>1, <3>1, <3>2 DEF TurnsNamed, Current
    <3>4. late'[p] = "unknown"
      BY <1>0, <2>3, <3>1, <3>3 DEF TypeOK
    <3> QED BY <3>2, <3>4
  <2>10. ~Waits(x)'
    <3>1. x \in Nat /\ run \in Nat /\ x # None
      BY <1>0, Numbers
    <3> QED BY <1>0, <1>1, <2>2, <3>1 DEF Waits, WorkOrder
  <2>11. \A q \in Prompts : RosterNames(q)' => x <= q
    <3> SUFFICES ASSUME NEW q \in Prompts, RosterNames(q)' PROVE x <= q
      OBVIOUS
    <3>1. active' # NoTurn
      BY <2>3, <2>4, ConstantTypes, Zenon DEF NoTurn
    <3>2. PICK i \in At' : line'[i].t = "roster" /\ line'[i].p = q
      BY <3>1 DEF RosterNames, Printed
    <3>3. i + 1 \in At /\ line'[i] = line[i + 1] /\ i >= 1 /\ i \in Nat
      BY <1>0, <1>1, Moved
    <3>4. Heard(q, i + 1)
      <4>1. q # None
        BY ConstantTypes
      <4> QED BY <1>0, <3>2, <3>3, <4>1 DEF Rosters
    <3>5. ~ (1 > i + 1) /\ IsPrompt(line[1])
      BY <1>2, <2>1, <3>3 DEF IsPrompt
    <3> QED BY <1>2, <3>4, <3>5 DEF Heard
  <2> QED BY <1>0, <2>4, <2>5, <2>8, <2>9, <2>10, <2>11, NamesOpens
<1> QED BY <1>0, <1>3, <1>4, <1>5, <1>6, ReadCases

\* No roster is under way in a session.
LEMMA NoRosters ==
  ASSUME HandshakeOrder', stage' = "ready"
  PROVE  \A q : ~RosterNames(q)'
<1>1. Expected' = {}
  BY DEF Expected
<1>2. \A i \in At' : line'[i].t # "roster"
  BY <1>1 DEF HandshakeOrder, Handshakes
<1>3. \A q : due' # Frame("roster", q)
  <2> SUFFICES ASSUME NEW q, due' = Frame("roster", q) PROVE FALSE
    OBVIOUS
  <2>1. due'.t = "roster" /\ due' # NoFrame
    BY DEF Frame, NoFrame
  <2> QED BY <1>1, <2>1 DEF HandshakeOrder
<1> QED BY <1>2, <1>3 DEF RosterNames, Printed

LEMMA NamesListedStep ==
  ASSUME Inv, [Next]_vars, Grok, Listed
  PROVE  Names'
<1>0. /\ TypeOK /\ Told /\ Counted /\ HandshakeOrder /\ TurnsNamed /\ QueueSole /\ RosterSole /\ WorkOrder /\ Rosters /\ TurnStages
      /\ TypeOK' /\ WorkOrder' /\ HandshakeOrder'
  BY NamesParts, ProcessOrderParts, TurnStateParts, TypeStep, WorkOrderStep, HandshakeOrderStep DEF Inv
<1>1. /\ UNCHANGED << run, queue, own, done, line, mine, finished, late >> /\ due.t = "roster" /\ stage' = "ready"
      /\ due \in Frames
  BY <1>0 DEF Listed, HandshakeFrame, process, client, TypeOK
<1>2. LateKnown'
  BY <1>1, LateKnownSame
<1>3. \A q : ~RosterNames(q)'
  BY <1>0, <1>1, NoRosters
<1>4. due.p # None => due.p \in Prompts /\ due = Frame("roster", due.p) /\ Heard(due.p, 0)
  BY <1>0, <1>1, ConstantTypes DEF Frames, Frame, Rosters
<1>5. \A p \in Prompts : (Waits(p)' <=> Waits(p)) /\ (Pending(p)' <=> Pending(p))
  BY <1>1 DEF Pending, Live, InProcess, Waits, Printed, At
<1>6. CASE ListedKeeps
  BY <1>1, <1>6, NamesSame DEF ListedKeeps, Current
<1>7. CASE ListedTakes
  <2>1. /\ active = NoTurn /\ record.turn # None /\ of' = of
        /\ active' = [ NoTurn EXCEPT !.turn = record.turn, !.stray = ~Awaited(due.p, "completed") ]
    BY <1>7 DEF ListedTakes
  <2>2. active'.turn = record.turn
    BY <2>1, Zenon DEF NoTurn
  <2>3. active' # NoTurn
    <3>1. active'.turn # None
      BY <2>1, <2>2
    <3> QED BY <3>1, ConstantTypes
  <2> QED BY <1>1, <2>1, <2>2, <2>3, NamesSame DEF Current
<1>8. CASE ListedDrops
  <2>1. due.p = None /\ record' = NoRecord /\ UNCHANGED << active, of >>
    BY <1>8 DEF ListedDrops
  <2>2. CASE active # NoTurn
    BY <1>1, <2>1, <2>2, NamesSame DEF Current
  <2>3. CASE active = NoTurn
    <3>1. OwnAfter(0)
      BY <1>0, <1>1, <2>1 DEF Rosters
    <3>2. \A i \in At : i > 0
      BY <1>0, Numbers DEF At, TypeOK
    <3>3. \A p \in Prompts : Live(p)' => p \in own'
      BY <1>0, <1>1, <3>1, <3>2, ConstantTypes DEF OwnAfter, Live, InProcess, Waits, Printed, At, IsPrompt, IsSignal
    <3> QED BY <1>2, <2>1, <3>3, NamesVoid
  <2> QED BY <2>2, <2>3
<1>9. CASE ListedMoves
  <2>1. /\ active = NoTurn /\ record.turn # None /\ due.p # None
        /\ active' = [ NoTurn EXCEPT !.turn = record.turn, !.stray = ~Awaited(due.p, "completed") ]
        /\ of' = [ of EXCEPT ![record.turn] = due.p ]
    BY <1>9 DEF ListedMoves
  <2> PICK x \in Prompts : x = due.p
    BY <1>4, <2>1
  <2> PICK c \in Turns : c = record.turn
    BY <1>0, <2>1 DEF TypeOK
  <2>2. Current = c /\ Current' = c /\ c # None
    <3>1. active'.turn = c
      BY <2>1, Zenon DEF NoTurn
    <3>2. active' # NoTurn
      BY <3>1, ConstantTypes
    <3> QED BY <2>1, <3>1, <3>2, ConstantTypes DEF Current
  <2>3. of'[c] = x /\ \A t \in Turns : t # c => of'[t] = of[t]
    BY <1>0, <2>1 DEF TypeOK
  <2>4. Sole(x)
    BY <1>0, <1>4, <2>1 DEF RosterSole, RosterNames
  <2>5. \A p \in Prompts : Pending(p) => p >= x
    <3> SUFFICES ASSUME NEW p \in Prompts, Pending(p) PROVE p >= x
      OBVIOUS
    <3>1. Heard(x, 0)
      BY <1>4, <2>1
    <3>2. \A i \in At : i > 0
      BY <1>0, Numbers DEF At, TypeOK
    <3>3. p # None
      BY ConstantTypes
    <3> QED BY <3>1, <3>2, <3>3 DEF Heard, Pending, Live, InProcess, Waits, Printed, IsPrompt, IsSignal
  <2>6. \A p \in Prompts : Pending(p)' /\ p # x => ~HasTurn(p)'
    <3> SUFFICES ASSUME NEW p \in Prompts, Pending(p)', p # x, NEW t \in Turns, of'[t] = p PROVE FALSE
      BY DEF HasTurn
    <3>1. Pending(p) /\ p > x
      <4>1. Pending(p) /\ p >= x /\ p \in Nat /\ x \in Nat
        BY <1>0, <1>5, <2>5, Numbers
      <4> QED BY <4>1
    <3>2. t # c /\ of[t] = p
      BY <2>3
    <3> QED BY <2>2, <2>4, <3>1, <3>2 DEF Sole, Only
  <2>7. Waits(x)' /\ late'[x] = "no" => Only(x)'
    <3> SUFFICES ASSUME Waits(x)', late'[x] = "no", NEW t \in Turns, of'[t] = x PROVE t = c
      BY <2>2 DEF Only
    <3>1. Only(x)
      BY <1>0, <1>1, <1>5, QueueSoleByPrompt
    <3> QED BY <2>2, <2>3, <3>1 DEF Only
  <2> QED BY <1>0, <1>2, <1>3, <2>2, <2>3, <2>6, <2>7, NamesOpens
<1>10. CASE ListedOpens
  <2>1. /\ active = NoTurn /\ record.turn = None /\ due.p # None /\ turns < MaxTurns
        /\ active' = [ NoTurn EXCEPT !.turn = turns + 1, !.stray = ~Awaited(due.p, "completed") ]
        /\ of' = [ of EXCEPT ![turns + 1] = due.p ]
    BY <1>10 DEF ListedOpens
  <2> PICK x \in Prompts : x = due.p
    BY <1>4, <2>1
  <2> PICK c \in Turns : c = turns + 1
    BY <1>0, <2>1, BoundAssumption DEF TypeOK, Turns
  <2>2. Current = None /\ Current' = c /\ c # None
    <3>1. active'.turn = c
      BY <2>1, Zenon DEF NoTurn
    <3>2. active' # NoTurn
      BY <3>1, ConstantTypes
    <3> QED BY <2>1, <3>1, <3>2, ConstantTypes DEF Current
  <2>3. of'[c] = x /\ of[c] = None /\ \A t \in Turns : t # c => of'[t] = of[t]
    <3>1. c > turns
      BY <1>0, Numbers
    <3> QED BY <1>0, <2>1, <3>1 DEF TypeOK, Counted
  <2>4. \A p \in Prompts : Pending(p)' => ~HasTurn(p)
    BY <1>0, <1>5, <2>2 DEF TurnsNamed
  <2>5. \A p \in Prompts : Pending(p)' /\ p # x => ~HasTurn(p)'
    BY <2>3, <2>4 DEF HasTurn
  <2>6. Waits(x)' /\ late'[x] = "no" => Only(x)'
    <3> SUFFICES ASSUME Waits(x)', late'[x] = "no", NEW t \in Turns, of'[t] = x PROVE t = c
      BY <2>2 DEF Only
    <3>1. Pending(x)'
      BY <1>0 DEF Pending, InProcess, Waits, WorkOrder
    <3> QED BY <2>3, <2>4, <3>1 DEF HasTurn
  <2> QED BY <1>0, <1>2, <1>3, <2>2, <2>3, <2>5, <2>6, NamesOpens
<1> QED BY <1>0, <1>6, <1>7, <1>8, <1>9, <1>10, ListedCases

LEMMA NamesStep ==
  ASSUME Inv, [Next]_vars
  PROVE  Names'
<1>0. /\ TypeOK /\ Told /\ Counted /\ HandshakeOrder /\ WorkOrder /\ Holding /\ Rosters
      /\ TurnStages /\ TurnSends /\ TurnRecords /\ TypeOK' /\ WorkOrder' /\ HandshakeOrder' /\ vibe' = vibe
  <2>1. vibe' = vibe
    BY ProviderSame
  <2>2. TypeOK' /\ WorkOrder' /\ HandshakeOrder'
    BY TypeStep, WorkOrderStep, HandshakeOrderStep
  <2>3. WorkOrder /\ Holding /\ TurnStages /\ TurnSends /\ TurnRecords
    BY ProcessOrderParts, TurnStateParts DEF Inv
  <2> QED BY <2>1, <2>2, <2>3 DEF Inv
<1> SUFFICES ASSUME Grok PROVE Names'
  BY <1>0, NamesParts DEF Grok
<1>13. TurnsNamed
  BY NamesParts DEF Inv
<1>1. CASE Process \/ SendBegins \/ SendFails \/ SendWrites \/ Greeted \/ Away \/ ExitsUnheard \/ UNCHANGED vars
  <2>1. Process => UNCHANGED ProcessFrame
    BY DEF Process, AnswersHandshake, Begins, OwnWake, PrintsContent, Ends, Refuses
  <2>2. UNCHANGED << session, history >>
    BY <1>1, <2>1 DEF ProcessFrame, SendBegins, SendFails, SendWrites, Greeted, Away, ExitsUnheard, vars, session, history
  <2> QED BY <2>2, NamesSame DEF session, history, Current
<1>2. CASE Read
  BY <1>2, NamesReadStep
<1>3. CASE \E p \in Prompts : Settle(p)
  <2> PICK p \in Prompts : Settle(p)
    BY <1>3
  <2>1. CASE SettleQuiet(p)
    BY <2>1, NamesSame DEF SettleQuiet, session, history, Current
  <2>2. CASE SettleEnds(p)
    <3>1. p \in done
      BY <2>2, EndsComeParts DEF Inv, AnswersCome, SettleEnds
    <3>2. active # NoTurn /\ Finalize(p, {p} \ failed) /\ of' = of
      BY <2>2, ConstantTypes DEF SettleEnds
    <3> QED BY <3>1, <3>2, NamesFinalize
  <2> QED BY <2>1, <2>2, SettleCases
<1>4. CASE GraceExpires
  <2>1. active # NoTurn /\ Finalize(None, {}) /\ of' = of
    BY <1>4, ConstantTypes DEF GraceExpires
  <2> QED BY <2>1, NamesFinalize
<1>5. CASE Interrupt
  <2>1. UNCHANGED << of, late, finished, record >> /\ active # NoTurn /\ active' = [ active EXCEPT !.timer = TRUE ]
    BY <1>5 DEF Interrupt, history
  <2>2. active \in ActiveType /\ active.turn # None
    BY <1>0, <2>1 DEF TypeOK, ActiveType, Told
  <2>3. active'.turn = active.turn
    BY <2>1, <2>2 DEF ActiveType
  <2>4. active' # NoTurn
    BY <2>2, <2>3, ConstantTypes
  <2> QED BY <2>1, <2>3, <2>4, NamesSame DEF Current
<1>6. CASE SendConfirmed
  <2>1. /\ UNCHANGED << run, queue, own, done, line, mine, finished, late, stage >> /\ sending.s = "written" /\ turns < MaxTurns
        /\ active' = [ [ NoTurn EXCEPT !.user = TRUE ] EXCEPT !.turn = turns + 1 ] /\ of' = [ of EXCEPT ![turns + 1] = sending.p ]
    BY <1>6 DEF SendConfirmed, SessionFrame, shake, BeginTurn, process
  <2>2. /\ active = NoTurn /\ stage = "ready" /\ record = NoRecord /\ sending.p \in mine /\ \A t \in Turns : of[t] # sending.p
    BY <1>0, <2>1, ConstantTypes DEF TurnStages, TurnSends
  <2> PICK x \in Prompts : x = sending.p
    BY <1>0, <2>2 DEF TypeOK
  <2> PICK c \in Turns : c = turns + 1
    BY <1>0, <2>1, BoundAssumption DEF TypeOK, Turns
  <2>3. Current = None /\ Current' = c /\ c # None
    <3>1. active'.turn = c
      BY <2>1, Zenon DEF NoTurn
    <3>2. active' # NoTurn
      BY <3>1, ConstantTypes
    <3> QED BY <2>2, <3>1, <3>2, ConstantTypes DEF Current
  <2>4. of'[c] = x /\ of[c] = None /\ \A t \in Turns : t # c => of'[t] = of[t]
    <3>1. c > turns
      BY <1>0, Numbers
    <3> QED BY <1>0, <2>1, <3>1 DEF TypeOK, Counted
  <2>5. \A p \in Prompts : Pending(p)' => ~HasTurn(p)
    <3>1. \A p \in Prompts : Pending(p)' => Pending(p)
      BY <2>1 DEF Pending, Live, InProcess, Waits, Printed, At
    <3> QED BY <1>13, <2>3, <3>1 DEF TurnsNamed
  <2>6. \A p \in Prompts : Pending(p)' /\ p # x => ~HasTurn(p)'
    BY <2>4, <2>5 DEF HasTurn
  <2>7. Only(x)'
    BY <2>2, <2>3, <2>4 DEF Only
  <2>8. LateKnown'
    BY <2>1, LateKnownSame
  <2>9. \A q : ~RosterNames(q)'
    BY <1>0, <2>1, <2>2, NoRosters
  <2> QED BY <1>0, <2>3, <2>4, <2>6, <2>7, <2>8, <2>9, NamesOpens
<1>7. CASE Connect
  <2>1. /\ stage = "closed" /\ UNCHANGED << active, finished, late, of, run, queue, line >> /\ record' = IF alive THEN record ELSE NoRecord
    BY <1>7 DEF Connect, history
  <2>2. CASE alive
    BY <2>1, <2>2, NamesSame DEF Current
  <2>3. CASE ~alive
    <3>1. run' = None /\ queue' = << >> /\ line' = << >>
      BY <1>0, <2>1, <2>3 DEF Holding, HandshakeOrder
    <3>2. \A p \in Prompts : ~Live(p)'
      BY <3>1, ConstantTypes DEF Live, InProcess, Waits, Printed, At
    <3> QED BY <2>1, <3>2, LateKnownSame, NamesVoid
  <2> QED BY <2>2, <2>3
<1>8. CASE Loaded
  <2>1. due.t = "loaded" /\ UNCHANGED << run, queue, own, line, late, finished, of, active >>
    BY <1>8 DEF Loaded, HandshakeFrame, process, history
  <2>2. OwnAfter(0)
    BY <1>0, <2>1, DueStage DEF Rosters
  <2>3. \A i \in At : i > 0
    BY <1>0, Numbers DEF At, TypeOK
  <2>4. \A p \in Prompts : Live(p)' => p \in own'
    BY <2>1, <2>2, <2>3, ConstantTypes DEF OwnAfter, Live, InProcess, Waits, Printed, At, IsPrompt, IsSignal
  <2> QED BY <2>1, <2>4, LateKnownSame, NamesVoid
<1>9. CASE Listed
  BY <1>9, NamesListedStep
<1>10. ~Reattached
  BY DEF Reattached, Grok
<1>11. CASE ExitsHeard
  <2>1. run' = None /\ queue' = << >> /\ line' = << >> /\ of' = of
    BY <1>11 DEF ExitsHeard, Close
  <2>2. \A p \in Prompts : ~Live(p)'
    BY <2>1, ConstantTypes DEF Live, InProcess, Waits, Printed, At
  <2> QED BY <2>1, <2>2, NamesVoid DEF LateKnown
<1>12. CASE Disconnected \/ Restart
  <2>1. /\ line' = << >> /\ due' = NoFrame /\ UNCHANGED << run, queue, own, of >> /\ active' = NoTurn
        /\ \E l : late' = Forgotten(l)
    BY <1>12, DisconnectedCases DEF Disconnected, LostTurn, LostIdle, Restart, Close
  <2>2. LateKnown'
    BY <2>1, LateKnownForgotten
  <2>3. \A p \in Prompts : (InProcess(p)' <=> InProcess(p)) /\ (Live(p)' <=> InProcess(p))
    BY <2>1 DEF Live, InProcess, Waits, Printed, At
  <2>4. \A p \in Prompts : late'[p] = "no" => late[p] = "no"
    <3>1. CASE late' = Forgotten(late)
      BY <3>1 DEF Forgotten
    <3>2. CASE late' = Forgotten([ late EXCEPT ![of[active.turn]] = "known" ])
      BY <1>0, <3>2 DEF Forgotten, TypeOK
    <3> QED BY <1>12, <3>1, <3>2, DisconnectedCases DEF LostTurn, LostIdle, Restart
  <2>5. \A p \in Prompts : Pending(p)' => Pending(p)
    BY <2>1, <2>3, <2>4 DEF Pending
  <2>6. CASE Current' = Current
    <3>1. \A q : ~RosterNames(q)'
      <4>1. \A q : due' # Frame("roster", q)
        <5> SUFFICES ASSUME NEW q, due' = Frame("roster", q) PROVE FALSE
          OBVIOUS
        <5>1. due'.t = "roster" /\ due'.t = "none"
          BY <2>1, ConstantTypes DEF Frame
        <5> QED BY <5>1
      <4> QED BY <2>1, <4>1 DEF RosterNames, Printed, At
    <3> QED BY <2>1, <2>2, <2>4, <2>5, <2>6, <3>1, NamesKept
  <2>7. ASSUME active # NoTurn, \A p \in Prompts : Pending(p)' => of[active.turn] # p
        PROVE  Names'
    <3>1. \A p \in Prompts : Pending(p)' => ~HasTurn(p)'
      BY <1>13, <2>1, <2>5, <2>7 DEF TurnsNamed, HasTurn, Current
    <3> QED BY <1>0, <2>2, <3>1, NamesClean
  <2>8. CASE LostTurn
    <3>1. active.turn \in Turns
      BY <1>0, <2>8 DEF LostTurn, Told, TypeOK
    <3>2. of[active.turn] \in Prompts => late'[of[active.turn]] = "unknown"
      BY <1>0, <2>8, <3>1 DEF LostTurn, Forgotten, Grok, TypeOK
    <3> QED BY <2>7, <2>8, <3>2 DEF LostTurn, Pending
  <2>9. CASE LostIdle
    BY <2>6, <2>9 DEF LostIdle, Current
  <2>10. CASE Restart
    <3>1. record' = record
      BY <2>10 DEF Restart
    <3>2. CASE active = NoTurn
      BY <2>1, <2>6, <3>1, <3>2 DEF Current
    <3>3. CASE active # NoTurn /\ record = NoRecord
      <4>1. of[active.turn] \in own \cup silent /\ silent \subseteq done /\ done \subseteq Prompts
        BY <1>0, <3>3 DEF TurnRecords, TypeOK
      <4>2. \A p \in Prompts : Pending(p)' => p \notin own /\ InProcess(p)
        BY <2>1, <2>3 DEF Pending
      <4>3. \A p \in Prompts : p \in done => ~InProcess(p)
        BY <1>0, DoneIdle
      <4> QED BY <2>7, <3>3, <4>1, <4>2, <4>3
    <3>4. CASE active # NoTurn /\ record.turn = active.turn
      <4>1. Current' = Current
        BY <2>1, <3>1, <3>4 DEF Current
      <4> QED BY <2>6, <4>1
    <3> QED BY <1>0, <3>2, <3>3, <3>4 DEF TurnRecords
  <2> QED BY <1>12, <2>8, <2>9, <2>10, DisconnectedCases
<1> QED BY <1>1, <1>2, <1>3, <1>4, <1>5, <1>6, <1>7, <1>8, <1>9, <1>10, <1>11, <1>12, ExitsCases DEF Next, Backend

-----------------------------------------------------------------------------
(***************************************************************************)
(* What ended the last turn.                                               *)
(***************************************************************************)
LEMMA InitCauses == Init => Causes
BY DEF Init, Causes

OverWire(p) ==
    p \in done /\ ~Printed("content", p) /\ ~Printed("roster", p) /\ due # Frame("roster", p) /\ sending.p # p

\* A prompt that is over does not come up again.
LEMMA OverWireKept ==
  ASSUME Inv, [Next]_vars, Grok, NEW p \in Prompts, OverWire(p)
  PROVE  OverWire(p)'
<1>0. /\ TypeOK /\ HandshakeOrder /\ Holding /\ LineOrder /\ WorkOrder /\ p \in done /\ p # None /\ ~InProcess(p) /\ p <= last /\ last \in Nat
      /\ p \in Nat
  BY ProcessOrderParts, DoneIdle, Numbers DEF Inv, OverWire, Counted
<1>1. ASSUME done \subseteq done', sending'.p \in { sending.p, None }, Printed("content", p)' => Printed("content", p),
             Printed("roster", p)' => Printed("roster", p), due' = Frame("roster", p) => due' = due \/ Printed("roster", p)
      PROVE  OverWire(p)'
  BY <1>0, <1>1 DEF OverWire
<1>2. CASE AnswersHandshake
  <2>1. UNCHANGED << due, sending, done >>
    BY <1>2 DEF AnswersHandshake, ProcessFrame, client
  <2>2. p # (IF run # None THEN run ELSE IF queue # << >> THEN Head(queue) ELSE None)
    <3>1. queue # << >> => Head(queue) = queue[1] /\ 1 \in DOMAIN queue
      BY <1>0, Numbers
    <3> QED BY <1>0, <3>1 DEF InProcess, Waits
  <2>3. Printed("roster", p)' => Printed("roster", p)
    BY <1>0, <1>2, <2>2, PrintedAnswers
  <2>4. Printed("content", p)' => Printed("content", p)
    BY <1>0, <1>2, PrintedAnswers DEF Handshakes
  <2> QED BY <1>1, <2>1, <2>3, <2>4
<1>3. CASE Works
  <2>1. sending' = sending /\ due' = due /\ done \subseteq done'
    BY <1>0, <1>3, WorksMoves DEF Works, Begins, OwnWake, PrintsContent, Ends, ProcessFrame, client
  <2>2. \A k : Printed(k, p)' => Printed(k, p)
    BY <1>0, <1>3, PrintedWorks DEF InProcess
  <2> QED BY <1>1, <2>1, <2>2
<1>4. ~Refuses
  BY <1>0, NeverRefuses
<1>5. CASE Read
  <2>1. line # << >> /\ line' = Tail(line) /\ due' \in { due, Head(line) } /\ UNCHANGED << done, sending >>
    BY <1>0, <1>5, ReadKeeps DEF Pops, process
  <2>2. (\A i \in At' : i + 1 \in At /\ line'[i] = line[i + 1]) /\ 1 \in At /\ Head(line) = line[1]
    BY <1>0, <2>1, Moved
  <2>3. \A k : Printed(k, p)' => Printed(k, p)
    BY <2>2 DEF Printed
  <2>4. due' = Frame("roster", p) => due' = due \/ Printed("roster", p)
    BY <2>1, <2>2, ConstantTypes DEF Printed
  <2> QED BY <1>1, <2>1, <2>3, <2>4
<1>6. CASE SendWrites
  <2>1. UNCHANGED << line, due, done >> /\ sending'.p = last + 1
    BY <1>6 DEF SendWrites, SessionFrame, shake
  <2>2. sending'.p # p
    BY <1>0, <2>1
  <2> QED BY <2>1, <2>2 DEF OverWire, Printed, At
<1>7. CASE Connect \/ Calm \/ ExitsUnheard
  <2>1. line' = line /\ due' \in { due, NoFrame } /\ done' = done
    BY <1>7 DEF Connect, Calm, ExitsUnheard
  <2>2. sending'.p \in { sending.p, None }
    BY <1>7, ConstantTypes DEF Connect, Calm, ExitsUnheard, client, NotSending
  <2>3. NoFrame # Frame("roster", p)
    BY ConstantTypes
  <2> QED BY <1>1, <2>1, <2>2, <2>3 DEF Printed, At
<1>8. CASE Cuts
  <2>1. line' = << >> /\ due' = NoFrame /\ sending' = NotSending /\ done' = done
    BY <1>8 DEF Cuts, Close
  <2>2. due' # Frame("roster", p)
    BY <2>1, ConstantTypes
  <2> QED BY <1>1, <2>1, <2>2, ConstantTypes DEF Printed, At
<1> QED BY <1>2, <1>3, <1>4, <1>5, <1>6, <1>7, <1>8, WireCases DEF Process, Works

LEMMA OverParts == \A p : (IsOver(p) <=> OverWire(p) /\ (Current # None => of[Current] # p))
BY DEF IsOver, OverWire

LEMMA CausesKept ==
  ASSUME Inv, [Next]_vars, vibe' = vibe, cause' = cause, cause.by # None => of'[cause.turn] = of[cause.turn],
         \A p \in Prompts : Grok /\ IsOver(p) =>
            /\ late[p] = "unknown" => late'[p] = "unknown"
            /\ HasTurn(p)' => HasTurn(p)
            /\ Current' # None => of'[Current'] # p
  PROVE  Causes'
<1> SUFFICES ASSUME cause.by # None, of[cause.turn] # cause.by PROVE Causes'
  BY DEF Causes
<1> PICK p \in Prompts : p = cause.by
  BY DEF Inv, TypeOK
<1>1. Grok /\ (p \in own \/ late[p] = "unknown" \/ ~HasTurn(p)) /\ IsOver(p)
  BY DEF Inv, Causes
<1>2. OverWire(p)'
  BY <1>1, OverParts, OverWireKept
<1>3. p \in own' \/ late'[p] = "unknown" \/ ~HasTurn(p)'
  BY <1>1, Shrinks
<1>4. IsOver(p)'
  BY <1>1, <1>2 DEF OverWire, IsOver
<1> QED BY <1>1, <1>3, <1>4 DEF Causes, Grok

LEMMA CausesSame ==
  ASSUME Inv, [Next]_vars, UNCHANGED << vibe, cause, of >>, Current' \in { Current, None },
         Grok => \A p \in Prompts : late[p] = "unknown" => late'[p] = "unknown"
  PROVE  Causes'
<1>1. \A p : HasTurn(p)' <=> HasTurn(p)
  BY DEF HasTurn
<1> QED BY <1>1, CausesKept DEF IsOver

\* A turn begins, or goes on, for prompt x.
LEMMA CausesOpens ==
  ASSUME Inv, [Next]_vars, UNCHANGED << vibe, cause >>, NEW c \in Turns, NEW x, of' = [ of EXCEPT ![c] = x ],
         c = turns + 1 \/ c = record.turn, Current' \in { c, None },
         Grok => \A p \in Prompts : late[p] = "unknown" => late'[p] = "unknown",
         Grok => ~OverWire(x)
  PROVE  Causes'
<1>0. /\ of'[c] = x /\ \A t \in Turns : t # c => of'[t] = of[t]
  BY DEF Inv, TypeOK
<1>1. cause.by # None => cause.turn \in Turns /\ cause.turn # c
  <2>1. cause.by # None => cause.turn \in told /\ cause.turn <= turns /\ cause.turn # record.turn
    BY DEF Inv, Told
  <2>2. told \subseteq Turns /\ turns \in Nat
    BY DEF Inv, TypeOK
  <2>3. \A t \in Turns : t <= turns => t # turns + 1
    BY <2>2 DEF Turns
  <2> QED BY <2>1, <2>2, <2>3
<1>2. ASSUME NEW p \in Prompts, Grok, IsOver(p)
      PROVE  (HasTurn(p)' => HasTurn(p)) /\ (Current' # None => of'[Current'] # p)
  <2>1. p # x
    BY <1>2, OverParts
  <2> QED BY <1>0, <2>1 DEF HasTurn
<1> QED BY <1>0, <1>1, <1>2, CausesKept

\* A signal that ends Grok's turn is of the prompt of the turn, or of one that is over.
LEMMA CausesReadEnds ==
  ASSUME Inv, [Next]_vars, Grok, ReadEnds
  PROVE  Causes'
<1>0. /\ TypeOK /\ Told /\ HandshakeOrder /\ HandshakeOrder' /\ FrameSense /\ FrameOrder /\ TurnSends /\ Listing
      /\ TurnsNamed /\ LateKnown
  BY LineOrderParts, TurnStateParts, NamesParts, HandshakeOrderStep DEF Inv
<1> PICK f : f = Head(line)
  OBVIOUS
<1>1. /\ stage # "closed" /\ line # << >> /\ line' = Tail(line) /\ UNCHANGED << vibe, own, done, stage, sending, of >>
      /\ ~Unheard /\ IsSignal(f) /\ (f.t = "answer" => f.p \notin mine) /\ EndsActive(f.p) /\ Finalize(f.p, {f.p})
  BY DEF ReadEnds, Pops, process
<1>2. 1 \in At /\ f = line[1] /\ f \in Frames
  BY <1>0, <1>1, Moved
<1>3. f.p \in Prompts /\ f.p \in done
  BY <1>0, <1>1, <1>2, ConstantTypes DEF FrameSense, IsSignal, Handshakes, Frames
<1> PICK p \in Prompts : p = f.p
  BY <1>3
<1>4. active # NoTurn /\ p \notin finished /\ active.prompt \in { None, p } /\ active.turn \in Turns
  <2>1. active # NoTurn /\ p \notin finished /\ active.prompt \in { None, p }
    BY <1>1 DEF EndsActive, Grok
  <2> QED BY <1>0, <2>1 DEF Told, TypeOK
<1>5. /\ active' = NoTurn /\ record' = NoRecord /\ cause'.turn = active.turn /\ cause'.by = IF active.stray THEN None ELSE p
      /\ of[active.turn] # p => late'[p] = late[p]
  <2>1. /\ active' = NoTurn /\ record' = NoRecord /\ cause' = [ turn |-> active.turn, by |-> IF active.stray THEN None ELSE p ]
        /\ late' = late \/ \E k : late' = [ late EXCEPT ![of[active.turn]] = k ]
    BY <1>1 DEF Finalize
  <2> QED BY <1>0, <2>1 DEF TypeOK
<1> SUFFICES ASSUME ~active.stray, of[active.turn] # p PROVE Causes'
  BY <1>1, <1>5 DEF Causes
<1>6. stage = "ready"
  <2>1. stage # "listing"
    BY <1>0, <1>4, ConstantTypes DEF Listing
  <2> QED BY <1>0, <1>1, <2>1 DEF Unheard, TypeOK
<1>7. ~Printed("roster", p)' /\ due' # Frame("roster", p)
  <2>1. ~RosterNames(p)'
    BY <1>0, <1>1, <1>6, NoRosters
  <2> QED BY <1>5, <2>1 DEF RosterNames
<1>8. ~Printed("content", p)'
  <2> SUFFICES ASSUME NEW i \in At', line'[i].t = "content", line'[i].p = p PROVE FALSE
    BY DEF Printed
  <2>1. i + 1 \in At /\ line'[i] = line[i + 1] /\ i \in Nat /\ i >= 1
    BY <1>0, <1>1, Moved
  <2>2. 1 < i + 1 /\ IsPrompt(line[1]) /\ IsSignal(line[1]) /\ IsPrompt(line[i + 1]) /\ line[i + 1].t = "content"
    <3>1. 1 < i + 1
      BY <2>1
    <3>2. IsSignal(line[1]) /\ line[i + 1].t = "content"
      BY <1>1, <1>2, <2>1
    <3> QED BY <3>1, <3>2 DEF IsPrompt
  <2>3. p < p /\ p \in Nat
    BY <1>0, <1>2, <2>1, <2>2, Numbers DEF FrameOrder
  <2> QED BY <2>3
<1>9. sending'.p # p
  BY <1>0, <1>1, <1>4, ConstantTypes DEF TurnSends
<1>10. IsOver(p)'
  BY <1>1, <1>3, <1>5, <1>7, <1>8, <1>9, ConstantTypes DEF IsOver, Current
<1>11. p \in own \/ late[p] = "unknown" \/ ~HasTurn(p)
  <2> SUFFICES ASSUME p \notin own, late[p] # "unknown", HasTurn(p) PROVE FALSE
    OBVIOUS
  <2>1. Live(p)
    BY <1>1, <1>2 DEF Live, Printed, IsSignal
  <2>2. late[p] = "no"
    BY <1>0, <1>4, <2>1 DEF LateKnown, TypeOK
  <2>3. Pending(p)
    BY <1>4, <2>1, <2>2 DEF Pending
  <2> QED BY <1>0, <1>4, <2>3 DEF TurnsNamed, Current
<1>12. p \in own' \/ late'[p] = "unknown" \/ ~HasTurn(p)'
  BY <1>1, <1>5, <1>11 DEF HasTurn
<1> QED BY <1>1, <1>5, <1>10, <1>12 DEF Causes, Grok

\* The end that Vibe's store or a held answer tells is that of the recorded prompt.
LEMMA CausesReported ==
  ASSUME Inv, vibe, record # NoRecord, ReportsRecord, of' = of \/ \E x : of' = [ of EXCEPT ![turns + 1] = x ]
  PROVE  Causes'
<1>0. TypeOK /\ Told /\ TurnRecords /\ turns \in Nat
  BY TurnStateParts, Numbers DEF Inv
<1>1. record.turn # None /\ record.turn \in Turns /\ record.turn <= turns
  BY <1>0 DEF Told, TypeOK
<1>2. of[record.turn] = record.prompt
  BY <1>0, <1>1 DEF TurnRecords
<1>3. record.turn # turns + 1
  BY <1>0, <1>1 DEF Turns
<1>4. of'[record.turn] = record.prompt
  BY <1>0, <1>1, <1>2, <1>3 DEF TypeOK
<1> QED BY <1>4 DEF Causes, ReportsRecord

\* What the next connection finds of Vibe.
LEMMA CausesReattachedStep ==
  ASSUME Inv, [Next]_vars, Reattached
  PROVE  Causes'
<1>0. TypeOK /\ Told /\ TurnState /\ vibe /\ vibe' = vibe
  BY ProviderSame DEF Inv, Reattached
<1>1. CASE ReattachedHeard
  BY <1>0, <1>1, CausesReported DEF ReattachedHeard
<1>2. CASE ReattachedAdopts
  <2>1. record.turn # None /\ UNCHANGED << of, cause, record >>
    BY <1>0, <1>2 DEF ReattachedAdopts, Told
  <2>2. active' = [ NoTurn EXCEPT !.turn = record.turn, !.stray = ~Awaited(record.prompt, "answer") ]
    BY <1>2 DEF ReattachedAdopts
  <2>3. active'.turn = record.turn
    BY <2>2, Zenon DEF NoTurn
  <2>4. active = NoTurn
    <3>1. stage = "greeting"
      BY DueStage DEF Reattached, Inv
    <3> QED BY <1>0, <3>1 DEF TurnState
  <2>5. Current' = Current
    BY <2>1, <2>3, <2>4, ConstantTypes DEF Current
  <2> QED BY <1>0, <2>1, <2>5, CausesSame DEF Grok
<1>3. CASE ReattachedSettled
  <2>1. record' = NoRecord
    BY <1>3 DEF ReattachedSettled
  <2>2. CASE active' = NoTurn /\ UNCHANGED << turns, of >>
    <3>1. CASE record = NoRecord
      <4>1. cause' = cause
        BY <1>3, <3>1 DEF ReattachedSettled
      <4> QED BY <1>0, <2>1, <2>2, <4>1, CausesSame, ConstantTypes DEF Grok, Current
    <3>2. CASE record # NoRecord
      BY <1>0, <1>3, <2>2, <3>2, CausesReported DEF ReattachedSettled
    <3> QED BY <3>1, <3>2
  <2>3. CASE \E f \in early :
              /\ turns + 1 \in Turns
              /\ active' = [ NoTurn EXCEPT !.turn = turns + 1, !.stray = TRUE ] /\ of' = [ of EXCEPT ![turns + 1] = f.p ]
    <3> PICK f \in early :
              /\ turns + 1 \in Turns
              /\ active' = [ NoTurn EXCEPT !.turn = turns + 1, !.stray = TRUE ] /\ of' = [ of EXCEPT ![turns + 1] = f.p ]
      BY <2>3
    <3> PICK c \in Turns : c = turns + 1
      OBVIOUS
    <3>1. CASE record = NoRecord
      <4>1. cause' = cause
        BY <1>3, <3>1 DEF ReattachedSettled
      <4>2. active'.turn = c
        BY Zenon DEF NoTurn
      <4>3. Current' \in { c, None }
        BY <2>1, <4>2, ConstantTypes DEF Current
      <4> QED BY <1>0, <4>1, <4>3, CausesOpens DEF Grok
    <3>2. CASE record # NoRecord
      BY <1>0, <1>3, <3>2, CausesReported DEF ReattachedSettled
    <3> QED BY <3>1, <3>2
  <2>4. OpenHeld
    BY <1>3 DEF ReattachedSettled
  <2> QED BY <1>0, <2>2, <2>3, <2>4, OpensHeld
<1> QED BY <1>0, <1>1, <1>2, <1>3, ReattachedCases

LEMMA CausesListedStep ==
  ASSUME Inv, [Next]_vars, Listed
  PROVE  Causes'
<1>0. TypeOK /\ TypeOK' /\ vibe' = vibe /\ due \in Frames
  BY ProviderSame, TypeStep DEF Inv, TypeOK
<1>1. UNCHANGED << cause, late >> /\ due.t = "roster"
  BY DEF Listed
<1>2. due.p # None => ~OverWire(due.p)
  <2>1. due.p # None => due = Frame("roster", due.p)
    BY <1>0, <1>1 DEF Frames, Frame
  <2> QED BY <2>1 DEF OverWire
<1>3. ASSUME NEW c \in Turns, active' = [ NoTurn EXCEPT !.turn = c, !.stray = ~Awaited(due.p, "completed") ]
      PROVE  Current' = c
  <2>1. active'.turn = c
    BY <1>3, Zenon DEF NoTurn
  <2> QED BY <2>1, ConstantTypes DEF Current
<1>4. CASE ListedKeeps
  BY <1>0, <1>1, <1>4, CausesSame DEF ListedKeeps, Current
<1>5. CASE ListedDrops
  <2>1. UNCHANGED << active, of >> /\ record' = NoRecord
    BY <1>5 DEF ListedDrops
  <2> QED BY <1>0, <1>1, <2>1, CausesSame, ConstantTypes DEF Current
<1>6. CASE ListedTakes
  <2>1. active = NoTurn /\ record.turn \in Turns /\ of' = of
    BY <1>0, <1>6 DEF ListedTakes, TypeOK
  <2>2. Current' = record.turn
    BY <1>3, <1>6, <2>1 DEF ListedTakes
  <2> QED BY <1>0, <1>1, <2>1, <2>2, CausesSame DEF Current
<1>7. CASE ListedMoves
  <2>1. record.turn \in Turns /\ of' = [ of EXCEPT ![record.turn] = due.p ] /\ due.p # None
    BY <1>0, <1>7 DEF ListedMoves, TypeOK
  <2>2. Current' = record.turn
    BY <1>3, <1>7, <2>1 DEF ListedMoves
  <2> QED BY <1>0, <1>1, <1>2, <2>1, <2>2, CausesOpens
<1>8. CASE ListedOpens
  <2>1. turns + 1 \in Turns /\ of' = [ of EXCEPT ![turns + 1] = due.p ] /\ due.p # None
    BY <1>0, <1>8, BoundAssumption DEF ListedOpens, TypeOK, Turns
  <2>2. Current' = turns + 1
    BY <1>3, <1>8, <2>1 DEF ListedOpens
  <2> QED BY <1>0, <1>1, <1>2, <2>1, <2>2, CausesOpens
<1> QED BY <1>0, <1>4, <1>5, <1>6, <1>7, <1>8, ListedCases

LEMMA CausesReadStep ==
  ASSUME Inv, [Next]_vars, Read
  PROVE  Causes'
<1>0. TypeOK /\ Told /\ LineOrder /\ vibe' = vibe
  BY ProviderSame DEF Inv
<1>1. CASE ReadHandshake \/ ReadAnswer \/ ReadQuiet
  BY <1>0, <1>1, CausesSame DEF ReadHandshake, ReadAnswer, ReadQuiet, session, history, Current
<1>2. CASE ReadNames
  <2>1. active # NoTurn /\ UNCHANGED << of, late, cause, record >> /\ active' = [ active EXCEPT !.prompt = Head(line).p ]
    BY <1>2 DEF ReadNames, history
  <2>2. active'.turn = active.turn /\ active.turn # None
    BY <1>0, <2>1 DEF TypeOK, Told
  <2>3. Current' = Current
    <3>1. active' # NoTurn
      BY <2>2, ConstantTypes
    <3> QED BY <2>1, <2>2, <3>1 DEF Current
  <2> QED BY <1>0, <2>1, <2>3, CausesSame
<1>3. CASE ReadOpens
  <2> PICK f : f = Head(line)
    OBVIOUS
  <2>1. f.t = "content" /\ f = line[1] /\ 1 \in At
    BY <1>0, <1>3, Moved DEF ReadOpens, Pops
  <2>2. ~OverWire(f.p)
    BY <2>1 DEF OverWire, Printed
  <2>3. /\ turns + 1 \in Turns /\ cause' = cause /\ of' = [ of EXCEPT ![turns + 1] = f.p ]
        /\ active' = [ NoTurn EXCEPT !.turn = turns + 1, !.prompt = IF vibe THEN None ELSE f.p, !.stray = vibe \/ f.p \in finished ]
        /\ late' = late \/ \E q : late' = [ late EXCEPT ![q] = "unknown" ]
    BY <1>0, <1>3, ReadOpensType
  <2>4. Current' = turns + 1
    <3>1. active'.turn = turns + 1
      BY <2>3, Zenon DEF NoTurn
    <3>2. turns + 1 \in Turns /\ None \notin Turns
      BY <2>3, ConstantTypes
    <3>3. active' # NoTurn
      BY <3>1, <3>2, ConstantTypes
    <3> QED BY <3>1, <3>3 DEF Current
  <2>5. \A p \in Prompts : late[p] = "unknown" => late'[p] = "unknown"
    BY <1>0, <2>3 DEF TypeOK
  <2> QED BY <1>0, <2>2, <2>3, <2>4, <2>5, CausesOpens
<1>4. CASE ReadEnds
  <2>1. CASE Grok
    BY <1>4, <2>1, CausesReadEnds
  <2>2. CASE vibe
    <3>1. bound = Head(line).p /\ active # NoTurn /\ Finalize(Head(line).p, {Head(line).p}) /\ of' = of
      BY <1>4, <2>2 DEF ReadEnds, EndsActive
    <3>2. bound # None => of[active.turn] = bound
      BY DEF Inv, TurnState
    <3>3. cause'.turn = active.turn /\ cause'.by \in { None, bound }
      BY <3>1 DEF Finalize
    <3> QED BY <3>1, <3>2, <3>3 DEF Causes
  <2> QED BY <2>1, <2>2 DEF Grok
<1> QED BY <1>0, <1>1, <1>2, <1>3, <1>4, ReadCases

LEMMA CausesStep ==
  ASSUME Inv, [Next]_vars
  PROVE  Causes'
<1>0. TypeOK /\ Told /\ TurnState /\ vibe' = vibe
  BY ProviderSame DEF Inv
<1>1. CASE Process \/ SendBegins \/ SendFails \/ SendWrites \/ Greeted \/ Away \/ ExitsUnheard \/ UNCHANGED vars
  <2>1. Process => UNCHANGED ProcessFrame
    BY DEF Process, AnswersHandshake, Begins, OwnWake, PrintsContent, Ends, Refuses
  <2>2. UNCHANGED << session, history >>
    BY <1>1, <2>1 DEF ProcessFrame, SendBegins, SendFails, SendWrites, Greeted, Away, ExitsUnheard, vars, session, history
  <2> QED BY <1>0, <2>2, CausesSame DEF session, history, Current
<1>2. CASE Read
  BY <1>2, CausesReadStep
<1>3. CASE \E p \in Prompts : Settle(p)
  <2> PICK p \in Prompts : Settle(p)
    BY <1>3
  <2>1. CASE SettleQuiet(p)
    BY <1>0, <2>1, CausesSame DEF SettleQuiet, session, history, Current
  <2>2. CASE SettleEnds(p)
    <3>1. of[active.turn] = p /\ of' = of /\ cause'.turn = active.turn /\ cause'.by \in { None, p }
      BY <2>2 DEF SettleEnds, Finalize
    <3> QED BY <3>1 DEF Causes
  <2> QED BY <2>1, <2>2, SettleCases
<1>4. CASE GraceExpires \/ LostTurn
  <2>1. cause'.by = None
    BY <1>4 DEF GraceExpires, Finalize, LostTurn
  <2> QED BY <2>1 DEF Causes
<1>5. CASE Interrupt
  <2>1. UNCHANGED << of, late, cause, record >> /\ active # NoTurn /\ active' = [ active EXCEPT !.timer = TRUE ]
    BY <1>5 DEF Interrupt, history
  <2>2. active'.turn = active.turn /\ active.turn # None
    BY <1>0, <2>1 DEF TypeOK, Told
  <2>3. Current' = Current
    <3>1. active' # NoTurn
      BY <2>2, ConstantTypes
    <3> QED BY <2>1, <2>2, <3>1 DEF Current
  <2> QED BY <1>0, <2>1, <2>3, CausesSame
<1>6. CASE SendConfirmed
  <2>1. /\ UNCHANGED << cause, late >> /\ turns < MaxTurns
        /\ active' = [ [ NoTurn EXCEPT !.user = TRUE ] EXCEPT !.turn = turns + 1 ] /\ of' = [ of EXCEPT ![turns + 1] = sending.p ]
    BY <1>6 DEF SendConfirmed, BeginTurn
  <2> PICK c \in Turns : c = turns + 1
    BY <1>0, <2>1, BoundAssumption DEF TypeOK, Turns
  <2>2. active'.turn = c
    BY <2>1, Zenon DEF NoTurn
  <2>3. Current' = c
    BY <2>2, ConstantTypes DEF Current
  <2>4. ~OverWire(sending.p)
    BY DEF OverWire
  <2> QED BY <1>0, <2>1, <2>3, <2>4, CausesOpens
<1>7. CASE Connect
  <2>1. UNCHANGED << active, cause, late, of >> /\ record' \in { record, NoRecord } /\ stage = "closed"
    BY <1>7 DEF Connect, history
  <2>2. active = NoTurn
    BY <1>0, <2>1 DEF TurnState
  <2> QED BY <1>0, <2>1, <2>2, CausesSame, ConstantTypes DEF Current
<1>8. CASE Loaded
  <2>1. UNCHANGED << active, cause, late, of >> /\ record' = NoRecord /\ due.t = "loaded"
    BY <1>8 DEF Loaded, HandshakeFrame, history
  <2> QED BY <1>0, <2>1, CausesSame, ConstantTypes DEF Current
<1>9. CASE Listed
  BY <1>9, CausesListedStep
<1>10. CASE Reattached
  BY <1>10, CausesReattachedStep
<1>11. CASE ExitsHeard
  <2>1. UNCHANGED << cause, late, of >> /\ active' = NoTurn /\ record' = NoRecord
    BY <1>11 DEF ExitsHeard
  <2> QED BY <1>0, <2>1, CausesSame, ConstantTypes DEF Current
<1>12. CASE LostIdle \/ Restart
  <2>1. UNCHANGED << cause, of, record >> /\ late' = Forgotten(late) /\ active' = NoTurn
    BY <1>12 DEF LostIdle, Disconnected, Restart
  <2>2. \A p \in Prompts : late[p] = "unknown" => late'[p] = "unknown"
    BY <2>1 DEF Forgotten
  <2>3. Current' \in { Current, None }
    BY <1>0, <2>1, ConstantTypes DEF Current, TurnState
  <2> QED BY <1>0, <2>1, <2>2, <2>3, CausesSame
<1> QED BY <1>1, <1>2, <1>3, <1>4, <1>5, <1>6, <1>7, <1>8, <1>9, <1>10, <1>11, <1>12, ExitsCases, DisconnectedCases DEF Next, Backend

-----------------------------------------------------------------------------
(***************************************************************************)
(* The theorems.                                                           *)
(***************************************************************************)
LEMMA InvInit == Init => Inv
BY InitType, InitCounted, InitTold, InitProcessOrder, InitLineOrder, InitHandshakeOrder, InitRosters, InitTurnState,
   InitListing, InitEndsCome, InitNames, InitCauses DEF Inv

LEMMA InvStep == ASSUME Inv, [Next]_vars PROVE Inv'
BY TypeStep, CountedStep, ToldStep, ProcessOrderStep, LineOrderStep, HandshakeOrderStep, RostersStep, TurnStateStep,
   ListingStep, EndsComeStep, NamesStep, CausesStep DEF Inv

LEMMA Inductive == Spec => []Inv
<1>1. Inv /\ [Next]_vars => Inv'
  BY InvStep
<1> QED BY InvInit, <1>1, PTL DEF Spec

\* Every variable keeps its type, in the session, its handshake and the process.
THEOREM TypeCorrect == Spec => []TypeOK
<1>1. Inv => TypeOK
  BY DEF Inv
<1> QED BY <1>1, Inductive, PTL

\* A turn whose end was reported, by the process, an interrupt, a lost connection or Vibe's store, is
\* not in flight again: no later connection or backend adopts it, though turn records outlive both.
THEOREM EndsAreFinal == Spec => []EndIsFinal
<1>1. Inv => EndIsFinal
  BY DEF Inv, Told, EndIsFinal
<1> QED BY <1>1, Inductive, PTL

\* When the process has nothing more to do and all it printed was read, no turn is left that waits
\* for an end: onPromptResponse(), turn_completed, handleUnmatchedResponse() and the handshake
\* between them miss none, whatever connections were lost on the way.  A turn whose only word of its
\* end was an error answer is left, when Grok answers with it a prompt of an earlier connection; a
\* turn of this connection never is.
THEOREM IdleWhenDone == Spec => []TurnsEnd
<1>1. ASSUME Inv, AtRest, active # NoTurn, ~active.stray PROVE ~vibe /\ ~active.user /\ WaitedFor \in silent
  <2>1. /\ At = {} /\ DOMAIN queue = {} /\ answered = {} /\ run = None /\ queue = << >>
    BY <1>1 DEF AtRest, At
  <2>2. \A p \in Prompts : ~InProcess(p) /\ ~Answerable(p) /\ (\A k : ~Printed(k, p))
    BY <2>1, ConstantTypes DEF InProcess, Waits, Answerable, Printed
  <2>3. TypeOK /\ Told /\ TurnRecords /\ AnswersCome /\ BoundCome /\ NamedCome
    BY <1>1, TurnStateParts, EndsComeParts DEF Inv
  <2>4. active.turn \in Turns
    BY <1>1, <2>3 DEF TypeOK, Told
  <2>5. ~active.user
    <3>1. active.user => of[active.turn] \in Prompts
      BY <2>3, <2>4 DEF TurnRecords, TypeOK
    <3> QED BY <2>2, <2>3, <3>1 DEF AnswersCome
  <2>6. Grok
    <3> SUFFICES ASSUME vibe PROVE FALSE
      BY DEF Grok
    <3>1. bound \in Prompts /\ (InProcess(bound) \/ Printed("answer", bound))
      BY <1>1, <2>3, <2>5 DEF BoundCome, TypeOK
    <3> QED BY <2>2, <3>1
  <2>7. Completing(WaitedFor)
    BY <1>1, <2>3, <2>5, <2>6 DEF NamedCome
  <2>8. WaitedFor \in silent
    BY <2>2, <2>7 DEF Completing
  <2> QED BY <2>5, <2>6, <2>8 DEF Grok
<1>2. Inv => TurnsEnd
  BY <1>1 DEF TurnsEnd
<1> QED BY <1>2, Inductive, PTL

\* The end of a prompt that had a turn here, late or in time, ends no other turn: what the session
\* remembers of finished prompts and adopted requests tells the signals apart, but for a prompt
\* that nothing had named when its turn was closed or its error was read.
THEOREM EndsAreOwn == Spec => []EndIsOwn
<1>1. ASSUME Inv PROVE EndIsOwn
  <2> SUFFICES ASSUME cause.by \notin own \cup {None}, late[cause.by] # "unknown", \E t \in Turns : of[t] = cause.by
               PROVE  of[cause.turn] = cause.by
    BY DEF EndIsOwn
  <2> QED BY <1>1 DEF Inv, Causes, HasTurn
<1> QED BY <1>1, Inductive, PTL
=============================================================================
