---------------------------- MODULE CodexThread ----------------------------
(***************************************************************************)
(* One Codex thread and the backends that follow it                        *)
(* (providers/transport/codex: app-server-session.ts, app-server-instance. *)
(* ts, restart-state.ts, jsonrpc.ts).                                      *)
(*                                                                         *)
(* The app-server (external) runs turns, asks questions and prints frames  *)
(* on one ordered stream that its session host buffers.  A backend reads   *)
(* the stream, keeps a session object for the thread, and writes down what *)
(* the next backend needs: the turn it follows, the questions it holds and *)
(* how far it has read.  A connection may be lost, the backend may die,    *)
(* and the app-server may exit at any step; the next backend connects,     *)
(* reads what was printed meanwhile, resumes the thread and adopts what it *)
(* finds.                                                                  *)
(***************************************************************************)
EXTENDS Integers, FiniteSets, SequencesExt

CONSTANTS Asks,        \* server requests the thread may raise
          Questions,   \* those that can be shown to a person; the others are declined at once
          NoAsk,
          Trimming,    \* whether the host's buffer may have dropped lines before a connection
          MaxTurns,    \* bound: turns of the thread
          MaxAsks,     \* bound: requests raised
          MaxOps,      \* bound: requests of the Console
          MaxFaults    \* bound: lost connections, dead backends, unanswered requests, exits of
                       \* the app-server, closed threads

ASSUME AskAssumption == NoAsk \notin Asks /\ Questions \subseteq Asks /\ IsFiniteSet(Asks) /\ Trimming \in BOOLEAN
ASSUME BoundAssumption == { MaxTurns, MaxAsks, MaxOps, MaxFaults } \subseteq Nat

Turns == 1..MaxTurns

VARIABLES
  turnAt,    \* the server's turns: "none", "queued", "running", "over"
  ask,       \* the server's requests: "none", "open", "settled"
  askOf,     \* the turn that raised each
  owed,      \* answers to turn/start the server has not printed yet
  inbox,     \* what the Console wrote and the server has not handled
  log,       \* frames printed after the saved cursor, oldest first
  conn,      \* "none", "checking" (startClient), "up"
  read,      \* how many frames of `log` this backend has handled or taken as replay
  replay,    \* the replayed frames, between separateReplay and absorbReplay
  st,        \* the session object and what is written down for the next backend
  op,        \* the operation of the session in progress and the await it stands in
  nextId,    \* the next JSON-RPC request id
  faults,    \* how often something failed
  refused    \* history: requests the server settled because the Console answered with nothing

server == << turnAt, ask, askOf, owed >>
link == << conn, replay >>
vars == << server, inbox, log, link, read, st, op, nextId, faults, refused >>

-----------------------------------------------------------------------------
(***************************************************************************)
(* Frames, requests, and the session record.                               *)
(***************************************************************************)
NoSnap == [t \in Turns |-> "none"]
Base == [k |-> "", turn |-> 0, ask |-> NoAsk, act |-> FALSE, wait |-> FALSE, id |-> 0, what |-> "", snap |-> NoSnap]
AskFrame(k, q) == [Base EXCEPT !.k = k, !.ask = q]
Reply(id, what, t) == [Base EXCEPT !.k = "reply", !.id = id, !.what = what, !.turn = t]

Runs(at) == { t \in Turns : at[t] = "running" }
Queued(at) == { t \in Turns : at[t] = "queued" }
Current(at) == Runs(at) \cup Queued(at)
StatusFrame(k, at, as) == [Base EXCEPT !.k = k, !.act = (Runs(at) # {}), !.wait = (\E q \in Questions : as[q] = "open")]

Request(kind, id, t) == [kind |-> kind, id |-> id, turn |-> t, ask |-> NoAsk]
Answer(kind, q) == [kind |-> kind, id |-> 0, turn |-> 0, ask |-> q]

NotStarting == -1   \* pendingStart is null; 0: no turn adopted for it yet

\* Fields of the session object, then the rows of CodexRestartState, then what the session
\* told its consumer.  `out` are frames written while a handler runs, `save` whether it saved
\* the cursor.
NewSession(s, act, wait) ==
    [s EXCEPT !.live = TRUE, !.pend = NotStarting, !.active = 0, !.known = {}, !.started = {},
              !.stop = [t \in Turns |-> "no"], !.finished = {}, !.early = << >>,
              !.held = << >>, !.adopting = FALSE, !.unknown = FALSE, !.act = act, !.wait = wait,
              !.openQ = [q \in Asks |-> "no"], !.told = FALSE]

Fresh0 == [live |-> FALSE, pend |-> NotStarting, active |-> 0, known |-> {}, started |-> {},
           stop |-> [t \in Turns |-> "no"], finished |-> {}, early |-> << >>, held |-> << >>,
           adopting |-> FALSE, unknown |-> FALSE, act |-> FALSE, wait |-> FALSE,
           openQ |-> [q \in Asks |-> "no"], told |-> FALSE,
           tracked |-> 0, saved |-> {},
           begun |-> {}, ended |-> [t \in Turns |-> 0], closedHere |-> {}, released |-> {}, unkept |-> {}, excused |-> {}, shown |-> {},
           out |-> << >>, save |-> FALSE]

\* An ended session: an operation that still runs on it reads what it held last; then nothing
\* does.
Ended(s) == [s EXCEPT !.live = FALSE, !.openQ = [q \in Asks |-> "no"], !.adopting = FALSE, !.held = << >>]
Gone(s) == IF s.live THEN s ELSE [NewSession(s, FALSE, FALSE) EXCEPT !.live = FALSE]

NoOp == [kind |-> "none", id |-> 0, turn |-> 0, asks |-> {}, ans |-> Base]

-----------------------------------------------------------------------------
(***************************************************************************)
(* Turn lifecycle (app-server-session.ts).                                 *)
(***************************************************************************)

\* noteTurn(): the marker for the next backend, and a point where the cursor is saved.
NoteTurn(s, t) == [s EXCEPT !.tracked = t, !.save = TRUE]

NewTurn(s, t) == [s EXCEPT !.known = @ \cup {t}, !.active = t, !.stop[t] = "no"]

\* markStarted() and ensureStarted().
MarkStarted(s, t) ==
    IF t \in s.started THEN s
    ELSE [NoteTurn(s, t) EXCEPT !.started = @ \cup {t}, !.begun = IF s.live THEN @ \cup {t} ELSE @]

\* closeQuestion() with no answers: a question this client's handler holds is answered, one
\* adopted from an earlier backend is not.
CloseUnanswered(s, q) ==
    [s EXCEPT !.openQ[q] = "no", !.saved = @ \ {q},
              !.out = IF s.openQ[q] = "held" THEN Append(@, Answer("decline", q)) ELSE @]

\* cancelQuestions()
CancelQuestions(s, qs) ==
    FoldLeft(CloseUnanswered, s, SetToSeq({ q \in qs : s.openQ[q] # "no" }))

\* Mutant of Finalize: the marker of the finished turn is left for the next backend.
FinalizeKeepingMarker(s, t, here) ==
    LET a == [s EXCEPT !.known = @ \ {t}, !.started = @ \ {t}, !.finished = @ \cup {t},
                       !.active = IF @ = t THEN 0 ELSE @,
                       !.ended[t] = IF s.live THEN @ + 1 ELSE @,
                       !.closedHere = IF here THEN @ \cup {t} ELSE @]
    IN  CancelQuestions(a, { q \in Asks : askOf[q] = t })

\* finalizeTurn(); `here` when the session closes the turn without the server's word.
Finalize(s, t, here) ==
    LET a == [s EXCEPT !.known = @ \ {t}, !.started = @ \ {t}, !.finished = @ \cup {t},
                       !.active = IF @ = t THEN 0 ELSE @,
                       !.ended[t] = IF s.live THEN @ + 1 ELSE @,
                       !.closedHere = IF here THEN @ \cup {t} ELSE @]
        b == IF a.active = 0 THEN NoteTurn(a, 0) ELSE a
    IN  CancelQuestions(b, { q \in Asks : askOf[q] = t })

EndTurn(s, t) == IF t \in s.known THEN Finalize(MarkStarted(s, t), t, FALSE) ELSE s

\* recordFor(): the first event of a turn no listing named is that turn; an event of a turn
\* whose turn/start is not answered yet waits for the answer.
RecordFor(s, f) ==
    IF f.turn \in s.known \/ f.turn \in s.finished THEN s
    ELSE IF s.unknown /\ s.pend = NotStarting /\ s.active = 0
         THEN MarkStarted(NewTurn([s EXCEPT !.unknown = FALSE], f.turn), f.turn)
    ELSE IF s.pend # NotStarting THEN [s EXCEPT !.early = Append(@, f)]
    ELSE s

\* onTurnCompleted()
TurnCompleted(s, f) == EndTurn(RecordFor(s, f), f.turn)

FlushEarly(s, t) ==
    FoldLeft(TurnCompleted, [s EXCEPT !.early = SelectSeq(@, LAMBDA f : f.turn # t)],
             SelectSeq(s.early, LAMBDA f : f.turn = t))

\* onTurnStarted(): the turn of the pending turn/start, or one Codex started itself.
TurnStarted(s, t) ==
    IF t \in s.finished THEN s
    ELSE LET a == IF t \in s.known THEN s
                  ELSE [NewTurn(s, t) EXCEPT !.pend = IF @ = 0 THEN t ELSE @]
         IN  FlushEarly(MarkStarted(a, t), t)

\* onTurnStartResponse()
StartAnswered(s, t, what) ==
    LET a == [s EXCEPT !.pend = NotStarting]
        b == [a EXCEPT !.finished = @ \ {t}]
        c == IF t \in b.known THEN b
             ELSE IF what = "queued" THEN NewTurn(b, t) ELSE MarkStarted(NewTurn(b, t), t)
        d == [FlushEarly(c, t) EXCEPT !.early = << >>]
    IN  IF t \in s.finished /\ (s.pend = t \/ what = "ended") THEN a
        ELSE IF what = "ended" THEN EndTurn(d, t) ELSE d

\* endLocal() and handleProcessExit(): the questions stay held while the server still waits.
EndLocal(s, keepQuestions) ==
    IF keepQuestions THEN Ended(s) ELSE Ended(CancelQuestions(s, Asks))

\* onThreadStatus(), with a mutant that keeps an unidentified turn after the thread went idle.
StatusKeepingUnknown(s, f) == [s EXCEPT !.act = f.act, !.wait = f.wait]
Status(s, f) == [s EXCEPT !.act = f.act, !.wait = f.wait, !.unknown = @ /\ f.act]

\* dispatchNotification(): a frame and the thread/status/changed printed with it.
Dispatch(s, f) ==
    IF ~s.live THEN s
    ELSE CASE f.k = "started" -> TurnStarted(Status(s, f), f.turn)
           [] f.k = "completed" -> Status(TurnCompleted(s, f), f)
           [] f.k = "status" -> Status(s, f)
           [] f.k = "resolved" -> Status(IF s.openQ[f.ask] = "no" THEN s ELSE CloseUnanswered(s, f.ask), f)
           [] f.k = "closed" ->
                EndLocal(IF s.active = 0 THEN s ELSE Finalize(MarkStarted(s, s.active), s.active, FALSE), FALSE)

-----------------------------------------------------------------------------
(***************************************************************************)
(* What the instance does with a frame (app-server-instance.ts).           *)
(***************************************************************************)

\* A question of a thread with a session is held open and written down; everything else is
\* declined, also the question of a thread no session was registered for yet.
ServerRequest(s, q) ==
    IF s.live /\ q \in Questions
    THEN [s EXCEPT !.openQ[q] = "held", !.saved = @ \cup {q}, !.shown = @ \cup {q}]
    ELSE [s EXCEPT !.out = Append(@, Answer("decline", q)), !.unkept = @ \cup {q}]

\* onNotification(), handleRequest(): while a session adopts, notifications wait and
\* requests do not.
Receive(s, f) ==
    IF f.k = "request" THEN ServerRequest(s, f.ask)
    ELSE LET a == IF f.k = "resolved" THEN [s EXCEPT !.saved = @ \ {f.ask}] ELSE s
         IN  IF a.live /\ a.adopting THEN [a EXCEPT !.held = Append(@, f)] ELSE Dispatch(a, f)

\* The handled frames are kept until the cursor is saved: the next connection finds them
\* again.  It looks at requests only, so that a prefix without one need not be kept.
Handled(l, n, saved) ==
    IF conn = "up" /\ (saved \/ \A i \in 1..n : l[i].k \notin { "request", "resolved" })
    THEN log' = SubSeq(l, n + 1, Len(l)) /\ read' = 0
    ELSE log' = l /\ read' = n

\* The result of a handler: what it wrote, and the cursor it saved.
Kept(s, o) == [(IF o.kind = "none" THEN Gone(s) ELSE s) EXCEPT !.out = << >>, !.save = FALSE]
Commit(s, o, l, n) ==
    /\ op' = o /\ st' = Kept(s, o)
    /\ inbox' = inbox \o s.out
    /\ Handled(l, n, s.save)

-----------------------------------------------------------------------------
(***************************************************************************)
(* The app-server (external).                                              *)
(***************************************************************************)
Prints(frames) == log' = log \o frames

\* The rest of an operation runs right after its answer was read and the frames that came in
\* the same chunk were handled: of the other steps only the death of the backend comes between.
Continuing == op.kind = "adopt" \/ op.ans.what # ""

Quieted == ~Continuing /\ UNCHANGED << link, read, st, op, nextId, faults >>
NoAnswer == UNCHANGED << inbox, refused, owed >>

FreeTurn == { t \in Turns : turnAt[t] = "none" /\ \A u \in Turns : u < t => turnAt[u] # "none" }

Begins(t) ==
    /\ turnAt' = [turnAt EXCEPT ![t] = "running"]
    /\ Prints(<< [StatusFrame("started", turnAt', ask) EXCEPT !.turn = t] >>)

\* A turn that was queued, or one nobody sent: the server works on one turn at a time.
TurnBegins ==
    /\ Current(turnAt) \subseteq Queued(turnAt)
    /\ \E t \in IF Queued(turnAt) = {} THEN FreeTurn ELSE Queued(turnAt) : Begins(t)
    /\ UNCHANGED << ask, askOf >> /\ NoAnswer /\ Quieted

Asking(q) ==
    /\ ask[q] = "none" /\ Cardinality({ r \in Asks : ask[r] # "none" }) < MaxAsks
    /\ \E t \in Runs(turnAt) : askOf' = [askOf EXCEPT ![q] = t]
    /\ ask' = [ask EXCEPT ![q] = "open"]
    /\ Prints(<< AskFrame("request", q), StatusFrame("status", turnAt, ask') >>)
    /\ UNCHANGED << turnAt >> /\ NoAnswer /\ Quieted

\* The server gives up on a question.
Withdraws(q) ==
    /\ ask[q] = "open" /\ ask' = [ask EXCEPT ![q] = "settled"]
    /\ Prints(<< [StatusFrame("resolved", turnAt, ask') EXCEPT !.ask = q] >>)
    /\ UNCHANGED << turnAt, askOf >> /\ NoAnswer /\ Quieted

\* Its end settles what the turn asked.
TurnEnds ==
    \E t \in Runs(turnAt) :
        LET open == SetToSeq({ q \in Asks : ask[q] = "open" })
        IN  /\ turnAt' = [turnAt EXCEPT ![t] = "over"]
            /\ ask' = [q \in Asks |-> IF ask[q] = "open" THEN "settled" ELSE ask[q]]
            /\ Prints([i \in DOMAIN open |-> [StatusFrame("resolved", turnAt', ask') EXCEPT !.ask = open[i]]]
                      \o << [StatusFrame("completed", turnAt', ask') EXCEPT !.turn = t] >>)
            /\ UNCHANGED << askOf >> /\ NoAnswer /\ Quieted

\* turn/start: a new turn, begun or queued, or the one the server works on.
HandlesStart(m) ==
    LET owes(what, t) == owed' = owed \cup { Reply(m.id, what, t) }
    IN  /\ UNCHANGED << ask, askOf, refused >>
        /\ CASE Current(turnAt) # {} ->
                  /\ \E t \in Current(turnAt) : owes(turnAt[t], t)
                  /\ UNCHANGED << turnAt, log >>
             [] Current(turnAt) = {} /\ FreeTurn # {} ->
                  \E t \in FreeTurn : \/ Begins(t) /\ owes("running", t)
                                     \/ /\ turnAt' = [turnAt EXCEPT ![t] = "queued"]
                                        /\ owes("queued", t) /\ UNCHANGED log
             [] OTHER -> owes("error", 0) /\ UNCHANGED << turnAt, log >>

\* The answer to turn/start may come late and name a turn that has ended.
AnswersStart ==
    \E r \in owed :
        /\ owed' = owed \ {r}
        /\ Prints(<< IF r.turn # 0 /\ turnAt[r.turn] = "over" THEN [r EXCEPT !.what = "ended"] ELSE r >>)
        /\ UNCHANGED << turnAt, ask, askOf, inbox, refused >> /\ Quieted

\* Requests that only read, and turn/interrupt: answered with what was printed so far.
HandlesRead(m) ==
    /\ LET r == Reply(m.id, "ok", m.turn)
       IN  Prints(<< CASE m.kind = "resume" -> [r EXCEPT !.act = (Runs(turnAt) # {}), !.wait = (\E q \in Questions : ask[q] = "open")]
                       [] m.kind = "list" -> [r EXCEPT !.snap = turnAt]
                       [] m.kind = "interrupt" -> IF m.turn \in Runs(turnAt) THEN r ELSE [r EXCEPT !.what = "gone"]
                       [] OTHER -> r >>)
    /\ UNCHANGED << server, refused >>

\* An answer to a request that is not open is ignored.
HandlesAnswer(m) ==
    /\ IF ask[m.ask] # "open" THEN UNCHANGED << ask, log, refused >>
       ELSE /\ ask' = [ask EXCEPT ![m.ask] = "settled"]
            /\ Prints(<< [StatusFrame("resolved", turnAt, ask') EXCEPT !.ask = m.ask] >>)
            /\ refused' = IF m.kind = "decline" THEN refused \cup {m.ask} ELSE refused
    /\ UNCHANGED << turnAt, askOf, owed >>

ServerHandles ==
    /\ inbox # << >> /\ inbox' = Tail(inbox) /\ Quieted
    /\ LET m == Head(inbox)
       IN  \/ m.kind = "start" /\ HandlesStart(m)
           \/ m.kind \in { "answer", "decline" } /\ HandlesAnswer(m)
           \/ m.kind \notin { "start", "answer", "decline" } /\ HandlesRead(m)

\* The server unloads the thread; it runs no turn again (bound).
ClosesThread ==
    /\ faults < MaxFaults /\ faults' = faults + 1
    /\ turnAt' = [t \in Turns |-> "over"]
    /\ ask' = [q \in Asks |-> IF ask[q] = "open" THEN "settled" ELSE ask[q]]
    /\ Prints(<< [Base EXCEPT !.k = "closed"] >>)
    /\ UNCHANGED << askOf, link, read, st, op, nextId >> /\ NoAnswer

-----------------------------------------------------------------------------
(***************************************************************************)
(* Connections.                                                            *)
(***************************************************************************)

Named(frames, k) == { frames[i].ask : i \in { j \in DOMAIN frames : frames[j].k = k } }
Resolved(frames) == Named(frames, "resolved")
Asked(frames) == Named(frames, "request") \ Resolved(frames)

\* startClient() up to the handshake check: everything the host still holds is replay, what
\* comes after it is live (separateReplay, ReplayGate).  An earlier backend's requests have
\* been handled by now: ids start again in a new one.
Connects ==
    /\ ~Continuing
    /\ conn = "none" /\ conn' = "checking" /\ inbox = << >> /\ owed = {}
    /\ \E first \in IF Trimming THEN 1..(Len(log) + 1) ELSE {1} :
          /\ replay' = SubSeq(log, first, Len(log))
          /\ st' = [st EXCEPT !.unkept = @ \cup Named(SubSeq(log, 1, first - 1), "request")]
    /\ read' = Len(log)
    /\ UNCHANGED << server, inbox, log, op, nextId, faults, refused >>

Declines(qs) == LET order == SetToSeq(qs) IN [i \in DOMAIN order |-> Answer("decline", order[i])]

\* Mutant of Absorbed: a question found in the replay is declined like anything else.
AbsorbedDeclining(s, frames) ==
    [s EXCEPT !.saved = @ \ Resolved(frames), !.out = @ \o Declines(Asked(frames))]

\* absorbReplay(): a question still open in the replay is written down, anything else is
\* declined now.
Absorbed(s, frames) ==
    [s EXCEPT !.saved = (@ \ Resolved(frames)) \cup (Asked(frames) \cap Questions),
              !.out = @ \o Declines(Asked(frames) \ Questions)]

\* The rest of startClient().
ConnectionReady ==
    /\ ~Continuing
    /\ conn = "checking" /\ conn' = "up" /\ replay' = << >>
    /\ LET s == Absorbed(st, replay)
       IN  /\ st' = [s EXCEPT !.out = << >>] /\ inbox' = inbox \o s.out
           /\ log' = SubSeq(log, read + 1, Len(log)) /\ read' = 0   \* startCursorTimer saves the cursor
    /\ UNCHANGED << server, op, nextId, faults, refused >>

\* What was written and not handled yet may be lost with the connection.
WrittenSoFar == \E n \in 0..Len(inbox) : inbox' = SubSeq(inbox, 1, n)

\* The connection drops under a running backend; requests in flight fail.
ConnectionLost ==
    /\ ~Continuing
    /\ conn # "none" /\ faults < MaxFaults /\ faults' = faults + 1
    /\ conn' = "none" /\ replay' = << >> /\ WrittenSoFar
    /\ st' = Kept(IF st.live THEN EndLocal(st, TRUE) ELSE st, op)
    /\ IF conn = "up" THEN log' = SubSeq(log, read + 1, Len(log)) ELSE UNCHANGED log
    /\ read' = 0
    /\ op' = IF op.kind # "none" /\ op.ans.what = "" THEN [op EXCEPT !.ans = Reply(op.id, "failed", 0)] ELSE op
    /\ UNCHANGED << server, nextId, refused >>

\* The backend dies and another one starts.  The cursor stands where the timer last saved it,
\* or at the last frame when the backend shut down in order (dispose).
BackendDies ==
    /\ conn # "none" /\ faults < MaxFaults /\ faults' = faults + 1
    /\ conn' = "none" /\ replay' = << >> /\ WrittenSoFar
    /\ st' = Gone(Ended(st)) /\ op' = NoOp
    /\ IF conn = "up" THEN \E saved \in 0..read : log' = SubSeq(log, saved + 1, Len(log)) ELSE UNCHANGED log
    /\ read' = 0
    /\ UNCHANGED << server, nextId, refused >>

\* The process ends: its turns, its questions and everything written down about it with it.
\* The next connection starts another one.
ServerExits ==
    /\ ~Continuing
    /\ faults < MaxFaults /\ faults' = faults + 1
    /\ turnAt' = [t \in Turns |-> IF turnAt[t] = "none" THEN "none" ELSE "over"]
    /\ ask' = [q \in Asks |-> IF ask[q] = "open" THEN "settled" ELSE ask[q]]
    /\ owed' = {} /\ inbox' = << >> /\ log' = << >> /\ read' = 0
    /\ conn' = "none" /\ replay' = << >>
    /\ LET s == IF st.live THEN EndLocal(st, FALSE) ELSE st
       IN  st' = [Kept(s, op) EXCEPT !.tracked = 0, !.saved = {}, !.excused = Turns]
    /\ op' = IF op.kind # "none" /\ op.ans.what = "" THEN [op EXCEPT !.ans = Reply(op.id, "failed", 0)] ELSE op
    /\ UNCHANGED << askOf, nextId, refused >>

-----------------------------------------------------------------------------
(***************************************************************************)
(* Reading.                                                                *)
(***************************************************************************)

\* The session a thread/resume answer registers (register()); the rest of an operation runs
\* after its promise settles, so the frames right behind the answer may be handled first.
OnResult(s, f) ==
    CASE op.kind = "resume" -> NewSession(s, f.act, f.wait)
      [] op.kind = "send" /\ f.what # "error" -> StartAnswered(s, f.turn, f.what)
      [] OTHER -> s

ReadReply(f) ==
    IF op.kind # "none" /\ op.id = f.id /\ op.ans.what = ""
    THEN Commit(OnResult(st, f), [op EXCEPT !.ans = f], log, read + 1)
    ELSE Commit(st, op, log, read + 1)

\* A marker that a turn replaces before adopt() has read it is lost for the turn it named.
Overtaken(s) ==
    IF op.kind \in { "resume", "adopt" } /\ s.tracked # st.tracked
    THEN [s EXCEPT !.excused = @ \cup ({st.tracked} \ {0})] ELSE s

ReadFrame ==
    /\ conn # "none" /\ read < Len(log)
    /\ LET f == log[read + 1]
       IN  IF f.k = "reply" THEN ReadReply(f) ELSE Commit(Overtaken(Receive(st, f)), op, log, read + 1)
    /\ UNCHANGED << server, link, nextId, faults, refused >>

-----------------------------------------------------------------------------
(***************************************************************************)
(* Operations.                                                             *)
(***************************************************************************)
Rest == UNCHANGED << server, link, faults, refused >>

\* A request written now, by an operation that then waits for its answer.
Writes(kind, o, s) ==
    /\ nextId' = nextId + 1
    /\ op' = [o EXCEPT !.id = nextId, !.ans = Base]
    /\ st' = [s EXCEPT !.out = << >>, !.save = FALSE]
    /\ inbox' = inbox \o Append(s.out, Request(kind, nextId, o.turn))
    /\ Handled(log, read, s.save)

Calls(kind, o, s) ==
    IF conn = "up" THEN Writes(kind, o, s)
    ELSE Commit(s, [o EXCEPT !.id = nextId, !.ans = Reply(nextId, "failed", 0)], log, read) /\ nextId' = nextId + 1

Proceeds(o, s) == Commit(s, o, log, read) /\ UNCHANGED nextId
Done(s) == Proceeds(NoOp, s)

Idle == op.kind = "none" /\ conn = "up" /\ nextId <= MaxOps
Settled(kind) == op.kind = kind /\ op.ans.what # ""

\* The request of an operation is not answered in time.
TimesOut ==
    /\ op.kind \notin { "none", "adopt", "waiting" } /\ op.ans.what = ""
    /\ faults < MaxFaults /\ faults' = faults + 1
    /\ op' = [op EXCEPT !.ans = Reply(op.id, "failed", 0)]
    /\ UNCHANGED << server, link, inbox, log, read, st, nextId, refused >>

Resume ==
    /\ Idle /\ ~st.live
    /\ Calls("resume", [NoOp EXCEPT !.kind = "resume"], st) /\ Rest

ResumeEnds ==
    /\ Settled("resume")
    /\ IF op.ans.what = "failed" THEN Done(st) ELSE Proceeds([op EXCEPT !.kind = "adopt", !.ans = Base], st)
    /\ Rest

\* adoptHeldQuestions(), the end of adopt(), and the notifications that waited.
AdoptsQuestions(s, asks) ==
    LET waiting == s.act /\ s.wait
        a == [s EXCEPT !.openQ = [q \in Asks |-> IF waiting /\ q \in asks /\ @[q] = "no" THEN "raw" ELSE @[q]],
                       !.shown = IF waiting /\ s.live THEN @ \cup asks ELSE @,
                       !.saved = IF waiting THEN @ ELSE @ \ asks,
                       !.unkept = IF waiting THEN @ ELSE @ \cup asks,
                       !.told = @ \/ (waiting /\ asks = {}) \/ (~waiting /\ asks # {})]
    IN  FoldLeft(Dispatch, [a EXCEPT !.adopting = FALSE, !.held = << >>], a.held)

MarkerCleared(s, tracked) == IF tracked # 0 /\ s.active = 0 THEN NoteTurn(s, 0) ELSE s

\* adopt(): the marker and the questions written down are read now.
AdoptBegins ==
    /\ op.kind = "adopt"
    /\ IF st.act \/ st.tracked # 0
       THEN Calls("list", [op EXCEPT !.kind = "list", !.turn = st.tracked, !.asks = st.saved], [st EXCEPT !.adopting = TRUE])
       ELSE Done(AdoptsQuestions(st, st.saved))
    /\ Rest

\* adoptEndedTurn(): the turn the last backend followed ended while nobody listened.
AdoptsEnded(s, t, snap) ==
    IF t = 0 THEN s
    ELSE IF snap[t] # "over" \/ t \in s.finished \cup s.known THEN s
    ELSE Finalize(MarkStarted(NewTurn(s, t), t), t, FALSE)

Unlisted(s) == [s EXCEPT !.unknown = @ \/ (s.act /\ s.active = 0)]

\* adoptTurns(), after the listing.
ListEnds ==
    /\ Settled("list")
    /\ LET failed == op.ans.what = "failed"
           snap == IF failed THEN NoSnap ELSE op.ans.snap
           s == IF failed THEN [st EXCEPT !.excused = @ \cup {op.turn}] ELSE AdoptsEnded(st, op.turn, snap)
           running == { t \in Runs(snap) : t \notin s.known \cup s.finished }
       IN  IF running = {}
           THEN Done(AdoptsQuestions(MarkerCleared(Unlisted(s), op.turn), op.asks))
           ELSE LET t == CHOOSE u \in running : TRUE
                IN  Calls("commands", [op EXCEPT !.kind = "commands"], MarkStarted(NewTurn(s, t), t))
    /\ Rest

\* trackRunningCommands() is done, whatever it found.
CommandsListed ==
    /\ Settled("commands")
    /\ Done(AdoptsQuestions(MarkerCleared(st, op.turn), op.asks)) /\ Rest

Send ==
    /\ Idle /\ st.live /\ st.active = 0 /\ st.pend = NotStarting /\ ~st.unknown
    /\ Calls("start", [NoOp EXCEPT !.kind = "send"], [st EXCEPT !.pend = 0]) /\ Rest

SendEnds ==
    /\ Settled("send")
    /\ Done(IF op.ans.what \in { "failed", "error" } THEN [st EXCEPT !.pend = NotStarting, !.early = << >>] ELSE st)
    /\ Rest

\* interrupt() of a turn the session knows: a queued one is waited for first.
Stop ==
    /\ Idle /\ st.live /\ st.active # 0 /\ st.stop[st.active] = "no"
    /\ Proceeds([NoOp EXCEPT !.kind = "waiting", !.turn = st.active], st) /\ Rest

\* It started, or the wait is over.
StopSends ==
    /\ op.kind = "waiting"
    /\ IF op.turn \in st.known /\ st.live /\ st.stop[op.turn] = "no"
       THEN Calls("interrupt", [op EXCEPT !.kind = "stop"], [st EXCEPT !.stop[op.turn] = "asked"])
       ELSE Done(st)
    /\ Rest

StopEnds ==
    /\ Settled("stop")
    /\ LET t == op.turn
       IN  Done(IF t \notin st.known THEN st
                ELSE CASE op.ans.what = "ok" -> [st EXCEPT !.stop[t] = "grace"]
                       [] op.ans.what = "gone" -> Finalize(MarkStarted(st, t), t, TRUE)
                       [] op.ans.what = "failed" -> [st EXCEPT !.stop[t] = "no"])
    /\ Rest

\* interruptTimedOut(): the interrupted turn did not report its end.
GraceExpires ==
    /\ ~Continuing
    /\ st.live
    /\ \E t \in st.known :
          /\ st.stop[t] = "grace"
          /\ Proceeds(op, Finalize(MarkStarted(st, t), t, TRUE))
    /\ Rest

\* interruptUnidentifiedTurn()
StopUnidentified ==
    /\ Idle /\ st.live /\ st.unknown /\ st.active = 0
    /\ Calls("list", [NoOp EXCEPT !.kind = "lookup"], st) /\ Rest

LookupEnds ==
    /\ Settled("lookup")
    /\ LET running == IF op.ans.what = "failed" THEN {}
                      ELSE { t \in Runs(op.ans.snap) : t \notin st.known \cup st.finished }
           stopping(t) == [op EXCEPT !.turn = t]
       IN  IF ~st.live \/ (st.active = 0 /\ ~st.unknown) THEN Done(st)
           ELSE IF st.active # 0
                THEN Proceeds([stopping(st.active) EXCEPT !.kind = "waiting", !.ans = Base], st)
           ELSE IF running = {} THEN Done([st EXCEPT !.unknown = (op.ans.what = "failed")])
           ELSE LET t == CHOOSE u \in running : TRUE
                IN  Calls("commands", [stopping(t) EXCEPT !.kind = "tracking"],
                          MarkStarted(NewTurn([st EXCEPT !.unknown = FALSE], t), t))
    /\ Rest

TrackingEnds == Settled("tracking") /\ Proceeds([op EXCEPT !.kind = "waiting", !.ans = Base], st) /\ Rest

\* respond(): a question this client holds, or one answered by its id.
Respond(q) ==
    /\ Idle /\ st.live /\ st.openQ[q] # "no"
    /\ Proceeds(op, [st EXCEPT !.openQ[q] = "no", !.saved = @ \ {q}, !.unkept = @ \cup {q}, !.out = Append(@, Answer("answer", q))])
    /\ Rest

\* unload() of an idle thread.
Unload ==
    /\ Idle /\ st.live /\ st.active = 0 /\ ~st.unknown /\ \A q \in Asks : st.openQ[q] = "no"
    /\ Calls("unsubscribe", [NoOp EXCEPT !.kind = "unload"], st) /\ Rest

UnloadEnds ==
    /\ Settled("unload")
    /\ Done(IF st.live THEN [EndLocal(st, FALSE) EXCEPT !.released = @ \cup st.known] ELSE st)
    /\ Rest

-----------------------------------------------------------------------------
Init ==
    /\ turnAt = [t \in Turns |-> "none"] /\ ask = [q \in Asks |-> "none"] /\ askOf = [q \in Asks |-> 0]
    /\ owed = {} /\ inbox = << >> /\ log = << >>
    /\ conn = "none" /\ read = 0 /\ replay = << >>
    /\ st = Fresh0 /\ op = NoOp /\ nextId = 1 /\ faults = 0 /\ refused = {}

Server ==
    \/ TurnBegins \/ TurnEnds \/ AnswersStart \/ ServerHandles \/ ClosesThread
    \/ \E q \in Asks : Asking(q) \/ Withdraws(q)

Connection ==
    \/ Connects \/ ConnectionReady \/ ConnectionLost \/ ServerExits \/ BackendDies

Operation ==
    \/ Resume \/ ResumeEnds \/ AdoptBegins \/ ListEnds \/ CommandsListed
    \/ Send \/ SendEnds \/ Stop \/ StopSends \/ StopEnds \/ GraceExpires
    \/ StopUnidentified \/ LookupEnds \/ TrackingEnds
    \/ Unload \/ UnloadEnds \/ TimesOut
    \/ \E q \in Asks : Respond(q)

Next == Server \/ Connection \/ ReadFrame \/ Operation

Spec == Init /\ [][Next]_vars

-----------------------------------------------------------------------------
(***************************************************************************)
(* Properties.                                                             *)
(***************************************************************************)

\* Everything printed was read and nothing is on its way.
Quiet ==
    /\ conn = "up" /\ st.live /\ op.kind = "none" /\ ~st.adopting
    /\ read = Len(log) /\ inbox = << >> /\ owed = {}

\* When nothing is on its way, the session knows the turn that runs, or knows that one runs
\* it cannot name, or closed it after a Stop; and it is not busy with a turn that is over.
InStep ==
    Quiet =>
      IF st.active # 0 THEN turnAt[st.active] \in { "running", "queued" }
      ELSE IF st.unknown THEN Runs(turnAt) # {}
      ELSE Runs(turnAt) \subseteq st.known \cup st.closedHere

\* A question the server waits on is on the person's screen, through restarts and lost
\* connections, unless its turn was stopped.  Where the buffer no longer holds it, it came
\* before the session, adoption removed its record, or its answer or the release of its
\* thread was lost on the way, the person was told so.  And one that was shown is never
\* answered with nothing behind the person's back: only the Stop of its turn, or the release
\* of its thread, does that.
QuestionNotLost ==
    /\ Quiet => \A q \in Questions : ask[q] = "open" =>
           \/ st.openQ[q] # "no"
           \/ st.told /\ (q \in st.unkept \/ askOf[q] \in st.released)
           \/ askOf[q] \in st.closedHere
    /\ \A q \in refused \cap st.shown : askOf[q] \in st.closedHere \cup st.released

\* The end of a turn the Console announced is reported, also when the turn ended while no
\* backend listened, unless the process died or the turns could not be listed; it is reported
\* once, and after the turn ended, unless a Stop closed the turn before.
EndReportedOnce ==
    \A t \in Turns :
        /\ Quiet /\ t \in st.begun /\ turnAt[t] = "over" => st.ended[t] > 0 \/ t \in st.excused \cup st.released
        /\ st.ended[t] > 0 => turnAt[t] = "over" \/ t \in st.closedHere
        /\ st.ended[t] <= IF t \in st.closedHere THEN 2 ELSE 1
=============================================================================
