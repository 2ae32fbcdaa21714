---------------------------- MODULE ClaudeSession ----------------------------
(***************************************************************************)
(* One conversation on the Claude CLI (providers/transport/claude:         *)
(* claude-session.ts, stream-json.ts, and bringUp() of claude-instance.ts).*)
(*                                                                         *)
(* The CLI (external) keeps a queue of messages and runs one turn at a     *)
(* time.  A queued message starts a turn of its own or is folded into the  *)
(* running one; the CLI also starts turns of its own.  The session infers  *)
(* from the frames it reads which of its messages runs, and owes each turn *)
(* one end, whatever the person (Stop, steer, close), the timers and the   *)
(* process do meanwhile.  The connection may be lost and the process found *)
(* again, in the middle of a turn.                                         *)
(***************************************************************************)
EXTENDS Integers, FiniteSets, SequencesExt

CONSTANTS Msgs,       \* messages of the person, by the uuid they are sent with
          Own,        \* turns the CLI starts on its own
          Reqs,       \* requests the CLI may raise
          NoMsg,
          Steering,   \* whether messages may be sent into a running turn
          MaxSends,   \* bound: sends and steers
          MaxStops,   \* bound: Stops
          MaxUnread,  \* bound: frames the session is behind
          MaxFaults   \* bound: lost or ended connections, dropped sends, lost results, timeouts

ASSUME MsgAssumption == IsFiniteSet(Msgs) /\ IsFiniteSet(Own) /\ Msgs \cap Own = {} /\ NoMsg \notin Msgs \cup Own
ASSUME BoundAssumption == { MaxSends, MaxStops, MaxUnread, MaxFaults } \subseteq Nat /\ Steering \in BOOLEAN

VARIABLES
  queue,    \* messages the CLI holds, the next one first
  turn,     \* uuids of the turn the CLI runs, << >> when it is idle
  asks,     \* requests the CLI waits for
  had,      \* messages, own turns and requests the CLI has had
  dropped,  \* messages it dropped from its queue at a Stop
  lost,     \* messages whose end it did not report: the result of their turn was lost, or it had
            \* them already and acknowledged them during another turn
  alive,    \* the CLI process runs
  inbox,    \* what was written and the CLI has not handled
  pipe,     \* frames printed and not yet read
  s,        \* the session object
  send,     \* sendTurn() in progress
  steer,    \* sendSteer() in progress
  sends, halts, faults   \* how many sends, Stops and faults there were

cli == << queue, turn, asks, had, dropped, lost, alive >>
calls == << send, steer >>
counts == << sends, halts, faults >>
vars == << cli, inbox, pipe, s, calls, counts >>

-----------------------------------------------------------------------------
(***************************************************************************)
(* The session object.                                                     *)
(***************************************************************************)

\* What the session writes and the CLI handles; what the CLI prints.
Write(k, id) == [k |-> k, id |-> id]
Frame(k, ids) == [k |-> k, ids |-> ids, rec |-> 0, running |-> FALSE]

\* A TurnRecord: "waiting" before its turn.started, "open", "over" after its turn.terminal.
\* `stop` is its interrupt: "asked", "answered" (`got`: the messages the CLI dropped for it),
\* "grace" while the timer runs.
NewRecord(id) == [id |-> id, st |-> "waiting", stop |-> "no", got |-> {}, cancel |-> FALSE, idle |-> FALSE]

\* byUuid: what a message was sent as, and the record it counts for.
NoEntry == [kind |-> "none", rec |-> 0]

\* `up`: "off", "asked" and "answered" (the handshake of a process found again), "on", and
\* then "exited" or "detached".
Fresh(up) ==
    [up |-> up, recs |-> << >>, active |-> 0, pending |-> 0, closing |-> FALSE,
     by |-> [m \in Msgs |-> NoEntry], reqs |-> [q \in Reqs |-> 0],
     found |-> [running |-> FALSE, asks |-> {}],
     out |-> << >>, blind |-> FALSE, deaf |-> FALSE, misread |-> FALSE]

Listening == s.up \in { "asked", "answered", "on" }
St(a, r) == a.recs[r].st
IsOver(a, r) == St(a, r) = "over"
Adds(a, rec) == [a EXCEPT !.recs = Append(@, rec)]

MarkStarted(a, r) ==
    IF St(a, r) # "waiting" THEN a
    ELSE [a EXCEPT !.recs[r].st = "open", !.recs[r].cancel = FALSE,
                   !.pending = IF @ = r THEN 0 ELSE @, !.active = r]

NoSteer == [id |-> NoMsg, rec |-> 0]

\* Mutant of Finalize: the requests of the turn stay open.
FinalizeKeepingRequests(a, r) ==
    IF IsOver(a, r) THEN a
    ELSE LET b == MarkStarted(a, r)
         IN  [b EXCEPT !.recs[r] = [@ EXCEPT !.st = "over", !.cancel = FALSE, !.idle = FALSE,
                                             !.stop = IF @ \in { "asked", "answered" } THEN @ ELSE "over"],
                       !.active = IF @ = r THEN 0 ELSE @, !.pending = IF @ = r THEN 0 ELSE @]

\* finalize(): the turn's end, which closes its requests without an answer.
Finalize(a, r) ==
    IF IsOver(a, r) THEN a
    ELSE LET b == MarkStarted(a, r)
         IN  [b EXCEPT !.recs[r] = [@ EXCEPT !.st = "over", !.cancel = FALSE, !.idle = FALSE,
                                             !.stop = IF @ \in { "asked", "answered" } THEN @ ELSE "over"],
                       !.active = IF @ = r THEN 0 ELSE @, !.pending = IF @ = r THEN 0 ELSE @,
                       !.reqs = [q \in Reqs |-> IF @[q] = r THEN 0 ELSE @[q]]]

ProviderTurn(a) ==
    IF a.active # 0 THEN a
    ELSE LET b == Adds(a, NewRecord(NoMsg)) IN MarkStarted(b, Len(b.recs))

\* supersedeActive()
Supersede(a, r) == IF a.active \in { 0, r } THEN a ELSE Finalize(a, a.active)

\* onCommandStarted(): a turn of the CLI's own, a message that was sent, or a steer that runs
\* as a turn of its own.
CommandStarted(a, id) ==
    LET e == IF id \in Msgs THEN a.by[id] ELSE NoEntry
    IN  CASE e.kind = "none" -> ProviderTurn(a)
          [] e.kind = "turn" -> IF IsOver(a, e.rec) THEN a ELSE MarkStarted(Supersede(a, e.rec), e.rec)
          [] e.kind = "steer" ->
               LET b == Adds(a, NewRecord(id))
                   r == Len(b.recs)
               IN  MarkStarted(Supersede([b EXCEPT !.by[id] = [@ EXCEPT !.kind = "turn", !.rec = r]], r), r)

\* onCommandCompleted(): a message that never started and joined no turn is one the CLI had.
CommandCompleted(a, id) ==
    LET e == IF id \in Msgs THEN a.by[id] ELSE NoEntry
    IN  IF e.kind # "turn" THEN a
        ELSE IF St(a, e.rec) # "waiting" \/ a.active # 0 THEN a
        ELSE Finalize(a, e.rec)

\* onCommandCancelled()
CommandCancelled(a, id) ==
    LET e == a.by[id]
    IN  IF e.kind # "turn" THEN a
        ELSE IF St(a, e.rec) # "waiting" THEN a ELSE [a EXCEPT !.recs[e.rec].cancel = TRUE]

\* attachTurnFrame(): a frame that names messages of this session belongs to the turn of the
\* first of them; one that names none is the turn that runs, or one the CLI runs on its own.
TurnFrame(a, ids) ==
    LET known == { i \in DOMAIN ids : ids[i] \in Msgs /\ a.by[ids[i]].kind # "none" }
    IN  IF known = {} THEN ProviderTurn(a)
        ELSE LET r == a.by[ids[Min(known)]].rec IN IF IsOver(a, r) THEN a ELSE MarkStarted(a, r)

Matched(a, ids) == { a.by[m].rec : m \in { k \in ToSet(ids) \cap Msgs : a.by[k].kind # "none" } }

\* `misread` is history: a turn of the person's ended by a result that names nothing
\* sent into it, although its own was not lost.
Ends(a, rs, ids) ==
    [FoldLeft(Finalize, a, rs) EXCEPT
        !.misread = @ \/ \E r \in ToSet(rs) \ Matched(a, ids) : a.recs[r].id \notin lost \cup {NoMsg}]

\* Mutant of TurnResult: a result ends the current turn, one that is only sent included.
TurnResultOfCurrent(a, ids) ==
    LET r == IF a.active # 0 THEN a.active ELSE a.pending
        live == { x \in Matched(a, ids) : ~IsOver(a, x) }
    IN  Ends(a, (IF r # 0 THEN << r >> ELSE << >>) \o SetToSeq(live \ {r}), ids)

\* onResult(): it ends the running turn and every turn it names, unless all of those are over.
TurnResult(a, ids) ==
    LET matched == Matched(a, ids)
        live == { r \in matched : ~IsOver(a, r) }
    IN  IF matched # {} /\ live = {} THEN a
        ELSE Ends(a, (IF a.active # 0 THEN << a.active >> ELSE << >>) \o SetToSeq(live \ {a.active}), ids)

\* Mutant of SessionIdle: only turns of the CLI's own are watched when it goes idle.
SessionIdleOwnOnly(a) ==
    IF a.active = 0 THEN a
    ELSE IF a.recs[a.active].id = NoMsg THEN [a EXCEPT !.recs[a.active].idle = TRUE] ELSE a

\* onSessionState() of "idle": a turn that is still open lost its result.
SessionIdle(a) == IF a.active = 0 THEN a ELSE [a EXCEPT !.recs[a.active].idle = TRUE]

\* onServerRequest(): a request belongs to the current turn; a closing session refuses it.
ServerRequest(a, q) ==
    IF a.closing THEN [a EXCEPT !.out = Append(@, Write("answer", q))]
    ELSE LET b == IF a.active = 0 /\ a.pending = 0 THEN ProviderTurn(a) ELSE a
         IN  [b EXCEPT !.reqs[q] = IF b.active # 0 THEN b.active ELSE b.pending]

\* cancelAllRequests()
CancelAllRequests(a) ==
    [a EXCEPT !.out = @ \o SetToSeq({ Write("answer", q) : q \in { p \in Reqs : a.reqs[p] # 0 } }),
              !.reqs = [q \in Reqs |-> 0]]

\* handleExit(): each turn that was sent gets its end.
HandleExit(a, up) ==
    LET b == CancelAllRequests([a EXCEPT !.up = up])
        rs == SelectSeq(<< a.active, a.pending >>, LAMBDA r : r # 0)
    IN  [FoldLeft(Finalize, b, rs) EXCEPT !.out = << >>]

-----------------------------------------------------------------------------
(***************************************************************************)
(* The CLI (external).                                                     *)
(***************************************************************************)
Prints(fs) == Len(pipe) < MaxUnread /\ pipe' = IF Listening THEN pipe \o fs ELSE pipe
Unread == UNCHANGED << s, calls, sends, halts >>
Ids == [i \in DOMAIN queue |-> queue[i].id]

\* A message it had already is only acknowledged.
HandlesUser(m) ==
    /\ IF m.id \in had
       THEN /\ Prints(<< Frame("completed", << m.id >>) >>) /\ UNCHANGED << queue, had >>
            /\ lost' = IF turn = << >> THEN lost ELSE lost \cup {m.id}
       ELSE /\ had' = had \cup {m.id} /\ UNCHANGED << pipe, lost >>
            /\ queue' = Append(queue, m)
    /\ UNCHANGED << turn, asks, dropped >>

\* interrupt with cancel_queued: the queue is dropped; the turn ends when it ends.
HandlesInterrupt(m) ==
    /\ Prints([i \in DOMAIN queue |-> Frame("cancelled", << queue[i].id >>)]
                 \o << [Frame("reply", Ids) EXCEPT !.rec = m.id] >>
                 \o (IF turn = << >> /\ queue # << >> THEN << Frame("idle", << >>) >> ELSE << >>))
    /\ dropped' = dropped \cup ToSet(Ids) /\ queue' = << >>
    /\ UNCHANGED << turn, asks, had, lost >>

HandlesOther(m) ==
    /\ IF m.k = "initialize"
       THEN Prints(<< [Frame("found", SetToSeq(asks)) EXCEPT !.running = (turn # << >>)] >>) /\ UNCHANGED asks
       ELSE asks' = asks \ {m.id} /\ UNCHANGED pipe
    /\ UNCHANGED << queue, turn, had, dropped, lost >>

Handles ==
    /\ alive /\ inbox # << >> /\ inbox' = Tail(inbox)
    /\ LET m == Head(inbox)
       IN  \/ m.k = "user" /\ HandlesUser(m)
           \/ m.k = "interrupt" /\ HandlesInterrupt(m)
           \/ m.k \in { "initialize", "answer" } /\ HandlesOther(m)
    /\ Unread /\ UNCHANGED << alive, faults >>

Runs(ids, rest) ==
    /\ alive /\ turn = << >> /\ turn' = ids /\ queue' = rest
    /\ Prints(<< Frame("started", ids) >>)
    /\ Unread /\ UNCHANGED << asks, dropped, lost, alive, inbox, faults >>

StartsTurn == queue # << >> /\ Runs(<< Head(queue).id >>, Tail(queue)) /\ UNCHANGED had

StartsOwn(o) == o \notin had /\ had' = had \cup {o} /\ Runs(<< o >>, queue)

\* A queued message joins the running turn at a tool boundary; the frames name it from then on.
Folds ==
    /\ alive /\ turn # << >> /\ queue # << >>
    /\ turn' = Append(turn, Head(queue).id) /\ queue' = Tail(queue)
    /\ Prints(<< Frame("completed", << Head(queue).id >>), Frame("turn", turn') >>)
    /\ Unread /\ UNCHANGED << asks, had, dropped, lost, alive, inbox, faults >>

Raises(q) ==
    /\ alive /\ turn # << >> /\ q \notin had /\ had' = had \cup {q} /\ asks' = asks \cup {q}
    /\ Prints(<< Frame("ask", << q >>) >>)
    /\ Unread /\ UNCHANGED << queue, turn, dropped, lost, alive, inbox, faults >>

Withdraws(q) ==
    /\ alive /\ q \in asks /\ asks' = asks \ {q}
    /\ Prints(<< Frame("withdrawn", << q >>) >>)
    /\ Unread /\ UNCHANGED << queue, turn, had, dropped, lost, alive, inbox, faults >>

\* The end of a turn, whose result may be lost; the CLI says so when nothing is left to do.
EndsTurn ==
    /\ alive /\ turn # << >>
    /\ \/ Prints(<< Frame("result", turn) >> \o (IF queue = << >> THEN << Frame("idle", << >>) >> ELSE << >>))
          /\ UNCHANGED << lost, faults >>
       \/ faults < MaxFaults /\ faults' = faults + 1 /\ lost' = lost \cup ToSet(turn)
          /\ Prints(IF queue = << >> THEN << Frame("idle", << >>) >> ELSE << >>)
    /\ turn' = << >> /\ asks' = {}
    /\ Unread /\ UNCHANGED << queue, had, dropped, alive, inbox >>

\* It drops a message before it starts, with a result (a hard failure) or with none.
Drops ==
    /\ alive /\ turn = << >> /\ queue # << >> /\ faults < MaxFaults /\ faults' = faults + 1
    /\ LET m == << Head(queue).id >>
       IN  \/ Prints(<< Frame("cancelled", m), Frame("result", m) >>)
           \/ Prints(<< Frame("cancelled", m) >>)
    /\ queue' = Tail(queue)
    /\ Unread /\ UNCHANGED << turn, asks, had, dropped, lost, alive, inbox >>

\* The process ends, because it was closed or by itself.
Exits ==
    /\ alive /\ alive' = FALSE
    /\ IF Listening /\ s.closing THEN UNCHANGED faults ELSE faults < MaxFaults /\ faults' = faults + 1
    /\ turn' = << >> /\ queue' = << >> /\ asks' = {} /\ inbox' = << >>
    /\ Prints(<< Frame("exit", << >>) >>)
    /\ Unread /\ UNCHANGED << had, dropped, lost >>

-----------------------------------------------------------------------------
(***************************************************************************)
(* Reading.                                                                *)
(***************************************************************************)

\* The rest of interrupt() runs before anything but the frames that came with its answer.
Continuing == \E r \in DOMAIN s.recs : s.recs[r].stop = "answered"

\* What ends between the answer to initialize and the adoption of what it found is not seen.
Unseen(f) == s.up = "answered" /\ f.k \in { "result", "idle", "withdrawn" }

\* handleFrame(), handleControlRequest(), handleControlCancel(), handleControlResponse()
HandleFrame(a, f) ==
    CASE f.k = "started" -> CommandStarted(a, f.ids[1])
      [] f.k = "completed" -> CommandCompleted(a, f.ids[1])
      [] f.k = "cancelled" -> CommandCancelled(a, f.ids[1])
      [] f.k = "turn" -> TurnFrame(a, f.ids)
      [] f.k = "result" -> TurnResult(a, f.ids)
      [] f.k = "idle" -> SessionIdle(a)
      [] f.k = "ask" -> ServerRequest(a, f.ids[1])
      [] f.k = "withdrawn" -> [a EXCEPT !.reqs[f.ids[1]] = 0]
      [] f.k = "reply" -> IF a.up # "on" THEN a   \* to an earlier connection
                          ELSE IF a.recs[f.rec].stop = "asked"
                          THEN [a EXCEPT !.recs[f.rec].stop = "answered", !.recs[f.rec].got = ToSet(f.ids)] ELSE a
      [] f.k = "found" -> [a EXCEPT !.up = "answered", !.found = [running |-> f.running, asks |-> ToSet(f.ids)]]

\* What the handlers wrote goes out.
Commit(a) == s' = [a EXCEPT !.out = << >>] /\ inbox' = IF alive THEN inbox \o a.out ELSE inbox

ReadFrame ==
    /\ Listening /\ pipe # << >> /\ pipe' = Tail(pipe)
    /\ LET f == Head(pipe)
       IN  IF f.k = "exit"
           THEN /\ send' = NoMsg /\ steer' = NoSteer
                /\ s' = HandleExit(s, "exited") /\ UNCHANGED inbox
           ELSE /\ Commit([HandleFrame(s, f) EXCEPT !.blind = @ \/ Unseen(f)]) /\ UNCHANGED calls
    /\ UNCHANGED << cli, counts >>

-----------------------------------------------------------------------------
(***************************************************************************)
(* Operations of the person.                                               *)
(***************************************************************************)
Ready == s.up = "on" /\ ~s.closing /\ ~Continuing
Current == { s.active, s.pending } \ {0}
Unhandled == UNCHANGED << cli, pipe >>

\* sendTurn(): the slot is claimed before the settings and the images are awaited.
SendTurn(m) ==
    /\ Ready /\ Current = {} /\ send = NoMsg /\ s.by[m].kind = "none" /\ steer.id # m
    /\ sends < MaxSends /\ sends' = sends + 1 /\ send' = m
    /\ Unhandled /\ UNCHANGED << inbox, s, steer, halts, faults >>

\* The message is registered and written, unless the settings or an image were refused.  A write
\* that fails takes the registration back; the callback of one that reached the process comes
\* before the exit that follows it.
SendWrites ==
    /\ send # NoMsg /\ ~Continuing /\ send' = NoMsg
    /\ \/ UNCHANGED << s, inbox >>
       \/ /\ alive /\ inbox' = Append(inbox, Write("user", send))
          /\ LET a == Adds(s, NewRecord(send))
                 r == Len(a.recs)
             IN  s' = [a EXCEPT !.pending = r, !.by[send] = [kind |-> "turn", rec |-> r]]
    /\ Unhandled /\ UNCHANGED << steer, counts >>

\* sendSteer(): into the turn it names, which may end before it is written.
Steer(m, r) ==
    /\ Ready /\ Steering /\ steer = NoSteer /\ s.by[m].kind = "none" /\ send # m
    /\ m \notin had /\ \A i \in DOMAIN inbox : inbox[i].id # m   \* the uuid is new
    /\ sends < MaxSends /\ sends' = sends + 1
    /\ steer' = [id |-> m, rec |-> r]
    /\ Unhandled /\ UNCHANGED << inbox, s, send, halts, faults >>

SteerWrites ==
    /\ steer # NoSteer /\ ~Continuing /\ steer' = NoSteer
    /\ IF alive
       THEN /\ s' = [s EXCEPT !.by[steer.id] = [kind |-> "steer", rec |-> steer.rec]]
            /\ inbox' = Append(inbox, Write("user", steer.id))
       ELSE UNCHANGED << s, inbox >>
    /\ Unhandled /\ UNCHANGED << send, counts >>

\* interrupt(): marked first, so that a result that races it reads as interrupted.
Interrupt(r) ==
    /\ Ready /\ s.recs[r].stop = "no" /\ halts < MaxStops /\ halts' = halts + 1
    /\ s' = [s EXCEPT !.recs[r].stop = "asked"]
    /\ inbox' = IF alive THEN Append(inbox, Write("interrupt", r)) ELSE inbox
    /\ Unhandled /\ UNCHANGED << calls, sends, faults >>

Rest == Unhandled /\ UNCHANGED << inbox, calls, counts >>

\* forgetCancelledSteers(): they are named to the person.
CancelledSteers(r) == { m \in s.recs[r].got : s.by[m].kind = "steer" }
Forgets(a, ms) == [a EXCEPT !.by = [m \in Msgs |-> IF m \in ms THEN NoEntry ELSE @[m]]]

\* Mutant of InterruptEnds: the end of the turn is looked at before the dropped steers.
InterruptEndsEarly(r) ==
    /\ s.recs[r].stop = "answered"
    /\ LET a == [s EXCEPT !.recs[r].stop = "grace"]
       IN  s' = CASE IsOver(s, r) -> [s EXCEPT !.recs[r].stop = "over"]
                  [] St(s, r) = "waiting" /\ s.recs[r].id \in s.recs[r].got ->
                       Finalize(Forgets(a, CancelledSteers(r)), r)
                  [] OTHER -> Forgets(a, CancelledSteers(r))
    /\ Rest

\* What follows the answer: a turn that never started is over with it, another gets a grace.
InterruptEnds(r) ==
    /\ s.recs[r].stop = "answered"
    /\ LET a == [Forgets(s, CancelledSteers(r)) EXCEPT !.recs[r].stop = IF IsOver(s, r) THEN "over" ELSE "grace", !.recs[r].got = {}]
       IN  s' = IF St(s, r) = "waiting" /\ s.recs[r].id \in s.recs[r].got THEN Finalize(a, r) ELSE a
    /\ Rest

\* The interrupt is not answered in time.
InterruptUnanswered(r) ==
    /\ s.recs[r].stop = "asked" /\ faults < MaxFaults /\ faults' = faults + 1
    /\ s' = [s EXCEPT !.recs[r].stop = IF IsOver(s, r) THEN "over" ELSE "no", !.deaf = TRUE]
    /\ Unhandled /\ UNCHANGED << inbox, calls, sends, halts >>

\* respond()
Respond(q) ==
    /\ Ready /\ s.reqs[q] # 0
    /\ s' = [s EXCEPT !.reqs[q] = 0] /\ inbox' = IF alive THEN Append(inbox, Write("answer", q)) ELSE inbox
    /\ Unhandled /\ UNCHANGED << calls, counts >>

\* beginClosing(); the end of input ends the process.
Close ==
    /\ Ready /\ faults < MaxFaults /\ faults' = faults + 1
    /\ Commit(CancelAllRequests([s EXCEPT !.closing = TRUE]))
    /\ Unhandled /\ UNCHANGED << calls, sends, halts >>

-----------------------------------------------------------------------------
(***************************************************************************)
(* Timers.                                                                 *)
(***************************************************************************)
Timer(r) == Listening /\ ~Continuing /\ ~IsOver(s, r)

\* interruptTimedOut(): the interrupted turn did not report its end.
InterruptTimedOut(r) ==
    /\ Timer(r) /\ s.recs[r].stop = "grace" /\ faults < MaxFaults /\ faults' = faults + 1
    /\ s' = [Finalize(s, r) EXCEPT !.deaf = TRUE]
    /\ Unhandled /\ UNCHANGED << inbox, calls, sends, halts >>

\* Nothing followed the cancellation of a message that had not started.
CancelSettles(r) ==
    /\ Timer(r) /\ s.recs[r].cancel /\ s' = Finalize(s, r) /\ Rest

\* Nothing followed an idle CLI.
IdleSettles(r) ==
    /\ Timer(r) /\ s.recs[r].idle /\ s' = Finalize(s, r) /\ Rest

-----------------------------------------------------------------------------
(***************************************************************************)
(* Connections.                                                            *)
(***************************************************************************)

\* What was written and not handled yet may be lost with the connection.
WrittenSoFar == \E n \in 0..Len(inbox) : inbox' = SubSeq(inbox, 1, n)

Gone(a) ==
    /\ s' = a /\ pipe' = << >> /\ send' = NoMsg /\ steer' = NoSteer /\ WrittenSoFar
    /\ faults < MaxFaults /\ faults' = faults + 1
    /\ UNCHANGED << cli, sends, halts >>

\* The connection to the session host drops: for the session that is an exit.
ConnectionLost == Listening /\ alive /\ ~Continuing /\ Gone(HandleExit(s, "detached"))

\* detach(), a handshake that is not answered in time, or the death of the backend: no turn
\* ends, and requests stay unanswered for the next session.
Detach == Listening /\ alive /\ Gone(Fresh("detached"))

\* bringUp() of a process found again: the session listens before the handshake.
Reattach ==
    /\ s.up = "detached" /\ alive
    /\ s' = Fresh("asked") /\ inbox' = Append(inbox, Write("initialize", NoMsg))
    /\ Unhandled /\ UNCHANGED << calls, counts >>

\* The snapshot of the background tasks came, or its time is over: adoptRunningTurn(),
\* adoptRequests().
Adopt ==
    /\ s.up = "answered"
    /\ LET a == IF s.found.running THEN ProviderTurn(s) ELSE s
       IN  Commit([FoldLeft(ServerRequest, a, SetToSeq(s.found.asks)) EXCEPT
                      !.up = "on", !.found = [running |-> FALSE, asks |-> {}]])
    /\ Unhandled /\ UNCHANGED << calls, counts >>

-----------------------------------------------------------------------------
Init ==
    /\ queue = << >> /\ turn = << >> /\ asks = {} /\ had = {} /\ dropped = {} /\ lost = {} /\ alive = TRUE
    /\ inbox = << >> /\ pipe = << >> /\ s = Fresh("on") /\ send = NoMsg /\ steer = NoSteer
    /\ sends = 0 /\ halts = 0 /\ faults = 0

CLI ==
    \/ Handles \/ StartsTurn \/ Folds \/ EndsTurn \/ Drops \/ Exits
    \/ \E o \in Own : StartsOwn(o)
    \/ \E q \in Reqs : Raises(q) \/ Withdraws(q)

Person ==
    \/ SendWrites \/ SteerWrites \/ Close
    \/ \E m \in Msgs : SendTurn(m) \/ \E r \in Current : Steer(m, r)
    \/ \E r \in Current : Interrupt(r)
    \/ \E q \in Reqs : Respond(q)

Turn ==
    \E r \in DOMAIN s.recs :
       InterruptEnds(r) \/ InterruptUnanswered(r) \/ InterruptTimedOut(r) \/ CancelSettles(r) \/ IdleSettles(r)

Next == CLI \/ ReadFrame \/ Person \/ Turn \/ ConnectionLost \/ Detach \/ Reattach \/ Adopt

Spec == Init /\ [][Next]_vars

-----------------------------------------------------------------------------
(***************************************************************************)
(* Properties.                                                             *)
(***************************************************************************)

\* Everything printed was read, everything written was handled, no operation or timer runs,
\* and the CLI is not between two turns.
Quiet ==
    /\ turn # << >> \/ queue = << >>
    /\ s.up = "on" /\ alive /\ inbox = << >> /\ pipe = << >>
    /\ send = NoMsg /\ steer = NoSteer /\ ~Continuing
    /\ \A r \in Current : ~s.recs[r].cancel /\ ~s.recs[r].idle /\ s.recs[r].stop \notin { "asked", "grace" }

\* A session does not read busy with an idle CLI: nothing would ever end that turn, and no
\* message could be sent.  (What ended while the session was being adopted is not seen, and
\* a message that joined another turn whose result was lost is waited for until a Stop.)
NoTurnStuck ==
    Quiet /\ turn = << >> /\ queue = << >> /\ ~s.blind
      => \A r \in Current : r = s.pending /\ s.recs[r].id \in lost

\* No turn of the person's is ended by the result of another turn: of one the CLI runs on its
\* own, or of one that was closed here and reports its end late.
ResultIsOwn == ~s.misread

\* A turn that is open and that nothing refers to any more: another became the active one.
Forgotten == { r \in DOMAIN s.recs : St(s, r) = "open" /\ r # s.active }

\* The requests on the screen are those the CLI waits for, through lost connections and
\* other turns' ends, unless a turn was given up after a Stop, lost its result, or is forgotten.
RequestsAgree ==
    Quiet /\ ~s.blind /\ ~s.deaf /\ ~s.closing /\ lost = {} /\ Forgotten = {}
      => { q \in Reqs : s.reqs[q] # 0 } = asks

\* A steer the CLI dropped at a Stop is named to the person.
DroppedIsTold ==
    Quiet /\ ~s.deaf => \A m \in dropped : s.by[m].kind # "steer"
=============================================================================
