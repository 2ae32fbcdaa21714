-------------------------- MODULE MessageDelivery --------------------------
(***************************************************************************)
(* How the messages of a person reach the provider, for one session.       *)
(*                                                                         *)
(* Every message is journalled (sessions/input-queue.ts, InputQueue) and   *)
(* delivered from the journal's head by one command at a time: the         *)
(* commands of a session wait for each other in a promise chain            *)
(* (SessionRuntimeRegistry.run).  Stop, a direct send, a cancel and a      *)
(* release change the journal at once, before they wait for that chain,    *)
(* and so run between any two awaits of the command in progress            *)
(* (sessions/session-manager.ts, sendKeystrokes ... drainStructuredQueued- *)
(* Input).                                                                 *)
(*                                                                         *)
(* The provider side is what submitHuman and interrupt of                  *)
(* StructuredSessionService can come to.  The backend may die and start    *)
(* again between any two steps; only the journal and the row survive.      *)
(***************************************************************************)
EXTENDS Integers, FiniteSets, SequencesExt

CONSTANTS Msgs,       \* submission ids
          NoMsg,
          Steering,   \* whether the transports take messages into a running turn
          Ops,        \* what may happen: "send", "stop", "cancel", "suspend", "release", "lost", "restart"
          MaxPosts,   \* bound: requests in all
          MaxRev      \* bound: how often the revision moves

ASSUME MsgAssumption == NoMsg \notin Msgs /\ IsFiniteSet(Msgs)
ASSUME DeliveryAssumption == Steering \subseteq BOOLEAN /\ MaxPosts \in Nat /\ MaxRev \in Nat

VARIABLES
  rec,        \* the journal: a record per submission id
  order,      \* the pending ids, in order
  rev,        \* the input revision
  posting,    \* requests that captured the revision and are not admitted yet
  posts,      \* how many requests there were for a message
  lock,       \* commands of the session, the running one first
  pc,         \* where the running command waits: "idle", "loading", "sending", "answer", "replying"
  attempt,    \* the message the running command delivers, the revision it started from
  timer,      \* inputDrainTimers: "off", "armed", "running"
  row,        \* the session row: "bound", "error", "ended"
  asleep,     \* "no", "idle", or "held" (manual or pressure suspension)
  alive,      \* the conversation is loaded on a live connection
  steering,   \* its transport takes messages into a running turn
  turn,       \* "idle", "running"
  behind,     \* messages taken as steers that the running turn has not folded in
  delivered,  \* history: messages the provider accepted, in order
  dropped,    \* history: steers the provider dropped at a Stop
  admitted,   \* history: messages in the order they were queued
  bar         \* history: messages requested before the last Stop and not again since

journal == << rec, order, rev >>
queueVars == << lock, pc, attempt, timer >>
session == << row, asleep, alive, steering >>
provider == << turn, behind, delivered, dropped >>
requests == << posting, posts >>
vars == << journal, queueVars, session, provider, requests, admitted, bar >>

\* A record: its state, and what its reason tells the person: still "waiting", "unsent",
\* "uncertain", or "sent".  `refused` is notSentSince being set.
States == { "none", "queued", "submitting", "submitted", "failed", "cancelled" }
Reasons == { "waiting", "unsent", "uncertain", "sent" }
Record == [state : States, why : Reasons, refused : BOOLEAN]
Entry(state, why) == [state |-> state, why |-> why, refused |-> FALSE]

Pending(r) == r.state \in { "queued", "submitting", "failed" }

Command == [cmd : { "queue", "drain", "send", "stop", "release" }, msg : Msgs \cup {NoMsg}, rev : Nat]
Cmd(cmd, msg, at) == [cmd |-> cmd, msg |-> msg, rev |-> at]

-----------------------------------------------------------------------------
(***************************************************************************)
(* The journal.                                                            *)
(***************************************************************************)

\* A journal is a pair: the records and the list of pending ids.
Journal == [rec |-> rec, order |-> order]

\* Mutant of Put: a record written again goes to the end.
PutAtEnd(j, m, r) ==
    IF j.rec[m].state = "cancelled" THEN j
    ELSE [rec |-> [j.rec EXCEPT ![m] = r],
          order |-> LET rest == RemoveFirst(j.order, m)
                    IN IF Pending(r) THEN Append(rest, m) ELSE rest]

\* put(): nothing revives a cancelled record; a pending one keeps its place or is appended.
Put(j, m, r) ==
    IF j.rec[m].state = "cancelled" THEN j
    ELSE [rec |-> [j.rec EXCEPT ![m] = r],
          order |-> IF ~Pending(r) THEN RemoveFirst(j.order, m)
                    ELSE IF Contains(j.order, m) THEN j.order ELSE Append(j.order, m)]

Save(j) == rec' = j.rec /\ order' = j.order

\* The message of the running command, while it is being submitted: no other can be.
UnderWay ==
    IF pc \in { "sending", "answer" } /\ rec[attempt.msg].state = "submitting" THEN << attempt.msg >> ELSE << >>

\* Mutant of CancelAll: the reason of a message under way is kept.
CancelAllKeepingReason(uncertain) ==
    [rec |-> [m \in Msgs |-> IF Pending(rec[m]) THEN [rec[m] EXCEPT !.state = "cancelled"] ELSE rec[m]],
     order |-> << >>]

\* cancelQueuedInputs(): a message under way becomes uncertain, and is cancelled only with
\* cancelUncertain; every other pending one is cancelled and keeps its reason.
CancelAll(cancelUncertain) ==
    [rec |-> [m \in Msgs |->
                IF ~Pending(rec[m]) THEN rec[m]
                ELSE IF rec[m].state # "submitting" THEN [rec[m] EXCEPT !.state = "cancelled"]
                ELSE [rec[m] EXCEPT !.state = IF cancelUncertain THEN "cancelled" ELSE "failed",
                                    !.why = "uncertain"]],
     order |-> IF cancelUncertain THEN << >> ELSE UnderWay]

\* The head that a drain may take.
Ready(j) == j.order # << >> /\ j.rec[Head(j.order)].state = "queued"

\* scheduleInputDrain() on journal j, with the timer in state t.
Scheduled(j, t) == IF t = "off" /\ Ready(j) THEN "armed" ELSE t

-----------------------------------------------------------------------------
(***************************************************************************)
(* Commands.                                                               *)
(***************************************************************************)

Running == Head(lock)
Begins(cmd) == lock # << >> /\ pc = "idle" /\ Running.cmd = cmd
Waits(place) == lock # << >> /\ pc = place

\* Mutant of Ends: the queue command does not look whether something is left to deliver.
EndsWithoutSchedule(j) ==
    /\ lock' = Tail(lock) /\ pc' = "idle"
    /\ attempt' = Cmd("drain", NoMsg, 0)
    /\ timer' = IF Running.cmd = "drain" THEN Scheduled(j, "off") ELSE timer

\* The running command is over, with j the journal it leaves.  The queue command and the
\* timer's drain look again for something to deliver.
Ends(j) ==
    /\ lock' = Tail(lock) /\ pc' = "idle"
    /\ attempt' = Cmd("drain", NoMsg, 0)
    /\ timer' = CASE Running.cmd = "drain" -> Scheduled(j, "off")
                  [] Running.cmd = "queue" -> Scheduled(j, timer)
                  [] OTHER -> timer

\* defer(): say why the message waits, and forget how long the transport refused it.
Deferred(j, m) ==
    IF j.rec[m].state = "queued" THEN Put(j, m, [j.rec[m] EXCEPT !.refused = FALSE]) ELSE j

\* stillOwned(), asked after the awaits of an attempt.
StillOwned ==
    /\ rev = attempt.rev
    /\ row' = "bound" /\ asleep' # "held"
    /\ rec[attempt.msg].state = "queued"

\* The message is handed to the transport: journalled first.
Submits(j, m) == Save(Put(j, m, [j.rec[m] EXCEPT !.state = "submitting"]))

\* drainQueuedInputInternal() up to its first await, on journal j.
DrainBegins(j) ==
    IF ~Ready(j)
      THEN Save(j) /\ Ends(j)
    ELSE LET m == Head(j.order) IN
      IF row # "bound" \/ asleep = "held"
        THEN Save(Deferred(j, m)) /\ Ends(Deferred(j, m))
        ELSE /\ attempt' = Cmd("drain", m, rev)
             /\ UNCHANGED << lock, timer >>
             /\ IF asleep = "idle" \/ ~alive
                  THEN Save(j) /\ pc' = "loading"
                  ELSE Submits(j, m) /\ pc' = "sending"

\* A request captures the revision before its image preflight.
Post(m) ==
    /\ FoldFunction(+, 0, posts) < MaxPosts
    /\ posts' = [posts EXCEPT ![m] = @ + 1]
    /\ posting' = posting \cup { [msg |-> m, rev |-> rev] }
    /\ bar' = bar \ {m}
    /\ UNCHANGED << journal, queueVars, session, provider, admitted >>

\* sendKeystrokes() with a submission id.
Admit(request) ==
    /\ request \in posting
    /\ posting' = posting \ {request}
    /\ lock' = Append(lock, Cmd("queue", request.msg, request.rev))
    /\ UNCHANGED << journal, pc, attempt, timer, session, provider, posts, admitted, bar >>

\* Mutant of QueueInput: the revision the request captured is not looked at.
QueueInputUnchecked ==
    /\ Begins("queue")
    /\ LET m == Running.msg
           j == IF rec[m].state = "none" THEN Put(Journal, m, Entry("queued", "waiting")) ELSE Journal
       IN /\ DrainBegins(j)
          /\ admitted' = IF rec[m].state = "none" THEN Append(admitted, m) ELSE admitted
    /\ UNCHANGED << rev, session, provider, requests, bar >>

\* queueInputInternal(): journal the message once, unless a Stop or a direct send came
\* after its request, then deliver whatever is at the head.
QueueInput ==
    /\ Begins("queue")
    /\ LET m == Running.msg
           interrupted == Running.rev # rev
           known == rec[m].state # "none"
           j == IF known THEN Journal
                ELSE Put(Journal, m, IF interrupted THEN Entry("cancelled", "unsent") ELSE Entry("queued", "waiting"))
       IN CASE ~known /\ row # "bound" ->      \* the request is rejected
                 /\ lock' = Tail(lock)
                 /\ UNCHANGED << rec, order, pc, attempt, timer, admitted >>
            [] interrupted /\ (known \/ row = "bound") ->
                 /\ Save(j)
                 /\ lock' = Tail(lock)
                 /\ UNCHANGED << pc, attempt, timer, admitted >>
            [] OTHER ->
                 /\ DrainBegins(j)
                 /\ admitted' = IF known THEN admitted ELSE Append(admitted, m)
    /\ UNCHANGED << rev, session, provider, requests, bar >>

\* The one-second timer: its drain waits for the lock like every command.
TimerFires ==
    /\ timer = "armed"
    /\ timer' = "running"
    /\ lock' = Append(lock, Cmd("drain", NoMsg, 0))
    /\ UNCHANGED << journal, pc, attempt, session, provider, requests, admitted, bar >>

DrainInput ==
    /\ Begins("drain")
    /\ DrainBegins(Journal)
    /\ UNCHANGED << rev, session, provider, requests, admitted, bar >>

-----------------------------------------------------------------------------
(***************************************************************************)
(* An attempt after its awaits.                                            *)
(***************************************************************************)

\* The wake or the reload came to an end, with the row as the caller of this operator
\* leaves it: submit, or say that the message waits.
Resumes(loaded) ==
    IF loaded /\ StillOwned
      THEN Submits(Journal, attempt.msg) /\ pc' = "sending" /\ UNCHANGED << lock, attempt, timer >>
      ELSE Save(Deferred(Journal, attempt.msg)) /\ Ends(Deferred(Journal, attempt.msg))

\* refreshSessionState(): the conversation is loaded again, or it is not and the row may
\* be left in error.
LoadEnds ==
    /\ Waits("loading")
    /\ \/ alive' = TRUE /\ asleep' = "no" /\ row' = "bound" /\ Resumes(TRUE)
       \/ alive' = FALSE /\ asleep' = asleep /\ row' \in { "bound", "error" } /\ Resumes(FALSE)
    /\ UNCHANGED << rev, steering, provider, requests, admitted, bar >>

Mine == rec[attempt.msg]

\* An error of submitHuman: nothing is recorded for a message that a Stop or a release
\* took over while it was under way.
Fails(r) ==
    LET j == IF Mine.state = "submitting" THEN Put(Journal, attempt.msg, r) ELSE Journal
    IN Save(j) /\ Ends(j)

\* The transport takes the message: it starts a turn, or steers the running one.
Accepts ==
    /\ Waits("sending") /\ alive
    /\ turn = "idle" \/ steering
    /\ delivered' = Append(delivered, attempt.msg)
    /\ behind' = IF turn = "running" THEN behind \cup { attempt.msg } ELSE behind
    /\ turn' = "running"
    /\ pc' = "answer"
    /\ UNCHANGED << journal, lock, attempt, timer, session, dropped, requests, admitted, bar >>

\* The answer arrives.
Submitted ==
    /\ Waits("answer")
    /\ LET j == Put(Journal, attempt.msg, Entry("submitted", "sent")) IN Save(j) /\ Ends(j)
    /\ UNCHANGED << rev, session, provider, requests, admitted, bar >>

\* The answer is lost, or an error that does not say whether the message arrived.
Unconfirmed ==
    /\ Waits("answer") \/ (Waits("sending") /\ alive)
    /\ Fails(Entry("failed", "uncertain"))
    /\ UNCHANGED << rev, session, provider, requests, admitted, bar >>

\* NotSentError, StructuredUnavailableError: nothing was written.  The message waits; a run
\* of refusals that lasts for STRUCTURED_NOT_SENT_LIMIT_MS fails it.
NotSent ==
    /\ Waits("sending")
    /\ \/ Fails([Entry("queued", "waiting") EXCEPT !.refused = TRUE])
       \/ Mine.refused /\ Fails([Entry("failed", "unsent") EXCEPT !.refused = TRUE])
    /\ UNCHANGED << rev, session, provider, requests, admitted, bar >>

\* SendRejectedError, StructuredUnsupportedError: trying again would fail the same way.
Rejected ==
    /\ Waits("sending") /\ alive
    /\ Fails(Entry("failed", "unsent"))
    /\ UNCHANGED << rev, session, provider, requests, admitted, bar >>

\* StructuredBusyError, PreviousTurnActiveError: the message waits for the turn.  A provider
\* that stops for a reply is interrupted once the message is durable again.
Busy ==
    /\ Waits("sending") /\ alive
    /\ turn = "running" => ~steering
    /\ \/ Fails(Entry("queued", "waiting"))
       \/ /\ turn = "running" /\ Mine.state = "submitting"
          /\ Save(Put(Journal, attempt.msg, Entry("queued", "waiting")))
          /\ pc' = "replying" /\ UNCHANGED << lock, attempt, timer >>
    /\ UNCHANGED << rev, session, provider, requests, admitted, bar >>

\* Mutant of Replied: the command waits for the interrupted turn to end.
RepliedAtTurnEnd ==
    /\ Waits("replying") /\ turn = "idle"
    /\ Save(Journal) /\ Ends(Journal)
    /\ UNCHANGED << rev, provider, session, requests, admitted, bar >>

\* interruptForQueuedReply() returned, or failed and the reason of the record says so.
Replied ==
    /\ Waits("replying")
    /\ \/ turn' \in { "idle", turn } /\ Save(Journal) /\ Ends(Journal)
       \/ LET j == Put(Journal, attempt.msg, Entry("queued", "waiting"))
          IN Save(j) /\ Ends(j) /\ UNCHANGED turn
    /\ UNCHANGED << rev, behind, delivered, dropped, session, requests, admitted, bar >>

-----------------------------------------------------------------------------
(***************************************************************************)
(* What a person does besides sending a queued message.                    *)
(***************************************************************************)

\* Stop: at once the revision moves and everything that waits is cancelled; the running
\* turn is interrupted when the lock is free.
Stop ==
    /\ "stop" \in Ops /\ rev < MaxRev
    /\ rev' = rev + 1
    /\ Save(CancelAll(TRUE))
    /\ bar' = bar \cup { m \in Msgs : posts[m] > 0 }
    /\ lock' = Append(lock, Cmd("stop", NoMsg, 0))
    /\ UNCHANGED << pc, attempt, timer, session, provider, requests, admitted >>

\* markCancelledSteers(), which lists those that were not pending in the provider's order.
MarkCancelled(steers, listed) ==
    [rec |-> [m \in Msgs |-> IF m \in steers /\ rec[m].state # "cancelled" THEN Entry("failed", "unsent") ELSE rec[m]],
     order |-> order \o listed]

\* interrupt(), then the steers that the provider dropped with its turn are marked.  Nothing
\* loaded, nothing running and a failed interrupt change nothing here.
StopRuns ==
    /\ Begins("stop")
    /\ \/ /\ alive /\ turn = "running"
          /\ turn' = "idle" /\ behind' = {}
          /\ \E steers \in SUBSET behind :
               /\ dropped' = dropped \cup steers
               /\ \E listed \in SetToSeqs({ m \in steers : rec[m].state # "cancelled" /\ ~Pending(rec[m]) }) :
                    Save(MarkCancelled(steers, listed)) /\ Ends(MarkCancelled(steers, listed))
       \/ Save(Journal) /\ Ends(Journal) /\ UNCHANGED << turn, behind, dropped >>
    /\ UNCHANGED << rev, delivered, session, requests, admitted, bar >>

\* sendInput(): not journalled.  It moves the revision at once and waits for the lock.
SendDirect ==
    /\ "send" \in Ops /\ rev < MaxRev
    /\ rev' = rev + 1
    /\ lock' = Append(lock, Cmd("send", NoMsg, 0))
    /\ UNCHANGED << rec, order, pc, attempt, timer, session, provider, requests, admitted, bar >>

\* It wakes or reloads the conversation and starts or steers a turn, or it is rejected.
SendDirectRuns ==
    /\ Begins("send")
    /\ \/ /\ asleep # "held" /\ row # "ended" /\ (turn = "idle" \/ steering)
          /\ alive' = TRUE /\ asleep' = "no" /\ row' = "bound" /\ turn' = "running" /\ UNCHANGED steering
       \/ UNCHANGED << session, turn >>
    /\ Save(Journal) /\ Ends(Journal)
    /\ UNCHANGED << rev, behind, delivered, dropped, requests, admitted, bar >>

\* cancelQueuedInput(): at once, and not once a submission has started.
Cancel(m) ==
    /\ "cancel" \in Ops
    /\ rec[m].state \in { "queued", "failed" }
    /\ LET j == Put(Journal, m, [rec[m] EXCEPT !.state = "cancelled"])
       IN Save(j) /\ timer' = Scheduled(j, timer)
    /\ UNCHANGED << rev, lock, pc, attempt, session, provider, requests, admitted, bar >>

\* releaseSession(): what waits is cancelled at once, the row ends when the lock is free.
Release ==
    /\ "release" \in Ops /\ row # "ended"
    /\ \A i \in 1..Len(lock) : lock[i].cmd # "release"
    /\ Save(CancelAll(FALSE))
    /\ lock' = Append(lock, Cmd("release", NoMsg, 0))
    /\ UNCHANGED << rev, pc, attempt, timer, session, provider, requests, admitted, bar >>

ReleaseRuns ==
    /\ Begins("release")
    /\ \/ row' = "ended" /\ asleep' = "no" /\ alive' = FALSE /\ turn' = "idle" /\ behind' = {} /\ UNCHANGED steering
       \/ UNCHANGED << session, turn, behind >>      \* the provider could not be released
    /\ Save(Journal) /\ Ends(Journal)
    /\ UNCHANGED << rev, delivered, dropped, requests, admitted, bar >>

-----------------------------------------------------------------------------
(***************************************************************************)
(* The session and the provider.  Suspend, sleep and resume are commands   *)
(* too: they run between the others, when the lock is free for them.       *)
(***************************************************************************)

Between == pc = "idle"

\* suspendSession(): what waits is cancelled.
Suspend ==
    /\ "suspend" \in Ops /\ Between
    /\ row = "bound" /\ asleep # "held" /\ turn = "idle"
    /\ asleep' = "held" /\ alive' = FALSE /\ behind' = {}
    /\ Save(CancelAll(FALSE))
    /\ UNCHANGED << rev, queueVars, row, steering, turn, delivered, dropped, requests, admitted, bar >>

\* suspendIdleSession(): not while a message waits.
Sleep ==
    /\ "suspend" \in Ops /\ Between
    /\ row = "bound" /\ asleep = "no" /\ turn = "idle" /\ order = << >>
    /\ asleep' = "idle" /\ alive' = FALSE /\ behind' = {}
    /\ UNCHANGED << journal, queueVars, row, steering, turn, delivered, dropped, requests, admitted, bar >>

\* resumeSession(), ensureSession() and the reconcile pass load a session again.
Resume ==
    /\ Between /\ row # "ended" /\ ~alive
    /\ alive' = TRUE /\ asleep' = "no" /\ row' = "bound"
    /\ UNCHANGED << journal, queueVars, steering, provider, requests, admitted, bar >>

\* The connection or the provider process is lost, and the turn with it.
ConnectionLost ==
    /\ "lost" \in Ops /\ alive
    /\ alive' = FALSE /\ turn' = "idle" /\ behind' = {}
    /\ UNCHANGED << journal, queueVars, row, asleep, steering, delivered, dropped, requests, admitted, bar >>

\* The turn ends; what it had not folded in becomes part of the conversation.
TurnEnds ==
    /\ turn = "running"
    /\ turn' = "idle" /\ behind' = {}
    /\ UNCHANGED << journal, queueVars, session, delivered, dropped, requests, admitted, bar >>

\* The backend dies and starts again: a message under way is failed, not sent again.
Restart ==
    LET j == [rec |-> [m \in Msgs |-> IF rec[m].state = "submitting" THEN Entry("failed", "uncertain") ELSE rec[m]],
              order |-> order]
    IN /\ "restart" \in Ops
       /\ Save(j)
       /\ lock' = << >> /\ pc' = "idle" /\ attempt' = Cmd("drain", NoMsg, 0)
       /\ timer' = Scheduled(j, "off")
       /\ posting' = {}
       /\ alive' = FALSE /\ turn' \in { "idle", turn } /\ behind' = {}
       /\ UNCHANGED << rev, posts, row, asleep, steering, delivered, dropped, admitted, bar >>

-----------------------------------------------------------------------------
Init ==
    /\ rec = [m \in Msgs |-> Entry("none", "waiting")] /\ order = << >> /\ rev = 0
    /\ posting = {} /\ posts = [m \in Msgs |-> 0]
    /\ lock = << >> /\ pc = "idle" /\ attempt = Cmd("drain", NoMsg, 0) /\ timer = "off"
    /\ row = "bound" /\ asleep = "no" /\ alive = TRUE /\ steering \in Steering
    /\ turn = "idle" /\ behind = {} /\ delivered = << >> /\ dropped = {}
    /\ admitted = << >> /\ bar = {}

\* The command that has the lock goes on.
LockStep ==
    \/ QueueInput \/ DrainInput \/ LoadEnds
    \/ Accepts \/ Submitted \/ Unconfirmed \/ NotSent \/ Rejected \/ Busy \/ Replied
    \/ StopRuns \/ SendDirectRuns \/ ReleaseRuns

PersonStep ==
    \/ \E m \in Msgs : Post(m) \/ Cancel(m)
    \/ \E request \in posting : Admit(request)
    \/ Stop \/ SendDirect \/ Release

SessionStep == Suspend \/ Sleep \/ Resume \/ ConnectionLost \/ TurnEnds \/ Restart

Next == LockStep \/ TimerFires \/ PersonStep \/ SessionStep

Spec == Init /\ [][Next]_vars

\* Timers fire, and every await of a command ends: requests to a provider have time limits.
FairSpec == Spec /\ WF_vars(LockStep) /\ WF_vars(TimerFires)

-----------------------------------------------------------------------------
\* Every variable stays in its type.
TypeOK ==
    /\ rec \in [Msgs -> Record] /\ order \in Seq(Msgs) /\ rev \in Nat
    /\ posting \subseteq [msg : Msgs, rev : Nat] /\ posts \in [Msgs -> Nat]
    /\ lock \in Seq(Command) /\ pc \in { "idle", "loading", "sending", "answer", "replying" }
    /\ attempt \in Command /\ timer \in { "off", "armed", "running" }
    /\ row \in { "bound", "error", "ended" } /\ asleep \in { "no", "idle", "held" } /\ alive \in BOOLEAN /\ steering \in Steering
    /\ turn \in { "idle", "running" } /\ behind \subseteq Msgs
    /\ delivered \in Seq(Msgs) /\ dropped \subseteq Msgs /\ admitted \in Seq(Msgs)
    /\ bar \subseteq Msgs

Delivered == { delivered[i] : i \in 1..Len(delivered) }

\* A message is delivered at most once, and messages are delivered in the order in which
\* they were queued, whatever is retried, steered, stopped, cancelled or restarted.
DeliveredOnceInOrder ==
    \A i, j \in 1..Len(delivered) : i < j =>
      \E p, q \in 1..Len(admitted) : p < q /\ admitted[p] = delivered[i] /\ admitted[q] = delivered[j]

\* The journal does not mislead: a message that it reports as waiting or as not sent never
\* reached the provider, except as a steer that the provider gave back.
HonestJournal ==
    \A m \in Msgs :
      rec[m].state \in { "queued", "failed", "cancelled" } /\ rec[m].why \in { "waiting", "unsent" }
        => m \notin Delivered \/ m \in dropped

\* Stop is final: a message requested before a Stop that has run is not delivered after it,
\* wherever it was when the person pressed Stop.
NothingAfterStop ==
    [][\A m \in bar : delivered' = Append(delivered, m) =>
         \E i \in 1..Len(lock) : lock[i].cmd = "stop"]_vars

\* No lost wakeup: a queued message at the head has a command or a timer that will try it.
HeadIsDriven ==
    Ready(Journal) => timer # "off" \/ \E i \in 1..Len(lock) : lock[i].cmd \in { "queue", "drain" }

\* A command that waits for the lock gets it: Stop and release always get through.
StopGetsThrough ==
    (\E i \in 1..Len(lock) : lock[i].cmd \in { "stop", "release" })
      ~> ~ \E i \in 1..Len(lock) : lock[i].cmd \in { "stop", "release" }

=============================================================================
