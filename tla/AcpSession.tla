----------------------------- MODULE AcpSession -----------------------------
(***************************************************************************)
(* One conversation with Grok or Mistral Vibe over ACP: the session object *)
(* (grok-session.ts, vibe-session.ts), the handshake that makes one         *)
(* (grok-instance.ts, vibe-instance.ts) and the provider process behind its *)
(* host.                                                                   *)
(*                                                                         *)
(* A prompt is a request that stays open for its whole turn.  The process   *)
(* outlives the connection, and what it prints while nobody listens is     *)
(* lost: the next backend has to find out which turn is running and how it *)
(* will learn of its end.  Grok lists its sessions and says of the end of  *)
(* a prompt twice, naming the prompt; it also begins turns of its own.     *)
(* Vibe only answers the request, whose id the turn record keeps, and       *)
(* leaves a snapshot on disk.                                              *)
(***************************************************************************)
EXTENDS Integers, Sequences, FiniteSets

CONSTANTS MaxPrompts,   \* bound: prompts, the provider's own wakes included
          MaxTurns,     \* bound: turns the Console speaks of
          MaxFaults,    \* bound: lost connections, dead processes and backends
          Room          \* bound: frames under way

ASSUME BoundAssumption == MaxPrompts \in Nat /\ MaxTurns \in Nat /\ MaxFaults \in Nat /\ Room \in Nat

Prompts == 1 .. MaxPrompts
Turns   == 1 .. MaxTurns
None    == 0

VARIABLES
  vibe,      \* the provider is Vibe; else Grok
  \* the process
  alive, holds, queue, run, own, done, failed, silent,
             \* it has the conversation; prompts it read and has not begun; the one it works on; wakes
             \* of its own among the prompts; those that ended; of these Grok's that it answered with
             \* an error over this connection, and those of which it said nothing else
  asking,    \* the handshake request it has not answered
  line,      \* what it printed and this connection has not read
  \* the backend
  stage,     \* of the connection: closed, greeting, listing, loading, ready
  fresh,     \* this connection started the process
  due,       \* the handshake answer that was read and whose caller has not gone on
  early,     \* Vibe: frames read before there is a session
  active,    \* the turn in flight
  bound,     \* Vibe: adoptedRequestId
  sending,   \* the sendTurn() in progress, and the prompt it wrote
  mine,      \* prompts requested over this connection
  answered,  \* of these, answers that were read and whose callback has not run
  finished,  \* Grok: finishedPrompts
  record,    \* the turn record in plugin meta
  last, turns, faults,
  of,        \* history: the prompt a turn was begun for
  told,      \* history: turns whose end was reported
  late,      \* history: prompts whose turn was ended by something else than their own end or lost its
             \* record to another turn, and whether the session will know their end signal for late
  cause      \* history: the turn that ended last, and the prompt whose end ended it, unless the
             \* turn had no end of its own to come

process == << alive, holds, queue, run, own, done, failed, silent >>
session == << active, bound, finished, record >>
client  == << sending, mine, answered >>
shake   == << stage, fresh, due, early, asking >>
bounds  == << last, turns, faults >>
history == << of, told, late, cause >>
vars == << vibe, process, line, session, client, shake, bounds, history >>

NoTurn   == [ turn |-> None, prompt |-> None, user |-> FALSE, timer |-> FALSE, stray |-> FALSE ]
NoRecord == [ turn |-> None, prompt |-> None, base |-> -1 ]
NoFrame  == [ t |-> "none", p |-> None ]
Frame(t, p) == [ t |-> t, p |-> p ]
NotSending == [ s |-> "no", p |-> None, base |-> -1 ]

Frames == [ t : { "none", "hello", "roster", "away", "loaded", "content", "completed", "answer" },
            p : Prompts \cup {None} ]

TypeOK ==
    /\ vibe \in BOOLEAN /\ alive \in BOOLEAN /\ holds \in BOOLEAN /\ fresh \in BOOLEAN
    /\ queue \in Seq(Prompts) /\ run \in Prompts \cup {None} /\ own \subseteq Prompts /\ done \subseteq Prompts
    /\ failed \subseteq done /\ silent \subseteq failed
    /\ asking \in { "none", "hello", "roster", "loaded" }
    /\ line \in Seq(Frames) /\ due \in Frames /\ early \subseteq Frames
    /\ stage \in { "closed", "greeting", "listing", "loading", "ready" }
    /\ active \in [ turn : Turns \cup {None}, prompt : Prompts \cup {None}, user : BOOLEAN,
                    timer : BOOLEAN, stray : BOOLEAN ]
    /\ bound \in Prompts \cup {None}
    /\ sending \in [ s : { "no", "preparing", "written" }, p : Prompts \cup {None}, base : -1 .. MaxPrompts ]
    /\ mine \subseteq Prompts /\ answered \subseteq mine /\ finished \subseteq Prompts
    /\ record \in [ turn : Turns \cup {None}, prompt : Prompts \cup {None}, base : -1 .. MaxPrompts ]
    /\ last \in Nat /\ turns \in Nat /\ faults \in Nat
    /\ of \in [ Turns -> Prompts \cup {None} ] /\ told \subseteq Turns
    /\ late \in [ Prompts -> { "no", "known", "unknown" } ]
    /\ cause \in [ turn : Turns \cup {None}, by : Prompts \cup {None} ]

\* No process runs, nothing is recorded.
Init ==
    /\ vibe \in BOOLEAN
    /\ alive = FALSE /\ holds = FALSE /\ queue = <<>> /\ run = None /\ own = {} /\ done = {}
    /\ failed = {} /\ silent = {}
    /\ asking = "none" /\ line = <<>>
    /\ stage = "closed" /\ fresh = FALSE /\ due = NoFrame /\ early = {}
    /\ active = NoTurn /\ bound = None /\ sending = NotSending /\ mine = {} /\ answered = {}
    /\ finished = {} /\ record = NoRecord
    /\ last = 0 /\ turns = 0 /\ faults = 0
    /\ of = [ t \in Turns |-> None ] /\ told = {} /\ late = [ p \in Prompts |-> "no" ]
    /\ cause = [ turn |-> None, by |-> None ]

-----------------------------------------------------------------------------
(* The process.                                                            *)

\* Live output only: what is printed while nobody is connected is lost.
Prints(frames) == line' = IF stage = "closed" THEN line ELSE line \o frames

Hearing(p) == IF stage = "closed" THEN {} ELSE {p}

ProcessFrame == << vibe, session, client, stage, fresh, due, early, turns, faults, history >>

AnswersHandshake ==
    /\ alive /\ asking # "none"
    /\ LET now == IF run # None THEN run ELSE IF queue # <<>> THEN Head(queue) ELSE None
       IN  Prints(<< IF asking = "roster"
                       THEN Frame(IF holds THEN "roster" ELSE "away", IF holds THEN now ELSE None)
                       ELSE Frame(asking, None) >>)
    /\ holds' = (holds \/ asking = "loaded")
    /\ asking' = "none"
    /\ UNCHANGED << ProcessFrame, alive, queue, run, own, done, failed, silent, last >>

Begins ==
    /\ run = None /\ queue # <<>> /\ holds
    /\ run' = Head(queue) /\ queue' = Tail(queue)
    /\ UNCHANGED << ProcessFrame, alive, holds, own, done, failed, silent, asking, line, last >>

\* Grok begins a turn nobody asked for: a background task finished.
OwnWake ==
    /\ ~vibe /\ alive /\ holds
    /\ run = None /\ queue = <<>> /\ last < MaxPrompts
    /\ last' = last + 1 /\ run' = last + 1 /\ own' = own \cup {last + 1}
    /\ UNCHANGED << ProcessFrame, alive, holds, queue, done, failed, silent, asking, line >>

PrintsContent ==
    /\ run # None /\ stage # "closed" /\ Len(line) < Room
    /\ Prints(<< Frame("content", run) >>)
    /\ UNCHANGED << ProcessFrame, process, asking, last >>

\* The prompt ends: on disk, and in the signals of its provider.  Grok answers a prompt that failed
\* with an error, and may say nothing else of its end.
Ends ==
    /\ run # None
    /\ run' = None /\ done' = done \cup {run}
    /\ \/ /\ vibe /\ Prints(<< Frame("answer", run) >>)
          /\ UNCHANGED << failed, silent >>
       \/ /\ ~vibe /\ run \in own /\ Prints(<< Frame("completed", run) >>)
          /\ UNCHANGED << failed, silent >>
       \/ /\ ~vibe /\ run \notin own
          /\ \/ Prints(<< Frame("completed", run), Frame("answer", run) >>)
             \/ Prints(<< Frame("answer", run), Frame("completed", run) >>)
          /\ failed' \in { failed, failed \cup Hearing(run) } /\ UNCHANGED silent
       \/ /\ ~vibe /\ run \notin own /\ Prints(<< Frame("answer", run) >>)
          /\ failed' = failed \cup Hearing(run) /\ silent' = silent \cup Hearing(run)
    /\ UNCHANGED << ProcessFrame, alive, holds, queue, own, asking, last >>

\* A process that does not have the conversation refuses its prompts.
Refuses ==
    /\ queue # <<>> /\ ~holds
    /\ Prints(<< Frame("answer", Head(queue)) >>)
    /\ queue' = Tail(queue) /\ done' = done \cup {Head(queue)}
    /\ IF vibe THEN UNCHANGED << failed, silent >>
               ELSE failed' = failed \cup Hearing(Head(queue)) /\ silent' = silent \cup Hearing(Head(queue))
    /\ UNCHANGED << ProcessFrame, alive, holds, run, own, asking, last >>

-----------------------------------------------------------------------------
(* Turns.                                                                  *)

\* Mutant: the end leaves the record of the turn.
FinalizeKeepingRecord(by, names) ==
    LET q     == of[active.turn]
        known == IF vibe THEN {} ELSE (finished \cup {active.prompt} \cup names) \ {None}
    IN  /\ active' = NoTurn /\ bound' = None
        /\ finished' = known
        /\ told' = told \cup {active.turn}
        /\ late' = IF q = None \/ (q = by /\ (vibe \/ q \in known)) THEN late
                   ELSE [ late EXCEPT ![q] = IF vibe \/ q \in known THEN "known" ELSE "unknown" ]
        /\ cause' = [ turn |-> active.turn, by |-> IF active.stray THEN None ELSE by ]
        /\ UNCHANGED record

\* finalize(): the one end of the turn in flight, by the end of prompt `by` or by nobody's; Grok
\* notes which prompts can still be heard of.
Finalize(by, names) ==
    LET q     == of[active.turn]
        known == IF vibe THEN {} ELSE (finished \cup {active.prompt} \cup names) \ {None}
    IN  /\ active' = NoTurn /\ bound' = None
        /\ finished' = known
        /\ record' = NoRecord
        /\ told' = told \cup {active.turn}
        /\ late' = IF q = None \/ (q = by /\ (vibe \/ q \in known)) THEN late
                   ELSE [ late EXCEPT ![q] = IF vibe \/ q \in known THEN "known" ELSE "unknown" ]
        /\ cause' = [ turn |-> active.turn, by |-> IF active.stray THEN None ELSE by ]

\* beginTurn(): Grok records every turn, Vibe only one whose request it knows.
BeginTurn(p, turn) ==
    /\ turns < MaxTurns
    /\ turns' = turns + 1
    /\ active' = [ turn EXCEPT !.turn = turns + 1 ]
    /\ of' = [ of EXCEPT ![turns + 1] = p ]

\* ensureProviderTurn(), ensureTurn(): content nobody asked for opens a turn.  Nothing will end it
\* when the end of its prompt was told already, or when the provider is Vibe.
Content(p) ==
    \/ /\ active # NoTurn
       /\ active' = IF ~vibe /\ active.prompt = None THEN [ active EXCEPT !.prompt = p ] ELSE active
       /\ UNCHANGED << bound, finished, record, turns, history >>
    \/ /\ active = NoTurn /\ sending.s # "no"
       /\ UNCHANGED << session, turns, history >>
    \/ /\ active = NoTurn /\ sending.s = "no"
       /\ BeginTurn(p, [ NoTurn EXCEPT !.prompt = IF vibe THEN None ELSE p, !.stray = vibe \/ p \in finished ])
       /\ record' = IF vibe THEN record ELSE [ NoRecord EXCEPT !.turn = turns + 1 ]
       /\ late' = IF ~vibe /\ record.turn # None /\ of[record.turn] \notin { None, p }
                    THEN [ late EXCEPT ![of[record.turn]] = "unknown" ] ELSE late
       /\ UNCHANGED << bound, finished, told, cause >>

\* Mutant: Grok does not look for prompts whose end it has told.
EndsActiveByName(p) == active # NoTurn /\ IF vibe THEN bound = p ELSE active.prompt \in { None, p }

\* Mutant: Grok takes only the end of a prompt the turn was named for.
EndsActiveNamed(p) == active # NoTurn /\ IF vibe THEN bound = p ELSE p \notin finished /\ active.prompt = p

\* signalIsForTurn(): the end of a prompt that is no answer to this connection is taken by Grok by the
\* names of prompts, by Vibe by the request of the turn it adopted.
EndsActive(p) ==
    /\ active # NoTurn
    /\ IF vibe THEN bound = p ELSE p \notin finished /\ active.prompt \in { None, p }

\* handleUnmatchedResponse(): of an answer to an earlier connection Grok takes a result only, Vibe an
\* error as well.
Tells(f) == f.t = "completed" \/ vibe \/ f.p \notin failed

-----------------------------------------------------------------------------
(* Reading.                                                                *)

\* Before there is a session Vibe keeps what comes, and Grok drops it; both drop what comes while
\* a saved history is loaded.
Unheard == stage \in { "greeting", "loading" }

Handshakes == { "hello", "roster", "away", "loaded" }

\* The next frame is read: the answer to the handshake, the answer to a prompt of this
\* connection, a frame nobody takes yet, content, or the end of a prompt.
Read ==
    /\ stage # "closed" /\ line # <<>>
    /\ line' = Tail(line)
    /\ \E f \in { Head(line) } :
         \/ /\ f.t \in Handshakes
            /\ due' = f
            /\ UNCHANGED << early, session, answered, turns, history >>
         \/ /\ f.t = "answer" /\ f.p \in mine
            /\ answered' = answered \cup {f.p}
            /\ UNCHANGED << due, early, session, turns, history >>
         \/ /\ f.t \notin Handshakes /\ f.p \notin mine /\ Unheard
            /\ early' = (IF vibe THEN early \cup {f} ELSE early)
            /\ UNCHANGED << due, session, answered, turns, history >>
         \/ /\ f.t = "content" /\ ~Unheard
            /\ Content(f.p)
            /\ UNCHANGED << due, early, answered >>
         \/ /\ f.t = "completed" \/ (f.t = "answer" /\ f.p \notin mine)
            /\ ~Unheard
            /\ IF Tells(f) /\ EndsActive(f.p) THEN Finalize(f.p, {f.p}) ELSE UNCHANGED << session, told, late, cause >>
            /\ UNCHANGED << due, early, answered, turns, of >>
    /\ UNCHANGED << vibe, process, stage, fresh, asking, sending, mine, last, faults >>

\* onPromptResponse(), onPromptError(): the callback of the answer, after the other frames that came
\* with it.  A result names the prompt; an error does not.
Settle(p) ==
    /\ p \in answered /\ sending.p # p
    /\ answered' = answered \ {p}
    /\ IF active.user /\ of[active.turn] = p
         THEN Finalize(p, {p} \ failed)
         ELSE UNCHANGED << session, told, late, cause >>
    /\ UNCHANGED << vibe, process, line, shake, sending, mine, bounds, of >>

-----------------------------------------------------------------------------
(* Sending and stopping.                                                   *)

SessionFrame == << vibe, line, shake, faults >>

\* sendTurn() claims the slot, then awaits the settings.
SendBegins ==
    /\ stage = "ready" /\ active = NoTurn /\ sending = NotSending
    /\ sending' = [ NotSending EXCEPT !.s = "preparing" ]
    /\ UNCHANGED << SessionFrame, process, session, mine, answered, last, turns, history >>

SendFails ==
    /\ sending.s = "preparing"
    /\ sending' = NotSending
    /\ UNCHANGED << SessionFrame, process, session, mine, answered, last, turns, history >>

\* The request is written; Vibe notes what is on disk before it, when that can be read.
SendWrites ==
    /\ sending.s = "preparing" /\ last < MaxPrompts
    /\ last' = last + 1
    /\ \E base \in IF vibe THEN { -1, Cardinality(done) } ELSE { -1 } :
         sending' = [ s |-> "written", p |-> last + 1, base |-> base ]
    /\ queue' = Append(queue, last + 1)
    /\ mine' = mine \cup {last + 1}
    /\ UNCHANGED << SessionFrame, alive, holds, run, own, done, failed, silent, session, answered, turns, history >>

\* The transport took the line: the turn begins.
SendConfirmed ==
    /\ sending.s = "written"
    /\ BeginTurn(sending.p, [ NoTurn EXCEPT !.user = TRUE ])
    /\ record' = [ turn |-> turns + 1, prompt |-> sending.p, base |-> sending.base ]
    /\ sending' = NotSending
    /\ UNCHANGED << SessionFrame, process, bound, finished, mine, answered, last, told, late, cause >>

\* interrupt(): the process is told, and given a while to end the turn.
Interrupt ==
    /\ stage = "ready" /\ active # NoTurn /\ ~active.timer
    /\ active' = [ active EXCEPT !.timer = TRUE ]
    /\ UNCHANGED << SessionFrame, process, bound, finished, record, client, last, turns, history >>

GraceExpires ==
    /\ active.timer
    /\ Finalize(None, {})
    /\ UNCHANGED << SessionFrame, process, client, last, turns, of >>

-----------------------------------------------------------------------------
(* The handshake.                                                          *)

\* openProcess: the survivor when there is one, else a new process and no record.
Connect ==
    /\ stage = "closed"
    /\ stage' = "greeting" /\ asking' = "hello"
    /\ alive' = TRUE /\ fresh' = ~alive
    /\ record' = IF alive THEN record ELSE NoRecord
    /\ UNCHANGED << vibe, holds, queue, run, own, done, failed, silent, line, due, early, active, bound, finished, client,
                    bounds, history >>

HandshakeFrame == << vibe, process, line, fresh, client, last, faults >>

\* initialize was answered: Grok asks for the roster, a new Vibe process loads the conversation.
Greeted ==
    /\ due.t = "hello" /\ (~vibe \/ fresh)
    /\ due' = NoFrame
    /\ stage' = (IF vibe THEN "loading" ELSE "listing")
    /\ asking' = (IF vibe THEN "loaded" ELSE "roster")
    /\ UNCHANGED << HandshakeFrame, early, session, turns, history >>

\* The process does not hold the conversation: it reads it back from disk.
Away ==
    /\ due.t = "away"
    /\ due' = NoFrame /\ stage' = "loading" /\ asking' = "loaded"
    /\ UNCHANGED << HandshakeFrame, early, session, turns, history >>

Loaded ==
    /\ due.t = "loaded"
    /\ due' = NoFrame /\ stage' = "ready" /\ early' = {}
    /\ record' = NoRecord
    /\ UNCHANGED << HandshakeFrame, asking, active, bound, finished, turns, history >>

\* An end signal of `p` is still to come on this connection, and will be known for one.
Awaited(p, kind) ==
    p \notin finished /\ (p \in done => Frame(kind, p) \in { line[i] : i \in 1 .. Len(line) })

\* adoptRunningTurn(): the turn of the record goes on under its id, as that of the prompt that runs
\* when its own is over; without a record it is a new turn.
Adopt(p, stray) ==
    LET adopted == [ NoTurn EXCEPT !.stray = stray ]
    IN  IF record.turn # None
          THEN /\ active' = [ adopted EXCEPT !.turn = record.turn ]
               /\ of' = IF of[record.turn] \in done THEN [ of EXCEPT ![record.turn] = p ] ELSE of
               /\ UNCHANGED turns
          ELSE BeginTurn(p, adopted)

\* Grok's roster was read: a turn that runs is adopted, a record of one that does not is dropped.
Listed ==
    /\ due.t = "roster"
    /\ due' = NoFrame /\ stage' = "ready"
    /\ \/ /\ due.p # None /\ active = NoTurn
          /\ Adopt(due.p, ~Awaited(due.p, "completed"))
          /\ record' = [ NoRecord EXCEPT !.turn = active'.turn ]
       \/ /\ due.p # None /\ active # NoTurn
          /\ UNCHANGED << active, record, turns, of >>
       \/ /\ due.p = None
          /\ record' = NoRecord
          /\ UNCHANGED << active, turns, of >>
    /\ UNCHANGED << HandshakeFrame, asking, early, bound, finished, told, late, cause >>

\* vibeTurnSettled(): the snapshot on disk is newer than the one before the prompt, and nothing runs.
Settled == record.base >= 0 /\ Cardinality(done) > record.base /\ run = None

HeldContent == \E f \in early : f.t = "content"

\* Content that was held for a session with no turn opens one that nothing will end.
OpenHeld ==
    IF HeldContent
      THEN \E f \in early : f.t = "content" /\ BeginTurn(f.p, [ NoTurn EXCEPT !.stray = TRUE ])
      ELSE active' = NoTurn /\ UNCHANGED << turns, of >>

\* A Vibe process that was running already: its recorded turn is adopted, perhaps ended from the
\* store, and then what was held is handed over, content first.
Reattached ==
    /\ due.t = "hello" /\ vibe /\ ~fresh
    /\ due' = NoFrame /\ stage' = "ready" /\ early' = {}
    /\ LET p == record.prompt
           heard == Frame("answer", p) \in early
       IN  CASE record = NoRecord ->
                  OpenHeld /\ UNCHANGED << bound, record, told, cause >>
             [] record # NoRecord /\ Settled ->
                  /\ OpenHeld
                  /\ told' = told \cup {record.turn}
                  /\ cause' = [ turn |-> record.turn, by |-> p ]
                  /\ record' = NoRecord /\ UNCHANGED bound
             [] record # NoRecord /\ ~Settled /\ heard ->
                  /\ told' = told \cup {record.turn}
                  /\ cause' = [ turn |-> record.turn, by |-> p ]
                  /\ record' = NoRecord /\ UNCHANGED << active, bound, turns, of >>
             [] OTHER ->
                  /\ Adopt(p, ~Awaited(p, "answer"))
                  /\ bound' = p
                  /\ UNCHANGED << record, told, cause >>
    /\ UNCHANGED << HandshakeFrame, asking, finished, late >>

-----------------------------------------------------------------------------
(* Ends of a connection.                                                   *)

\* The connection is gone, with what was under way on it; Grok's finished prompts with its session.
Close ==
    /\ stage' = "closed" /\ asking' = "none" /\ due' = NoFrame /\ early' = {} /\ line' = <<>>
    /\ sending' = NotSending /\ mine' = {} /\ answered' = {} /\ failed' = {} /\ silent' = {}

Forgotten(l) == [ p \in Prompts |-> IF ~vibe /\ l[p] = "known" THEN "unknown" ELSE l[p] ]

\* handleExit(): the turn in flight has failed.
HandleExit ==
    /\ active' = NoTurn /\ bound' = None /\ finished' = {}
    /\ IF active # NoTurn
         THEN /\ told' = told \cup {active.turn}
              /\ cause' = [ turn |-> active.turn, by |-> None ]
              /\ late' = Forgotten([ late EXCEPT ![of[active.turn]] = "known" ])
              /\ record' = NoRecord
         ELSE late' = Forgotten(late) /\ UNCHANGED << told, cause, record >>

\* The connection is lost, or a handshake timed out and the process is left alone.
Disconnected ==
    /\ stage # "closed" /\ faults < MaxFaults
    /\ faults' = faults + 1
    /\ Close /\ HandleExit
    /\ holds' \in { holds, holds \/ asking = "loaded" }
    /\ UNCHANGED << vibe, alive, queue, run, own, done, fresh, last, turns, of >>

\* The process exits, or is ended: by a sleep, a release, or an open that found it silent too long.
Exits ==
    /\ alive /\ faults < MaxFaults
    /\ faults' = faults + 1
    /\ alive' = FALSE /\ holds' = FALSE /\ run' = None /\ queue' = <<>>
    /\ IF stage = "closed"
         THEN UNCHANGED << stage, asking, due, early, line, failed, silent, client, session, told, late, cause >>
         ELSE /\ Close
              /\ active' = NoTurn /\ bound' = None /\ finished' = {}
              /\ record' = NoRecord
              /\ told' = IF active # NoTurn THEN told \cup {active.turn} ELSE told
              /\ UNCHANGED << late, cause >>
    /\ UNCHANGED << vibe, own, done, fresh, last, turns, of >>

\* The backend dies, or lets go of the connection to leave the process to the next one (detach()).
Restart ==
    /\ faults < MaxFaults
    /\ faults' = faults + 1
    /\ Close
    /\ active' = NoTurn /\ bound' = None /\ finished' = {}
    /\ late' = Forgotten(late)
    /\ holds' \in { holds, holds \/ asking = "loaded" }
    /\ UNCHANGED << vibe, alive, queue, run, own, done, fresh, record, last, turns, of, told, cause >>

-----------------------------------------------------------------------------
Process == AnswersHandshake \/ Begins \/ OwnWake \/ PrintsContent \/ Ends \/ Refuses

Backend ==
    \/ Read \/ \E p \in Prompts : Settle(p)
    \/ SendBegins \/ SendFails \/ SendWrites \/ SendConfirmed \/ Interrupt \/ GraceExpires
    \/ Connect \/ Greeted \/ Away \/ Loaded \/ Listed \/ Reattached

Next == Process \/ Backend \/ Disconnected \/ Exits \/ Restart

Spec == Init /\ [][Next]_vars

-----------------------------------------------------------------------------
(* Properties.                                                             *)

AtRest ==
    /\ stage = "ready" /\ line = <<>> /\ due = NoFrame /\ answered = {}
    /\ sending = NotSending /\ run = None /\ queue = <<>>

\* The prompt whose end the turn waits for.
WaitedFor == IF active.prompt # None THEN active.prompt ELSE of[active.turn]

\* When the process has nothing more to do and all it printed was read, the conversation reads idle:
\* no turn waits for an end that was lost while nobody listened or was taken for another's.  Only
\* late content of a prompt whose end was told, an end that nobody could hear, and, for a turn that
\* is not this connection's, Grok's prompt whose failure was told by an error answer alone leave
\* one open.
TurnsEnd ==
    AtRest /\ active # NoTurn => active.stray \/ (~vibe /\ ~active.user /\ WaitedFor \in silent)

\* The end of a prompt that had a turn here ends no other turn.  When that turn was closed before (its
\* interrupt was not answered in time), the signal that comes late is known by the name of the
\* prompt, or by the request, and does not end the next turn.  Not known is a prompt that no content
\* had named when its turn was closed or its error was read.
EndIsOwn ==
    LET p == cause.by
    IN  p \notin own \cup {None} /\ late[p] # "unknown" /\ (\E t \in Turns : of[t] = p) => of[cause.turn] = p

\* A turn whose end was reported is over: no later connection or backend shows it as running again.
EndIsFinal == active.turn \notin told
=============================================================================
