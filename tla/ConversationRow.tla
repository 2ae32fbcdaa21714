-------------------------- MODULE ConversationRow --------------------------
(***************************************************************************)
(* One conversation of a structured provider as the Console keeps it:      *)
(* StructuredSessionService (the loaded session, its active turn, the      *)
(* exactly-once terminals, the questions held open for the person) and the *)
(* part of SessionManager that drives it (the row's command lock, loading, *)
(* adoption of a provider process that outlived the backend, connection    *)
(* loss, sleep, release, the working flag and its expiry timer).           *)
(*                                                                         *)
(* The provider process is external: it runs turns, asks questions, ends,  *)
(* and outlives the backend behind its session host.  What it says reaches *)
(* the service as a queue of events.  One command runs at a time under the *)
(* row's lock (SessionRuntimeRegistry.run); events, the end of a           *)
(* connection, the timer and restarts fall between any two of its steps.   *)
(*                                                                         *)
(* Not modelled: run failures, model profiles, turns the transport cannot  *)
(* name yet (turnUnidentified), and the input journal (MessageDelivery).   *)
(***************************************************************************)
EXTENDS Integers, Sequences, SequencesExt, FiniteSets

CONSTANTS
  Questions,     \* ids of requests; a new provider process starts over with them
  NoQuestion,
  MessageMode,   \* those asked in a message: the provider does not wait on them
  PerSession,    \* processModel = 'per-session'; FALSE is one shared process
  Kinds,         \* the commands the owner gives in this instance
  MaxCommands, MaxTurns, MaxPids, MaxBoots, MaxLosses,
  Waiting,       \* commands the owner leaves waiting at once
  BusyLimit,     \* lookups without an answer that make SURVIVOR_BUSY_LIMIT_MS
  Memory         \* TERMINAL_MEMORY

ASSUME RowAssumption ==
    /\ MessageMode \subseteq Questions /\ IsFiniteSet(Questions) /\ NoQuestion \notin Questions
    /\ PerSession \in BOOLEAN
    /\ Kinds \subseteq { "poll", "send", "wake", "stop", "answer", "sleep", "release" }
    /\ MaxCommands \in Nat /\ MaxTurns \in Nat \ {0} /\ MaxPids \in Nat \ {0} /\ MaxBoots \in Nat
    /\ MaxLosses \in Nat /\ Waiting \in Nat \ {0} /\ BusyLimit \in Nat \ {0} /\ Memory \in Nat \ {0}

VARIABLES
  \* the provider process
  pid, pids,     \* the one running now (0: none) and how many there have been
  run, turns,    \* the turn it runs (0: none) and how many there have been
  held,          \* questions it waits on
  asked,         \* questions this process has raised
  raisedBy,      \* per question: the turn that raised it
  \* the transport
  attached,      \* what the process says reaches chan
  chan,          \* events on their way to the service
  \* LoadedSession
  loaded, active, stopping, seen, open,
  spid,          \* pid the session was registered with
  \* the row and the meta table (durable)
  status, working, asleep,
  stored,        \* structured-requests
  announced,     \* structured-announced
  \* the manager
  lock, pc, call,
  timer, output, \* workingIdleTimer; lastOutputAt against lastCompletedAt
  news,          \* the run monitor holds a state RunRecovery has not read
  losing,        \* lose() has forgotten the session and not yet told the manager
  busy,
  \* bounds and history
  given, boots, losses,
  told,          \* per process and question: how often the person was told
  ends           \* per turn: terminals passed on since the session was registered

procVars == << pid, pids, run, turns, held, asked, raisedBy >>
linkVars == << attached, chan >>
sesVars  == << loaded, active, stopping, seen, open, spid >>
rowVars  == << status, working, asleep >>
reqVars  == << stored, announced >>
lockVars == << lock, pc, call >>
timeVars == << timer, output, news >>
lossVars == << losing, busy >>
capVars  == << given, boots, losses >>
histVars == << told, ends >>

vars == << procVars, linkVars, sesVars, rowVars, reqVars, lockVars, timeVars, lossVars, capVars, histVars >>

Turns == 1..MaxTurns

Event(kind, turn, q) == [kind |-> kind, turn |-> turn, q |-> q, usable |-> TRUE]
TurnEvent(kind, turn) == Event(kind, turn, NoQuestion)
Unusable(turn) == [TurnEvent("terminal", turn) EXCEPT !.usable = FALSE]

Command(kind) == [kind |-> kind, q |-> NoQuestion]
Running == Head(lock)

Says(events) == chan' = IF attached THEN chan \o events ELSE chan

------------------------------------------------------------------------------
(* The provider *)

ProviderStartsTurn ==
    /\ pid # 0 /\ run = 0 /\ turns < MaxTurns
    /\ turns' = turns + 1 /\ run' = turns + 1
    /\ Says(<< TurnEvent("started", turns + 1) >>)
    /\ UNCHANGED << pid, pids, held, asked, raisedBy, attached, sesVars, rowVars, reqVars, lockVars, timeVars,
                    lossVars, capVars, histVars >>

ProviderAsks(q) ==
    /\ run # 0 /\ q \notin asked
    /\ asked' = asked \cup {q}
    /\ held' = IF q \in MessageMode THEN held ELSE held \cup {q}
    /\ raisedBy' = [raisedBy EXCEPT ![q] = run]
    /\ Says(<< Event("opened", run, q) >>)
    /\ UNCHANGED << pid, pids, run, turns, attached, sesVars, rowVars, reqVars, lockVars, timeVars, lossVars,
                    capVars, histVars >>

ProviderWithdraws(q) ==
    /\ q \in held
    /\ held' = held \ {q}
    /\ Says(<< Event("closed", raisedBy[q], q) >>)
    /\ UNCHANGED << pid, pids, run, turns, asked, raisedBy, attached, sesVars, rowVars, reqVars, lockVars, timeVars,
                    lossVars, capVars, histVars >>

\* One item is enough to make output newer than the last completion.
ProviderItem ==
    /\ run # 0 /\ output # "fresh" /\ attached
    /\ ~\E i \in DOMAIN chan : chan[i].kind = "item"
    /\ Says(<< TurnEvent("item", run) >>)
    /\ UNCHANGED << procVars, attached, sesVars, rowVars, reqVars, lockVars, timeVars, lossVars, capVars, histVars >>

\* A transport may report the end of one turn twice (an answer and a notification).
ProviderEndsTurn ==
    /\ run # 0
    /\ run' = 0 /\ held' = {}
    /\ \E n \in 1..2 : Says([i \in 1..n |-> TurnEvent("terminal", run)])
    /\ UNCHANGED << pid, pids, turns, asked, raisedBy, attached, sesVars, rowVars, reqVars, lockVars, timeVars,
                    lossVars, capVars, histVars >>

\* What a transport says when its connection is gone.  One that owns its process closes its
\* questions and its turn; the shared one's questions stay held while the process runs on.
LastWords(processEnds) ==
    LET qs == SetToSeq(held)
        closed == [i \in DOMAIN qs |-> Event("closed", raisedBy[qs[i]], qs[i])]
    IN (IF PerSession \/ processEnds THEN closed ELSE << >>)
       \o (IF PerSession /\ run # 0 THEN << Unusable(run) >> ELSE << >>)
       \o << TurnEvent("error", 0) >>

ProcessDies ==
    /\ pid # 0 /\ losses < MaxLosses
    /\ losses' = losses + 1
    /\ pid' = 0 /\ run' = 0 /\ held' = {}
    /\ attached' = FALSE
    /\ Says(LastWords(TRUE))
    /\ UNCHANGED << pids, turns, asked, raisedBy, sesVars, rowVars, reqVars, lockVars, timeVars, lossVars, given,
                    boots, histVars >>

\* The socket to the session host is lost; the process runs on.
LinkLost ==
    /\ attached /\ losses < MaxLosses
    /\ losses' = losses + 1
    /\ attached' = FALSE
    /\ Says(LastWords(FALSE))
    /\ UNCHANGED << procVars, sesVars, rowVars, reqVars, lockVars, timeVars, lossVars, given, boots, histVars >>

------------------------------------------------------------------------------
(* The row's lock, its working flag and its stored questions *)

Live == status \notin { "releasing", "ended" }

\* run() appends to the tail; RunRecovery.changed() need not wait twice in a row.
Enqueue(cmds) ==
    lock' = IF cmds = << Command("refresh") >> /\ Len(lock) > 1 /\ Last(lock) = Command("refresh")
              THEN lock ELSE lock \o cmds

\* syncSessionWorkingState(): the service's turn decides; what was heard since the last
\* completion keeps the expiry armed.
Sync(turnRuns, out) ==
    /\ working' = turnRuns
    /\ timer' = (IF turnRuns THEN out # "none" ELSE out = "fresh")

\* The announced ids count for one process only.
Announced == IF announced.pid = spid THEN announced.ids ELSE {}
Announce(ids) == announced' = IF ids = {} THEN [pid |-> 0, ids |-> {}] ELSE [pid |-> spid, ids |-> ids]

\* closeRequest() for a set of questions; the row's list follows the session's.
CloseRequests(gone) ==
    /\ open' = open \ gone
    /\ IF open \cap gone = {}
         THEN UNCHANGED reqVars
         ELSE stored' = open \ gone
              /\ IF gone \cap Announced = {} THEN UNCHANGED announced ELSE Announce(Announced \ gone)

\* dropRequests(): a question asked in a message outlives its turn.
DropRequests(belongs) == CloseRequests(belongs \ MessageMode)

\* forget(): the session leaves the table, and its questions with it.
Forget ==
    /\ loaded' = FALSE /\ active' = 0 /\ stopping' = 0 /\ open' = {}
    /\ stored' = IF loaded /\ open # {} THEN {} ELSE stored
    /\ UNCHANGED << seen, spid >>

Finish == lock' = Tail(lock) /\ pc' = "idle" /\ call' = 0

------------------------------------------------------------------------------
(* Events, as consume() hands them to handle() one by one *)

Next1 == Head(chan)
Arrives(kind) == loaded /\ chan # << >> /\ Next1.kind = kind /\ chan' = Tail(chan)

HandleStarted ==
    /\ Arrives("started")
    /\ active' = Next1.turn
    /\ seen' = RemoveFirst(seen, Next1.turn)
    /\ ends' = [ends EXCEPT ![Next1.turn] = 0]
    /\ DropRequests({ q \in open : raisedBy[q] # Next1.turn })
    /\ IF Live THEN /\ Sync(TRUE, output) /\ news' = TRUE
                    /\ Enqueue(<< Command("refresh") >>)
               ELSE UNCHANGED << working, timer, news, lock >>
    /\ UNCHANGED << procVars, attached, loaded, stopping, spid, status, asleep, pc, call, output, lossVars, capVars,
                    told >>

HandleItem ==
    /\ Arrives("item")
    /\ IF Live THEN output' = "fresh" /\ working' = (active # 0) /\ timer' = TRUE
               ELSE UNCHANGED << output, working, timer >>
    /\ UNCHANGED << procVars, attached, sesVars, status, asleep, reqVars, lockVars, news, lossVars, capVars, histVars >>

\* Mutant of HandleOpened: the person is told of every question the provider announces.
HandleOpenedAnnouncingAgain ==
    /\ Arrives("opened")
    /\ IF Next1.q \in open
         THEN UNCHANGED << open, reqVars, told >>
         ELSE /\ open' = open \cup { Next1.q } /\ stored' = open'
              /\ told' = [told EXCEPT ![spid][Next1.q] = @ + 1]
              /\ Announce(Announced \cup { Next1.q })
    /\ UNCHANGED << procVars, attached, loaded, active, stopping, seen, spid, rowVars, lockVars, timeVars, lossVars,
                    capVars, ends >>

\* openQuestion(): an id already announced for this process is shown without telling again.
HandleOpened ==
    /\ Arrives("opened")
    /\ IF Next1.q \in open
         THEN UNCHANGED << open, reqVars, told >>
         ELSE /\ open' = open \cup { Next1.q } /\ stored' = open'
              /\ IF Next1.q \in Announced
                   THEN UNCHANGED << announced, told >>
                   ELSE /\ Announce(Announced \cup { Next1.q })
                        /\ told' = [told EXCEPT ![spid][Next1.q] = @ + 1]
    /\ UNCHANGED << procVars, attached, loaded, active, stopping, seen, spid, rowVars, lockVars, timeVars, lossVars,
                    capVars, ends >>

HandleClosed ==
    /\ Arrives("closed")
    /\ CloseRequests({ Next1.q })
    /\ UNCHANGED << procVars, attached, loaded, active, stopping, seen, spid, rowVars, lockVars, timeVars, lossVars,
                    capVars, histVars >>

Remember(t) == LET s == Append(seen, t) IN IF Len(s) > Memory THEN Tail(s) ELSE s

\* handleTerminal(): once per turn, while the session can take more of them.
HandleTerminal ==
    /\ Arrives("terminal") /\ (Next1.usable \/ Next1.turn \in Range(seen))
    /\ IF Next1.turn \in Range(seen)
         THEN UNCHANGED << seen, active, stopping, open, reqVars, ends, working, timer, news, lock >>
         ELSE /\ seen' = Remember(Next1.turn)
              /\ active' = IF active = Next1.turn THEN 0 ELSE active
              /\ stopping' = IF stopping = Next1.turn THEN 0 ELSE stopping
              /\ ends' = [ends EXCEPT ![Next1.turn] = @ + 1]
              /\ DropRequests({ q \in open : raisedBy[q] = Next1.turn })
              /\ IF Live THEN /\ Sync(active' # 0, output) /\ news' = TRUE
                              /\ Enqueue(<< Command("refresh") >>)
                         ELSE UNCHANGED << working, timer, news, lock >>
    /\ UNCHANGED << procVars, attached, loaded, spid, status, asleep, pc, call, output, lossVars, capVars, told >>

\* Mutant of Lose: the row keeps the questions of the connection it lost.
LoseKeepingQuestions ==
    /\ loaded' = FALSE /\ active' = 0 /\ stopping' = 0 /\ open' = {}
    /\ UNCHANGED << seen, spid, stored >>
    /\ chan' = << >> /\ losing' = TRUE

\* lose(): the session is forgotten at once, the manager told after dropInstanceIfDisconnected().
Lose ==
    /\ Forget
    /\ chan' = << >> /\ losing' = TRUE

\* A terminal after which the session takes no more turns ends it.
HandleLastTerminal ==
    /\ loaded /\ chan # << >> /\ Next1.kind = "terminal" /\ ~Next1.usable /\ Next1.turn \notin Range(seen)
    /\ Lose
    /\ ends' = [ends EXCEPT ![Next1.turn] = @ + 1]
    /\ IF Live THEN /\ Sync(FALSE, output) /\ news' = TRUE
                    /\ Enqueue(<< Command("refresh") >>)
               ELSE UNCHANGED << working, timer, news, lock >>
    /\ LET gone == { q \in open \ MessageMode : raisedBy[q] = Next1.turn }
       IN IF gone \cap Announced = {} THEN UNCHANGED announced ELSE Announce(Announced \ gone)
    /\ UNCHANGED << procVars, attached, status, asleep, pc, call, output, busy, capVars, told >>

HandleError ==
    /\ loaded /\ chan # << >> /\ Next1.kind = "error"
    /\ Lose
    /\ UNCHANGED << procVars, attached, rowVars, announced, lockVars, timeVars, busy, capVars, histVars >>

\* handleStructuredSessionState(): the loss waits for the row's lock like any command.
ReportLoss ==
    /\ losing
    /\ losing' = FALSE
    /\ Enqueue(<< Command("lost") >>)
    /\ UNCHANGED << procVars, linkVars, sesVars, rowVars, reqVars, pc, call, timeVars, busy, capVars, histVars >>

------------------------------------------------------------------------------
(* Commands *)

\* A person, the owner or a scheduler asks for something; at most Waiting wait for the lock.
Ask(kind, q) ==
    /\ kind \in Kinds /\ given < MaxCommands /\ (Live \/ kind = "release")
    /\ Cardinality({ i \in DOMAIN lock : lock[i].kind \notin { "refresh", "lost" } }) < Waiting
    /\ (kind = "answer") = (q # NoQuestion)
    /\ (kind = "answer" => q \in stored)
    /\ given' = given + 1
    /\ lock' = Append(lock, [kind |-> kind, q |-> q])
    /\ UNCHANGED << procVars, linkVars, sesVars, rowVars, reqVars, pc, call, timeVars, lossVars, boots, losses, histVars >>

AtFront(kinds) == lock # << >> /\ pc = "idle" /\ Running.kind \in kinds

\* handleStructuredConnectionLoss(): it asks only whether the row reads working.
ConnectionLost ==
    /\ working' = FALSE /\ timer' = FALSE /\ news' = FALSE

\* isSurvivorCandidate(), for the shared process only while the row reads working.
Candidate == status = "bound" /\ ~asleep /\ (PerSession \/ working)

\* A turn that is lost settles first.  Reconciliation restores only what was cut off or failed.
SettleAndRestore ==
    /\ IF working THEN ConnectionLost ELSE UNCHANGED << working, timer, news >>
    /\ IF Running.kind = "reconcile" /\ status = "bound"
         THEN Finish /\ UNCHANGED status
         ELSE pc' = "resuming" /\ status' = (IF status = "error" THEN "error" ELSE "starting")
              /\ UNCHANGED << lock, call >>

\* refreshStructuredSessionState() of a row that is not loaded: look for a survivor under a
\* working row first; anything else settles a lost turn and restores.
BeginLoad ==
    /\ AtFront({ "poll", "reconcile", "send", "wake" }) /\ ~loaded /\ Live
    /\ Running.kind \in { "poll", "reconcile" } => ~asleep
    /\ Running.kind = "poll" => status # "error"
    /\ IF working /\ Candidate
         THEN pc' = "adopting" /\ UNCHANGED << status, working, timer, news, lock, call >>
         ELSE SettleAndRestore
    /\ UNCHANGED << procVars, linkVars, sesVars, asleep, reqVars, output, lossVars, capVars, told, ends >>

\* A poll of a loaded row, and every command of a row that is over or asleep for it.
NothingToLoad ==
    /\ \/ AtFront({ "poll", "send", "wake" }) /\ ~Live
       \/ AtFront({ "poll", "reconcile" }) /\ (loaded \/ asleep \/ ~Live)
       \/ AtFront({ "poll" }) /\ status = "error"
       \/ AtFront({ "adopt" }) /\ (loaded \/ ~Candidate)
    /\ Finish
    /\ UNCHANGED << procVars, linkVars, sesVars, rowVars, reqVars, timeVars, lossVars, capVars, histVars >>

BeginAdopt ==
    /\ AtFront({ "adopt" }) /\ ~loaded /\ Candidate
    /\ pc' = "adopting"
    /\ UNCHANGED << procVars, linkVars, sesVars, rowVars, reqVars, lock, call, timeVars, lossVars, capVars, histVars >>

\* The questions a process still waits on, read back by the session that attaches to it.
Reopened == LET qs == SetToSeq(held) IN [i \in DOMAIN qs |-> Event("opened", raisedBy[qs[i]], qs[i])]

\* register(): a fresh LoadedSession; questions of an earlier connection died with it.
Register(process, turn, events) ==
    /\ loaded' = TRUE /\ active' = turn /\ stopping' = 0 /\ seen' = << >> /\ open' = {} /\ spid' = process
    /\ stored' = {}
    /\ attached' = TRUE /\ chan' = events
    /\ ends' = [t \in Turns |-> 0]

\* After a lookup that adopted nothing, if it was a command's.
NothingAdopted ==
    IF Running.kind = "adopt"
      THEN Finish /\ UNCHANGED << status, working, timer, news >>
      ELSE SettleAndRestore

\* adoptStructuredSurvivor(): the process answers, and its turn becomes the row's.
Adopted ==
    /\ pc = "adopting" /\ pid # 0
    /\ Register(pid, run, Reopened)
    /\ busy' = 0
    /\ pc' = "adopted"
    /\ IF run # 0 THEN /\ Sync(TRUE, output) /\ news' = TRUE /\ Enqueue(<< Command("refresh") >>)
                  ELSE UNCHANGED << working, timer, news, lock >>
    /\ UNCHANGED << procVars, status, asleep, announced, call, output, losing, capVars, told >>

\* A working row whose process has no turn: its end is left to the expiry timer, or, where one
\* process serves every thread, taken as lost.
AdoptionSettles ==
    /\ pc = "adopted"
    /\ \/ (~working \/ active # 0) /\ UNCHANGED << working, timer, news >>
       \/ working /\ active = 0 /\ PerSession /\ timer' = TRUE /\ UNCHANGED << working, news >>
       \/ working /\ active = 0 /\ ~PerSession /\ ConnectionLost
    /\ IF Running.kind \in { "adopt", "poll", "reconcile" } THEN Finish ELSE pc' = "ready" /\ UNCHANGED << lock, call >>
    /\ UNCHANGED << procVars, linkVars, sesVars, status, asleep, reqVars, output, lossVars, capVars, told, ends >>

\* No process, or one that refused: reattachSurvivors() resolves without it.
NoSurvivor ==
    /\ pc = "adopting"
    /\ busy' = 0
    /\ NothingAdopted
    /\ UNCHANGED << procVars, linkVars, sesVars, asleep, reqVars, output, losing, capVars, told, ends >>

\* Mutant of SurvivorBusy: patience has no end.
SurvivorBusyForEver ==
    /\ pc = "adopting" /\ pid # 0
    /\ UNCHANGED busy /\ Finish
    /\ UNCHANGED << procVars, linkVars, sesVars, rowVars, reqVars, timeVars, losing, capVars, histVars >>

\* A process that runs but does not answer is left alone until the limit.
SurvivorBusy ==
    /\ pc = "adopting" /\ pid # 0
    /\ busy' = IF busy < BusyLimit THEN busy + 1 ELSE IF Running.kind = "adopt" THEN busy ELSE 0
    /\ IF busy < BusyLimit THEN Finish /\ UNCHANGED << status, working, timer, news >> ELSE NothingAdopted
    /\ UNCHANGED << procVars, linkVars, sesVars, asleep, reqVars, output, losing, capVars, told, ends >>

\* restoreStructuredSession(): the plugin connects to the running process or starts one.
Resumed ==
    /\ pc = "resuming"
    /\ IF pid # 0
         THEN /\ UNCHANGED procVars
              /\ Register(pid, 0, (IF run = 0 THEN << >> ELSE << TurnEvent("started", run) >>) \o Reopened)
         ELSE /\ pids < MaxPids
              /\ pid' = pids + 1 /\ pids' = pids + 1 /\ run' = 0 /\ held' = {} /\ asked' = {}
              /\ raisedBy' = [q \in Questions |-> 0] /\ UNCHANGED turns
              /\ Register(pids + 1, 0, << >>)
    /\ status' = "bound" /\ asleep' = FALSE
    /\ IF Running.kind \in { "poll", "reconcile" } THEN Finish ELSE pc' = "ready" /\ UNCHANGED << lock, call >>
    /\ UNCHANGED << working, announced, timeVars, lossVars, capVars, told >>

ResumeFails ==
    /\ pc = "resuming"
    /\ status' = "error" /\ working' = FALSE
    /\ Finish
    /\ UNCHANGED << procVars, linkVars, sesVars, asleep, reqVars, timeVars, lossVars, capVars, histVars >>

------------------------------------------------------------------------------
(* Input *)

\* submitHuman() and deliverAutomatic() once the conversation is loaded.
Ready(kinds) == \/ AtFront(kinds) /\ loaded
                \/ pc = "ready" /\ Running.kind \in kinds

AnswersByMessage == AtFront({ "answer" }) /\ loaded /\ Running.q \in open \cap MessageMode

\* sendTurn() is refused before anything is written: a turn runs, or nothing is connected.
SendTurn ==
    IF attached /\ run = 0 /\ turns < MaxTurns
      THEN /\ turns' = turns + 1 /\ run' = turns + 1
           /\ Says(<< TurnEvent("started", turns + 1) >>)
           /\ pc' = "sending" /\ call' = turns + 1 /\ UNCHANGED lock
      ELSE Finish /\ UNCHANGED << turns, run, chan >>

\* Human text: a new turn when idle, a steer while a turn runs.
SubmitHuman ==
    /\ Ready({ "send" }) \/ AnswersByMessage
    /\ \/ ~loaded /\ Finish /\ UNCHANGED << turns, run, chan >>
       \/ loaded /\ active = 0 /\ SendTurn
       \/ loaded /\ active # 0 /\ pc' = "steering" /\ call' = active /\ UNCHANGED << lock, turns, run, chan >>
    /\ UNCHANGED << pid, pids, held, asked, raisedBy, attached, sesVars, rowVars, reqVars, timeVars, lossVars, capVars,
                    histVars >>

\* An automatic prompt never joins a turn, and waits while the person is asked something.
DeliverAutomatic ==
    /\ Ready({ "wake" })
    /\ IF loaded /\ active = 0 /\ open = {} THEN SendTurn ELSE Finish /\ UNCHANGED << turns, run, chan >>
    /\ UNCHANGED << pid, pids, held, asked, raisedBy, attached, sesVars, rowVars, reqVars, timeVars, lossVars, capVars,
                    histVars >>

\* What an answer that went out as a message does to its question.
Answered == IF Running.kind = "answer" THEN CloseRequests({ Running.q }) ELSE UNCHANGED << open, reqVars >>

SteerTaken ==
    /\ pc = "steering" /\ attached /\ run = call
    /\ Answered /\ Finish
    /\ UNCHANGED << procVars, linkVars, loaded, active, stopping, seen, spid, rowVars, timeVars, lossVars, capVars, histVars >>

\* TurnNotActiveError becomes a new turn; any other failure leaves it unknown and ends the attempt.
SteerRefused ==
    /\ pc = "steering" /\ (~attached \/ run # call)
    /\ SendTurn
    /\ UNCHANGED << pid, pids, held, asked, raisedBy, attached, sesVars, rowVars, reqVars, timeVars, lossVars, capVars,
                    histVars >>

\* Mutant of TurnToOwn: the turn that was just sent is always the active one.
TurnToOwnAlways == IF loaded THEN call ELSE active

\* startTurn(): never resurrect a turn whose end was already handled.
TurnToOwn == IF loaded /\ call \notin Range(seen) THEN call ELSE active

SendResolves ==
    /\ pc = "sending"
    /\ active' = TurnToOwn
    /\ working' = (working \/ (Running.kind = "wake" /\ Live))
    /\ Answered /\ Finish
    /\ UNCHANGED << procVars, linkVars, loaded, stopping, seen, spid, status, asleep, timeVars, lossVars, capVars, histVars >>

SendFails ==
    /\ pc = "sending" /\ ~attached
    /\ Finish
    /\ UNCHANGED << procVars, linkVars, sesVars, rowVars, reqVars, timeVars, lossVars, capVars, histVars >>

\* Stop reached nobody: settleUnreachableStop().
StopUnreachable ==
    /\ AtFront({ "stop" }) /\ ~loaded
    /\ IF Live /\ working THEN working' = FALSE /\ timer' = FALSE /\ news' = FALSE /\ busy' = 0
                          ELSE UNCHANGED << working, timer, news, busy >>
    /\ Finish
    /\ UNCHANGED << procVars, linkVars, sesVars, status, asleep, reqVars, output, losing, capVars, histVars >>

\* interrupt(): also a turn the transport knows of before its start was handled.
Interrupt ==
    /\ AtFront({ "stop" }) /\ loaded
    /\ LET turn == IF active # 0 THEN active ELSE IF attached THEN run ELSE 0
       IN IF turn = 0 THEN Finish /\ UNCHANGED stopping
                      ELSE pc' = "stopping" /\ call' = turn /\ stopping' = turn /\ UNCHANGED lock
    /\ UNCHANGED << procVars, linkVars, loaded, active, seen, open, spid, rowVars, reqVars, timeVars, lossVars, capVars,
                    histVars >>

InterruptAccepted ==
    /\ pc = "stopping" /\ attached /\ run = call
    /\ run' = 0 /\ held' = {}
    /\ Says(<< TurnEvent("terminal", call) >>)
    /\ Finish
    /\ UNCHANGED << pid, pids, turns, asked, raisedBy, attached, sesVars, rowVars, reqVars, timeVars, lossVars, capVars,
                    histVars >>

InterruptFails ==
    /\ pc = "stopping" /\ (~attached \/ run # call)
    /\ stopping' = IF stopping = call THEN 0 ELSE stopping
    /\ Finish
    /\ UNCHANGED << procVars, linkVars, loaded, active, seen, open, spid, rowVars, reqVars, timeVars, lossVars, capVars,
                    histVars >>

\* respond(): a question that is not open any more is a 404.
RespondToNothing ==
    /\ AtFront({ "answer" }) /\ (~loaded \/ Running.q \notin open)
    /\ Finish
    /\ UNCHANGED << procVars, linkVars, sesVars, rowVars, reqVars, timeVars, lossVars, capVars, histVars >>

Respond ==
    /\ AtFront({ "answer" }) /\ loaded /\ Running.q \in open \ MessageMode
    /\ pc' = "answering"
    /\ UNCHANGED << procVars, linkVars, sesVars, rowVars, reqVars, lock, call, timeVars, lossVars, capVars, histVars >>

\* The transport took the answer, or says the question is not open: it leaves the card.
RespondSettles ==
    /\ pc = "answering" /\ attached
    /\ held' = held \ { Running.q }
    /\ CloseRequests({ Running.q })
    /\ Finish
    /\ UNCHANGED << pid, pids, run, turns, asked, raisedBy, linkVars, loaded, active, stopping, seen, spid, rowVars,
                    timeVars, lossVars, capVars, histVars >>

RespondFails ==
    /\ pc = "answering" /\ ~attached
    /\ Finish
    /\ UNCHANGED << procVars, linkVars, sesVars, rowVars, reqVars, timeVars, lossVars, capVars, histVars >>

------------------------------------------------------------------------------
(* Sleep and release *)

\* unload() or release() took the conversation off its process; a per-session process ends with
\* it, also when this backend had not adopted it (endConversation()).  A shared one drops the thread.
LeaveProcess ==
    /\ pid' = IF PerSession THEN 0 ELSE pid
    /\ run' = IF PerSession \/ loaded THEN 0 ELSE run
    /\ held' = IF PerSession \/ loaded THEN {} ELSE held
    /\ attached' = FALSE /\ chan' = << >>

\* suspensionBlockReason(): decided again at the front of the queue.
MaySleep == status = "bound" /\ ~working /\ ~asleep /\ active = 0

\* Mutant of Sleep: a conversation that is not loaded here has no process to end.
SleepOnlyLoaded ==
    /\ AtFront({ "sleep" }) /\ MaySleep
    /\ Forget
    /\ announced' = IF loaded THEN [pid |-> 0, ids |-> {}] ELSE announced
    /\ IF loaded THEN LeaveProcess ELSE UNCHANGED << pid, run, held, attached, chan >>
    /\ pc' = "unloaded"
    /\ UNCHANGED << pids, turns, asked, raisedBy, rowVars, lock, call, timeVars, lossVars, capVars, histVars >>

Sleep ==
    /\ AtFront({ "sleep" }) /\ MaySleep
    /\ Forget
    /\ announced' = IF loaded THEN [pid |-> 0, ids |-> {}] ELSE announced
    /\ LeaveProcess
    /\ pc' = "unloaded"
    /\ UNCHANGED << pids, turns, asked, raisedBy, rowVars, lock, call, timeVars, lossVars, capVars, histVars >>

FallAsleep ==
    /\ pc = "unloaded"
    /\ asleep' = TRUE /\ timer' = FALSE
    /\ Finish
    /\ UNCHANGED << procVars, linkVars, sesVars, status, working, reqVars, output, news, lossVars, capVars, histVars >>

StayAwake ==
    /\ AtFront({ "sleep" }) /\ ~MaySleep
    /\ Finish
    /\ UNCHANGED << procVars, linkVars, sesVars, rowVars, reqVars, timeVars, lossVars, capVars, histVars >>

\* releaseSessionInternal(): the row stops being restorable before the process is ended.
BeginRelease ==
    /\ AtFront({ "release" }) /\ status # "ended"
    /\ status' = "releasing" /\ working' = FALSE
    /\ pc' = "releasing" /\ call' = IF working THEN 1 ELSE 0
    /\ UNCHANGED << procVars, linkVars, sesVars, asleep, reqVars, lock, timeVars, lossVars, capVars, histVars >>

AlreadyReleased ==
    /\ AtFront({ "release" }) /\ status = "ended"
    /\ Finish
    /\ UNCHANGED << procVars, linkVars, sesVars, rowVars, reqVars, timeVars, lossVars, capVars, histVars >>

Released ==
    /\ pc = "releasing"
    /\ Forget /\ announced' = [pid |-> 0, ids |-> {}]
    /\ LeaveProcess
    /\ status' = "ended" /\ asleep' = FALSE /\ timer' = FALSE /\ news' = FALSE /\ busy' = 0
    /\ Finish
    /\ UNCHANGED << pids, turns, asked, raisedBy, working, output, losing, capVars, histVars >>

\* close('release') could not confirm the exit: the row is kept as it was.
ReleaseFails ==
    /\ pc = "releasing" /\ PerSession /\ loaded
    /\ Forget /\ announced' = [pid |-> 0, ids |-> {}]
    /\ attached' = FALSE /\ chan' = << >>
    /\ status' = "bound" /\ working' = (call = 1)
    /\ Finish
    /\ UNCHANGED << procVars, asleep, timeVars, lossVars, capVars, histVars >>

------------------------------------------------------------------------------
(* What runs on its own: losses, refreshes, the expiry timer, reconciliation, the backend *)

SettleLoss ==
    /\ AtFront({ "lost" })
    /\ IF Live THEN ConnectionLost ELSE UNCHANGED << working, timer, news >>
    /\ Finish
    /\ UNCHANGED << procVars, linkVars, sesVars, status, asleep, reqVars, output, lossVars, capVars, told, ends >>

\* Mutant of Refresh: the run is read and the working flag left alone.
RefreshWithoutSync ==
    /\ AtFront({ "refresh" })
    /\ news' = FALSE /\ Finish
    /\ UNCHANGED << procVars, linkVars, sesVars, rowVars, reqVars, timer, output, lossVars, capVars, histVars >>

\* RunRecovery.refresh(): a run state it had not seen brings the working flag up to date.
Refresh ==
    /\ AtFront({ "refresh" })
    /\ news' = FALSE
    /\ IF news /\ status = "bound" THEN Sync(loaded /\ active # 0, output) ELSE UNCHANGED << working, timer >>
    /\ Finish
    /\ UNCHANGED << procVars, linkVars, sesVars, status, asleep, reqVars, output, lossVars, capVars, histVars >>

\* handleWorkingIdleExpiry(), not under the lock; the output was quiet for the idle window.
TimerFires ==
    /\ timer /\ timer' = FALSE
    /\ IF (loaded /\ active # 0) \/ (~working /\ output # "fresh")
         THEN UNCHANGED << working, output >>
         ELSE /\ working' = FALSE
              /\ output' = IF output = "fresh" THEN "done" ELSE output
    /\ UNCHANGED << procVars, linkVars, sesVars, status, asleep, reqVars, lockVars, news, lossVars, capVars, histVars >>

\* reconcileSessions() comes round on an interval; only a row that is not loaded gives it work.
Reconcile ==
    /\ lock = << >> /\ Live /\ ~asleep /\ ~loaded
    /\ working \/ status \in { "error", "starting" }
    /\ lock' = << Command("reconcile") >>
    /\ UNCHANGED << procVars, linkVars, sesVars, rowVars, reqVars, pc, call, timeVars, lossVars, capVars, histVars >>

\* The backend ends and starts again: memory is gone, the stored questions are deleted, hosts
\* that no row owns are ended, and the first reconcile pass looks for the row's process.
Restart ==
    /\ boots < MaxBoots /\ boots' = boots + 1
    /\ loaded' = FALSE /\ active' = 0 /\ stopping' = 0 /\ seen' = << >> /\ open' = {} /\ spid' = 0
    /\ stored' = {} /\ UNCHANGED announced
    /\ attached' = FALSE /\ chan' = << >>
    /\ lock' = IF Live THEN << Command("adopt") >> ELSE << >>
    /\ pc' = "idle" /\ call' = 0
    /\ timer' = FALSE /\ news' = FALSE /\ losing' = FALSE /\ busy' = 0
    /\ ends' = [t \in Turns |-> 0]
    /\ IF PerSession /\ ~Live THEN pid' = 0 /\ run' = 0 /\ held' = {} ELSE UNCHANGED << pid, run, held >>
    /\ UNCHANGED << pids, turns, asked, raisedBy, rowVars, output, given, losses, told >>

------------------------------------------------------------------------------
Init ==
    /\ pid = 0 /\ pids = 0 /\ run = 0 /\ turns = 0 /\ held = {} /\ asked = {}
    /\ raisedBy = [q \in Questions |-> 0]
    /\ attached = FALSE /\ chan = << >>
    /\ loaded = FALSE /\ active = 0 /\ stopping = 0 /\ seen = << >> /\ open = {} /\ spid = 0
    /\ status = "bound" /\ working = FALSE /\ asleep = FALSE
    /\ stored = {} /\ announced = [pid |-> 0, ids |-> {}]
    /\ lock = << >> /\ pc = "idle" /\ call = 0
    /\ timer = FALSE /\ output = "none" /\ news = FALSE
    /\ losing = FALSE /\ busy = 0
    /\ given = 0 /\ boots = 0 /\ losses = 0
    /\ told = [p \in 1..MaxPids |-> [q \in Questions |-> 0]]
    /\ ends = [t \in Turns |-> 0]

Provider ==
    \/ ProviderStartsTurn \/ ProviderItem \/ ProviderEndsTurn \/ ProcessDies \/ LinkLost
    \/ \E q \in Questions : ProviderAsks(q) \/ ProviderWithdraws(q)

HandleEvent ==
    \/ HandleStarted \/ HandleItem \/ HandleOpened \/ HandleClosed \/ HandleTerminal
    \/ HandleLastTerminal \/ HandleError

RunCommand ==
    \/ BeginLoad \/ NothingToLoad \/ BeginAdopt \/ Adopted \/ AdoptionSettles \/ NoSurvivor \/ SurvivorBusy
    \/ Resumed \/ ResumeFails
    \/ SubmitHuman \/ DeliverAutomatic \/ SteerTaken \/ SteerRefused \/ SendResolves \/ SendFails
    \/ StopUnreachable \/ Interrupt \/ InterruptAccepted \/ InterruptFails
    \/ RespondToNothing \/ Respond \/ RespondSettles \/ RespondFails
    \/ Sleep \/ FallAsleep \/ StayAwake \/ BeginRelease \/ AlreadyReleased \/ Released \/ ReleaseFails
    \/ SettleLoss \/ Refresh

Next ==
    \/ Provider \/ HandleEvent \/ RunCommand
    \/ ReportLoss \/ TimerFires \/ Reconcile \/ Restart
    \/ \E kind \in Kinds, q \in Questions \cup { NoQuestion } : Ask(kind, q)

Spec == Init /\ [][Next]_vars

\* The event loop reads what it is sent, a command that runs goes on, timers fire and the
\* reconcile interval comes round.  Nothing is assumed of the provider or the person.
Fairness ==
    /\ WF_vars(HandleEvent) /\ WF_vars(RunCommand) /\ WF_vars(ReportLoss)
    /\ WF_vars(TimerFires) /\ WF_vars(Reconcile)

FairSpec == Spec /\ Fairness

------------------------------------------------------------------------------
(* Properties *)

Commands == [kind : Kinds \cup { "adopt", "reconcile", "lost", "refresh" }, q : Questions \cup { NoQuestion }]
Events == [kind : { "started", "item", "opened", "closed", "terminal", "error" }, turn : 0..MaxTurns,
           q : Questions \cup { NoQuestion }, usable : BOOLEAN]

\* Every variable stays in its type.
TypeOK ==
    /\ pid \in 0..MaxPids /\ pids \in 0..MaxPids /\ run \in 0..MaxTurns /\ turns \in 0..MaxTurns
    /\ held \subseteq asked /\ asked \subseteq Questions /\ raisedBy \in [Questions -> 0..MaxTurns]
    /\ attached \in BOOLEAN /\ chan \in Seq(Events)
    /\ loaded \in BOOLEAN /\ active \in 0..MaxTurns /\ stopping \in 0..MaxTurns /\ spid \in 0..MaxPids
    /\ seen \in Seq(Turns) /\ Len(seen) <= Memory /\ open \subseteq Questions
    /\ status \in { "bound", "starting", "error", "releasing", "ended" }
    /\ working \in BOOLEAN /\ asleep \in BOOLEAN
    /\ stored \subseteq Questions /\ announced \in [pid : 0..MaxPids, ids : SUBSET Questions]
    /\ lock \in Seq(Commands) /\ call \in 0..MaxTurns
    /\ pc \in { "idle", "adopting", "adopted", "resuming", "ready", "sending", "steering", "stopping", "answering",
                "unloaded", "releasing" }
    /\ timer \in BOOLEAN /\ output \in { "none", "fresh", "done" } /\ news \in BOOLEAN
    /\ losing \in BOOLEAN /\ busy \in 0..BusyLimit
    /\ given \in 0..MaxCommands /\ boots \in 0..MaxBoots /\ losses \in 0..MaxLosses
    /\ told \in [1..MaxPids -> [Questions -> Nat]] /\ ends \in [Turns -> Nat]

Settled == loaded /\ attached /\ chan = << >> /\ pc = "idle"

\* Once what the provider said has been read, the row lists exactly the questions the provider
\* waits on (and those asked in a message): none is lost in a restart, a reconnection or an
\* adoption, none stays behind its turn, its process or its connection.
QuestionsShownAreHeld ==
    /\ Settled => stored \ MessageMode = held
    /\ ~loaded => stored = {}

\* Once what the provider said has been read, the session's active turn is the one the provider
\* runs: a send that resolves after its turn ended never brings that turn back (startTurn()).
ActiveTurnIsReal == Settled => active = run

\* The person is told of a question of the shared process at most once, also when a later
\* connection finds it still open (openQuestion(), announcedIds()).  The end of a connection to
\* a process of its own closes its questions and forgets their ids, so that the next connection
\* tells again of those still held.  And the end of a turn is passed on at most once per
\* connection, however often the transport reports it and whatever connection loss closes it a
\* second time (handleTerminal()).
ToldOnce ==
    /\ ~PerSession => \A p \in 1..MaxPids, q \in Questions : told[p][q] <= 1
    /\ \A t \in Turns : ends[t] <= 1

\* With nothing queued, nothing unread and no timer armed, a loaded row reads working only while
\* its provider runs a turn: nothing else would clear the flag any more.
NotStuckWorking ==
    Settled /\ lock = << >> /\ ~timer /\ ~losing /\ working => run # 0

\* No process of a per-session provider is left behind a conversation that sleeps or is over:
\* nothing in the Console would ever end it.
NoProcessLeft ==
    PerSession /\ (asleep \/ status = "ended" \/ (status = "releasing" /\ pc = "idle")) => pid = 0

\* A row that reads working while the provider runs nothing stops doing so, or the provider
\* starts a turn: a lost connection, a restart or a host that never answers leaves no row busy.
WorkingSettles == (working /\ run = 0) ~> (~working \/ run # 0)
=============================================================================
