# Formal model of the Agent Console

The Agent Console (UberCoder) keeps conversations of coding agents (Codex, Claude, Grok,
Vibe) open in a browser.  Its server owns the provider processes, the rows that describe
the sessions, the messages of the person, and the work that goes on unattended.  This
directory models the parts of the server whose correctness depends on the order of events:
processes that outlive the server, connections that are lost, answers that come late, a
person who presses Stop while a message is on its way.

All source paths below are relative to `src/apps/server/src` unless they begin with `docs/`.

* [The system](#the-system)
* [Modules and the code they model](#modules-and-the-code-they-model)
* [What is model-checked](#what-is-model-checked)
* [What is proved](#what-is-proved)
* [Seen while modelling](#seen-while-modelling)
* [What is left out](#what-is-left-out)
* [What remains](#what-remains)

## The system

### Components

| Component | State it keeps | Operations | Correct when |
|---|---|---|---|
| Session host (`providers/transport/session-host.ts`) | the provider child and its end, numbered output, replay buffer, the current client, termination phase, record file | spawn, print, attach (hello), write, status, terminate, exit, stop, abort | output reaches each client without a silent hole, a replaced client writes nothing more, no provider is left behind without its host |
| Line transport and host factory (`line-transport.ts`) | one connection's state and replay cursor; a promise chain per host id; host records on disk | connect, write, close, terminate; open, attach, retire, start a host | one host per conversation; a stalled host is not taken for a dead one |
| Input queue (`sessions/input-queue.ts`) | journal of messages, their states and reasons, the pending list, a revision | put, list, advance | records and list agree, a cancelled message stays cancelled |
| Session manager (`sessions/session-manager.ts`) | session rows, one command chain per session, timers, drains | bind, send, Stop, cancel, release, suspend, load, adopt, reconcile, restart | commands of a session do not overlap; delivery is at most once and in order; `isWorking` follows the provider |
| Structured session service (`sessions/structured/`) | loaded session, active turn, terminals seen, questions open and announced | load, reattach, handle event, start turn, steer, interrupt, respond, unload, release | each turn ends once; questions shown are those the provider waits on |
| Run recovery (`sessions/run-recovery.ts`) | last run seen, retry budget, cancellation, timers | watch, refresh, schedule, retry, cancel | retries are bounded, nothing is retried after Stop or twice for one failure |
| Codex transport (`providers/transport/codex/`) | JSON-RPC requests in flight, threads, held questions, replay position | start, resume, reattach, adopt, answer | a question survives a server restart and is answered once |
| Claude transport (`providers/transport/claude/`) | turn records, interrupt and cancel timers, control requests | send, steer, interrupt, resume | every send gets one terminal, the result of a closed turn is not given to the next |
| Grok, Vibe and ACP transports | the same over ACP | the same | the same |
| Transcript readers, timeline merge, live output | parsed messages, offsets | read, merge, match pending messages | nothing lost, doubled or reordered in the view |
| Coordination (`coordination/`) | assignments, inbox, wakes, continuation budget | send, acknowledge, wake, continue, await | three continuations at most without renewed permission, one wake per message |
| Grants and granted launches (`grants/`) | grants, requests, uses | request, decide, revoke, expire; launch, restart, close | no launch without an active grant, one session per request |
| Model profiles | catalogue, queued profile change | choose, apply, fail | the newest choice wins |
| Wiki | pages and revisions | read, write, search, backup | no lost update, no cycle of replacements |
| Indexing, search and the parse cache | project index, watchers, in-flight parses | refresh, watch, load | the newest parse wins |
| Database, authentication, routes, realtime events, web client | storage, sessions, HTTP, SSE | requests | validation and presentation around the above |

### How they interact

```
 browser ── HTTP ──> routes ──> SessionManager ──(command chain per session)──┐
    ^                             │   ^  │ journal, drain timer               │
    │ events                      │   │  └── InputQueue (durable)             v
    └──── event bus <─────────────┘   │                        StructuredSessionService
                                      │ terminal, loss, state          │  ^
                     RunRecovery, Coordination, Grants                 v  │ events
                                                             provider transport (Codex, Claude, ...)
                                                                       │  ^
                                                            HostLineTransport (socket)
                                                                       │  ^   survives the server
                                                                 session host process
                                                                       │  ^   stdin / stdout
                                                                 provider process
```

* A command of a session (`SessionRuntimeRegistry.run`) waits for the one before it.  What
  the person does to the journal (Stop, cancel, release) happens at once, before that wait.
* Events of a transport are handled as they arrive, also between two awaits of a command.
* A connection loss is handled twice: at once by the service (`lose`, which forgets the
  session) and under the command chain by the manager (`structuredConnectionLost`).
* The provider process and its session host outlive the server.  The next server finds them
  by a record on disk, connects, and *adopts* the turn and the questions still there.

### What makes it hard

Three processes fail independently (server, session host, provider).  Almost every handler
awaits in the middle, and whatever it read before may have changed.  Several answers are
unknowable: whether a message arrived when the connection broke, whether a host is dead or
slow.  Retries meet Stop.  The list of these places, each at its line and with the
properties that cover it, is under `hazards` in `PROJECT.json`.

## Modules and the code they model

| Module | What it is |
|---|---|
| `ReplayBuffer` | the buffer of the session host as pure operators on a sequence (`push`, `trim`, `since`) |
| `SessionHost` | one session host, its child, and the clients at the other end of its sockets |
| `RelayContract` | what a client may rely on: the abstract specification `SessionHost` implements |
| `HostLifecycle` | the hosts and processes of one conversation over several backends: records, sockets, open, retire, end |
| `CodexThread` | one Codex thread over two backends: app-server, frames, session object, what is written down for the next backend |
| `ClaudeSession` | one Claude conversation: the queue of the CLI, turn records, interrupts, requests, adoption |
| `AcpSession` | one Grok or Vibe conversation: prompts as open requests, the signals that end them, the handshake of a process found again |
| `ConversationRow` | one loaded conversation above any transport: command lock, turns, questions, adoption, loss, sleep, release |
| `MessageDelivery` | the journal, the drain, and everything that changes the journal, for one session |
| `RunRecovery` | automatic recovery of unattended work, for one session |
| `UnattendedWork` | automatic prompts of one assignment: continuation of work and wakes for mail |
| `SessionLaunches` | sessions that an agent starts, restarts and closes under a grant |
| `MCSessionHost`, `MCRunRecovery`, `MCUnattendedWork` | constants and symmetry for the runs of `SessionHost`, `RunRecovery` and `UnattendedWork` |
| `SessionHostProofs`, `HostLifecycleProofs`, `ConversationRowProofs`, `AcpSessionProofs`, `MessageDeliveryProofs`, `RunRecoveryProofs`, `UnattendedWorkProofs`, `SessionLaunchesProofs` | theorems |

How they fit: `SessionHost` composes `ReplayBuffer` with the clients and is shown to implement `RelayContract`.
`HostLifecycle` takes the hosts one level up and asks which of them is found again.  The three transports model what
`ConversationRow` leaves to its provider actions: turns that begin and end, questions that open and close, a connection that
is lost, a process found again.  `ConversationRow` in turn is what `MessageDelivery`, `RunRecovery`, `UnattendedWork` and
`SessionLaunches` see as "loaded", "a turn runs", "the connection is lost".  Each module keeps the part of the
layer below that its properties need, nondeterministic where the layer below decides.

### SessionHost

`sent[c]` is everything the host wrote to connection `c` and `rcvd[c]` how far the client has
read, so that bytes under way, unread backlog (`Room`) and a broken socket need no channel
variable of their own.  `up[c]` are requests on the way to the host.  A connection is used
once; a reconnect is another connection.  `attachOrder`, `childIn` (as the connection each line
came from) and `exitAt` are history.

| Actions | Code |
|---|---|
| `ChildLine`, `LineOverflow`, `ChildExits`, `StdoutCloses`, `FlushTimeout`, `ChildEnded` | `spawnChild`, `onChildLine`, `failChild`, `onChildEnded` |
| `OnHello` (`Greeting`, `Replayed`), `OnWrite`, `OnStatus`, `OnTerminate` | `onMessage`, `attach`, `writeToChild`, `statusMessage` |
| `GraceExpires`, `KillWaitExpires`, `LingerExpires`, `Stop`, `Abort`, `HostSignalled`, `SocketCloses` | `terminateChild`, `scheduleStop`, `stop`, `abort`, `main`, `onConnection` |
| `Connect`, `PeerReceives`, `PeerAsks`, `PeerCloses`, `PeerTerminates`, `PeerSeesClose`, `PeerDrops`, `ConnectToTerminate` | `HostLineTransport`, `terminateHostAt` |
| `Crash` | the host process is killed (external) |

Line contents are abstracted to their sequence number and size.  The backlog limit
(`MAX_CLIENT_BACKLOG_BYTES`) counts messages.  Trimming by age and by bytes is one nondeterministic
number of lines dropped, at least as many as the byte bound forces.

### HostLifecycle

| Variables | Code |
|---|---|
| `hosts` | per host process: its state from spawn to end, its command line, its child (`kid`), whether the child registered itself (`reg`), was written to (`used`), was given a message (`worked`), stalls (`slow`, `hung`) |
| `record`, `socket` | the record file and the socket file, each as the host it belongs to: they are written and removed at different times by different processes |
| `launch`, `ran` | the launch record of the plugin; a transcript exists |
| `loaded`, `silent` | the loaded session; `unresponsiveRuns` |
| `op` | the operation in progress and its await |

| Actions | Code |
|---|---|
| `Resume`, `Reattach`, `BringUp`, `HandshakeAnswered`, `HandshakeTimesOut`, `HandshakeFails` | `claude-instance.ts`: `resume`, `reattach`, `bringUp`, `launch` |
| `Open`, `Attach`, `Absent`, `Busy`, `Start`, `Starting`, `Retire`, `Asked`, `Signal`, `Kill`, `EndsRetire` | `line-transport.ts`: `openHost`, `attachHost`, `startHost`, `retireHost` |
| `HolderCheck` | `findSessionHolder` |
| `Claims`, `Listens`, `Serves`, `EndsKid`, `Stops`, `Leaves` | `start()`, `stop()`, `finish()` of `session-host.ts` |
| `BackendDies`, `Stalls`, `Recovers`, `Hangs`, `Dies`, `KidEnds`, `Registers` | external |

Two hosts may meet: one asked to stop while a successor already listens still unlinks the path (`Leaves`), and
one that a backend started and forgot may come up beside the next, whose `startHost()` then connects to whoever serves.  Both sides
of such a meeting are marked (`cut`, history) and taken out of `FoundAgain` and `KeptUnlessSilent`; `OneWriter` holds of them too.

### CodexThread

The app-server prints on one ordered stream: `log` holds the frames since the saved cursor, and `read` how far this backend
came.  The session object and the rows of `CodexRestartState` are one record `st`, because each handler is a function of that record and a
frame (`TurnStarted`, `TurnCompleted`, `Status`, `ServerRequest`, ...), composed as the code composes them.  `Dispatch` is the
table of `app-server-session.ts`, `Receive` that of the instance, `Commit` writes what a handler changed.
`op` is the operation in progress (`resume`, `send`, `stop`, `lookup`, `release`) with the
request it awaits.

| Actions | Code |
|---|---|
| `ReadFrame`, `ReadReply` | one frame or answer is handled |
| `Connects`, `ConnectionReady`, `Absorbed` | `startClient`, `separateReplay`, `absorbReplay` |
| `Resume`, `ResumeEnds`, `AdoptBegins`, `AdoptsQuestions`, `ListEnds`, `AdoptsEnded`, `CommandsListed` | `resumeThread` and `adopt` of the session |
| `Send` / `SendEnds`, `Stop` / `StopSends` / `StopEnds` / `GraceExpires`, `StopUnidentified` / `LookupEnds`, `Respond`, `Unload` / `UnloadEnds` | the operations of the session object, split at their awaits |
| `TurnBegins`, `TurnEnds`, `Asking`, `Withdraws`, `Handles...`, `ConnectionLost`, `BackendDies`, `ServerExits` | external |

### ClaudeSession

The CLI is external: `queue` its messages, `turn` the ones in the turn it runs, `asks` the requests it waits for.  `s` is the
session object: `recs` the turn records, `by` the map from message to record, `reqs` the open requests, `active` and `pending`
the two pointers whose agreement with the CLI is the question.

| Actions | Code |
|---|---|
| `ReadFrame` (`HandleFrame`: `CommandStarted`, `CommandCompleted`, `CommandCancelled`, `TurnFrame`, `TurnResult`, `SessionIdle`, `ServerRequest`) | the handlers of `claude-session.ts` |
| `SendTurn` / `SendWrites`, `Steer` / `SteerWrites`, `Interrupt`, `InterruptEnds`, `InterruptUnanswered`, `Respond`, `Close` | its operations |
| `InterruptTimedOut`, `CancelSettles`, `IdleSettles` | its timers |
| `ConnectionLost`, `Detach`, `Reattach`, `Adopt` | `handleExit`, `release`, `bringUp`, `adopt` |
| `Handles`, `StartsTurn`, `StartsOwn`, `Folds`, `Raises`, `Withdraws`, `EndsTurn`, `Drops`, `Exits` | the CLI |

### AcpSession

One module for Grok and Vibe (`vibe`), because they share the shape: a prompt is a request that stays open for its turn.  They differ in
how the end is learned.  Grok names the prompt in two signals and lists running prompts in a roster; Vibe answers the
request, whose id the turn record keeps, and leaves a snapshot whose count of messages tells whether the turn went on.

A Grok prompt may fail: its answer is an error (`failed`), and that answer may be all Grok says of its end (`silent`), as the
repository's own stand-in for Grok does (`test/helpers/fake-grok.mjs:103`).  An error differs from a result in two places of the
code, and in the model.  Read by the callback of its own connection it ends the turn but does not name the prompt (`Settle`), so that a
prompt no content had named is not noted as finished; read by a later connection it is ignored (`Tells`).

| Actions | Code |
|---|---|
| `SessionFrame` (`Content`, `EndsActive`, `Tells`, `Read`), `Settle` | update handlers, the unmatched answer, the callbacks of the prompt |
| `SendBegins`, `SendFails`, `SendWrites`, `SendConfirmed`, `Interrupt`, `GraceExpires`, `Close` | operations and the interrupt timer |
| `Connect`, `HandshakeFrame`, `Greeted`, `Away`, `Loaded`, `Listed`, `Settled`, `Adopt`, `HeldContent`, `Reattached` | handshake and adoption in the two instance files |
| `HandleExit`, `Disconnected`, `Exits`, `Restart` | loss, exit, a new backend |
| `ProcessFrame`, `Begins`, `OwnWake`, `PrintsContent`, `Ends`, `Refuses`, `AnswersHandshake` | the process (external) |

### ConversationRow

| Variables | Code |
|---|---|
| `pid`, `run`, `held`, `asked` | the provider process (external): its current turn, the questions it waits on |
| `attached`, `chan` | whether its output reaches the service, and the events not handled yet |
| `loaded`, `active`, `stopping`, `seen`, `open`, `spid` | `LoadedSession` in `structured-session-service.ts` |
| `stored`, `announced` | meta table rows `structured-requests:` and `structured-announced:` |
| `status`, `working`, `asleep` | the session row |
| `lock`, `pc`, `call` | the command chain and the await of the running command |
| `timer`, `output`, `news` | `workingIdleTimer`, the output and completion times it compares, a run state not read yet |
| `losing`, `busy` | a loss reported to the service and not yet to the manager; lookups a stalled host has not answered |

A command runs in steps, one per await: `BeginLoad`, `BeginAdopt` / `NoSurvivor` / `SurvivorBusy` / `Adopted`,
`Resumed` / `ResumeFails`, then `SubmitHuman`, `DeliverAutomatic`, `Interrupt` or `Respond` with their results.
Events (`HandleStarted` ... `HandleError`), `ReportLoss`, `TimerFires`, `Reconcile` and `Restart` fall between any two.
`PerSession` chooses between the two process models: one process per conversation, which the Console must
end itself, or one shared by all.  `MessageMode` questions are asked in a message; the provider does not wait
on them.  `terminateHost` is taken to succeed, except where the code handles its failure (`ReleaseFails`).

### MessageDelivery

`rec`, `order` and `rev` are the durable journal.  `lock` is the promise chain with the running command
first, `pc` the await it stands in, `attempt` the copy of message and revision it took into that await.
A request (`posting`) captures the revision when it arrives and is admitted later, as
`routes/sessions.ts` does.  The reason stored with a record is abstracted to what it tells the
person: `waiting`, `unsent`, `uncertain` or `sent`.  The provider may take a message into a running turn
(`steering`), refuse it, lose the connection, or give steers back at a Stop (`dropped`).

`Stop`, `SendDirect`, `Cancel` and `Release` are split at the place where the code waits for the chain:
the journal part is one action, the rest (`StopRuns`, `SendDirectRuns`, `ReleaseRuns`) another.

### RunRecovery

Time is a logical clock (`now`, advanced by `Tick`).  A timer fires at any time from when it is due, so that a host
that was suspended and a queue that was busy are covered.

| Variables | Code |
|---|---|
| `native` | what `StructuredRunMonitor.read` returns; after a lost connection the transcript still says the same |
| `turn`, `prompt`, `alive`, `pid` | the provider (external): a running turn, a recovery prompt it has and has not begun, the connection, its process |
| `row`, `working`, `visible`, `budget`, `cancellation`, `unattended` | the row with `runFailure`, the meta table rows of `run-recovery.ts`, the assignment's permission |
| `obs` | the `Observation` in the map: last run seen, process failure, timer |
| `queue`, `cmd` | the command chain; the running command and the await it stands in (`read`, `ask`, `relaunch`, `submit`) |
| `prompted`, `spent`, `stopped` | history: failures a prompt was sent for, prompts in a row, turns the person stopped |

The methods of `RunRecovery` call each other, and each save emits an event that the manager answers at once by watching or
forgetting the session.  They are therefore functions of a record (`Here`) of the variables they change, composed as
the code composes them, and `Become` makes the result the next state.

| Actions | Code |
|---|---|
| `TurnStarts`, `ItemCompleted`, `TurnEnds`, `ConnectionLost` | `handleStructuredTurnStarted`, `...ItemCompleted`, `...TurnTerminal`, `...SessionState` |
| `Cancel`, `Permit` | `cancel` with `pauseAutomaticInput`; an agent that allows unattended work again |
| `TimerFires`, `BeginRun`, `ReadEnds` | the timers of `schedule` and of the acknowledgment; `refresh` and what follows it (`Observe`, `Failed`, `Lives`) |
| `ChecksEnd`, `RelaunchSucceeds`, `RelaunchFails` | `canRetry`, with `restoreStructuredSession` inside it; `Checked` is `retry` from its answer on |
| `SubmitEnds` | the answer of `submit`: submitted, certainly not sent, refused or uncertain |
| `Reconcile`, `BeginReconcile`, `BeginLoss`, `AdoptSurvivor` | `reconcileSessions`, `refreshStructuredSessionState`, `handleStructuredConnectionLoss` |
| `Restart` | death of the backend; the turn it leaves may end before the next one reads the transcript |

Several refreshes that wait are one, because the second would read what the first read.  The gate of `canRetry`
(pause, memory, queued input, pending model change, project disabled) is one nondeterministic refusal.
The prompt leaves at the moment the attempt is saved, or not at all; `SubmitEnds` decides only what the backend learns.

### UnattendedWork

| Variables | Code |
|---|---|
| `control` | `ContinuationControl`: permission, revision, declared wait, recovery state, attempts, the list of signals and that of keys seen, each with its bound (16, 128) |
| `paused`, `finished`, `task` | `peerWakePaused`, the assignment, its task on the supervisor's board |
| `box`, `first`, `second`, `handed` | per message: inbox state, the recorded attempt, that of its one follow-up, the revision a dispatch hands over |
| `alive`, `turn`, `coming`, `working`, `acked`, `answered` | the conversation, as far as the pass looks at it |
| `pc`, `call` | the await of `drainAssignments` and what it carries over it |
| `prompts`, `unsure`, `tries`, `unsureMail`, `owed`, `quiet` | history, for the properties |

`BeginPass`, `Acknowledge`, `ProjectAnswers`, `Restored` / `RestoreFails`, `RefreshEnds` and `Submitted` / `NotSent` /
`OutcomeUnknown` are `drainAssignments` between its awaits; everything else may fall between any two of them.  Whatever
waits for a moment (a delay, a cool-down, a retry) may find it reached or not at every pass.

Signals are lists because their bounds drop the oldest (`Newest`).  `owed[s]` counts, for a signal that was accepted and is in no prompt
that was taken, how many acceptances away it is from being dropped so; `SignalNotLost` says that until then it is in the list.

### SessionLaunches

A request is a row (`req`), the drain lists rows with the status it reads then (`listed`) and goes on believing it
(`cur.seen`).  `Take` starts a row, and `Checked`, `Started`, `Adopted`, `Prompted` (launch), `Restoring`, `Unload`, `Loading`,
`Verified`, `Prompted` (restart) and `Read`, `Released` (close) are what follows each await.  `Update` is the compare-and-set of the status,
`UpdateAnyway` the one that does not compare.  Grant and requester end at any time (`Revoke`, `RequesterFinishes`, `Cancel`), the
person pauses, speaks, opens or releases, and `Crash` leaves the rows to the next backend, where `Reconcile` and the next
drain find them.

`resting[s]` is what makes `reconcileSessions` pass a row over: sleep, a suspension by hand or by memory pressure, a finished assignment, idleness
past its window.  `Rests` puts a bound row to rest, and any row that is not loaded, because idleness and a finished assignment ask for
no status.  Only a load takes the rest away (`Wake`), and it does so *after* the row was written `starting`; so a row may be both.
A close that fails has already dropped the epoch and the load (`Forget`) and leaves the row with the status it had (`was`).

## What is model-checked

Every run checks deadlock off, because these systems may rest: bounds are used up, nobody types.

| Run | Instance | What it shows |
|---|---|---|
| `SessionHost_relay` | two clients, two lines, sizes 1 and 3 with a buffer of 2, backlog 3, live output only or replay from the start, a write from each client | `NoSilentHole`, `ClientCaughtUp`, `LaterClientWins` while clients replace each other and fall behind, and that the host implements `RelayContract` (`ImplementsRelay`) |
| `SessionHost_end` | one client that asks once (status, terminate, close) or vanishes, one terminator, every failure, no output, fair | `NoOrphanAtStop`, and `HostLeaves`: a termination ends, an ended child's host goes away, and whoever asked for the end is released |
| `HostLifecycle_open` | three hosts, two backends, one stalled or dead host or hung or ended process | `OneWriter`, `FoundAgain`, `KeptUnlessSilent` |
| `CodexThread_adopt` | two turns, one question, a buffer that may have been trimmed, three operations, one fault | `InStep`, `QuestionNotLost`, `EndReportedOnce` |
| `ClaudeSession_turns` | two messages (sent or steered), one turn of the CLI's own, one request, one Stop, one fault | `NoTurnStuck`, `ResultIsOwn`, `RequestsAgree`, `DroppedIsTold` |
| `AcpSession_turns` | both providers, three prompts that may fail, wakes of Grok's own among them, three turns, two faults | `TurnsEnd`, `EndIsOwn`, `EndIsFinal` |
| `ConversationRow_shared` | shared process, two turns, one question, a loss and a restart, two commands | `QuestionsShownAreHeld`, `ActiveTurnIsReal`, `NotStuckWorking`, `ToldOnce` |
| `ConversationRow_live` | process per conversation, two processes, wake, answer, sleep, release, a loss and a restart, fair | `NoProcessLeft`, `WorkingSettles` |
| `MessageDelivery_queue` | two messages or one requested twice, steering provider or not, Stop or a direct send, cancel, suspend, release, loss, restart, fair | `HonestJournal`, `HeadIsDriven`, `DeliveredOnceInOrder`, `NothingAfterStop`, `StopGetsThrough` |
| `RunRecovery_retry` | two turns, two processes, two delays; failures, Stop and permission, a gate, a loss, failing relaunches, a restart | `AnnouncedRetryHasTimer`, `OnePromptPerFailure`, `NothingForStoppedTurn` |
| `UnattendedWork_prompts` | an urgent message or a dispatched task, two worker results, one of them kept and one key remembered, two changes of the permission, limit 2, one restart, loss or failed restore | `PromptsBounded`, `SignalNotLost`, `DoubtIsNotRepeated`, `QuietAfterStop` |
| `SessionLaunches_requests` | a launch, a restart and a close of the launched session, rest and opening at any time, one death of the backend or lost connection, fair | `TaskOnce`, `OutcomeIsFinal`, `StartingEnds` |

### Bounds

* `MaxSeq`, `MaxBytes`, `LineBytes`: with a buffer smaller than the output a line is trimmed, one is oversize and
  skipped, and a cursor can lie before, in and after what is buffered.  A third client would only repeat
  the relation of the first two, because only the current one and those it replaced differ.
* `MaxBacklog`: small enough that a client which does not read is dropped in the middle of a replay.
* `HostLifecycle`: a host, its successor and one started beside them; two backends, so that what one leaves half done the
  other finds.  The theorems hold for any number of each.
* `MaxPosts`, `MaxRev`: two requests, of two messages or of the same one, and a Stop or a direct send before, between and
  after them.
* `CodexThread`, `ClaudeSession`, `AcpSession`: one turn, its successor and (for Claude and Grok) a turn of the provider's own beside
  them; one Stop or release; one fault, for ACP two, because a process found again after a restart may be
  lost again.  `Room` and `MaxUnread` bound how far the session is behind: enough for an end and the beginning that follows it.
* `MaxTurns`, `MaxPids`, `MaxBoots`, `MaxLosses`, `MaxCommands`, `Waiting`: a second turn after the first, a second
  process after the first, one loss of a connection and one restart anywhere between two commands, one of
  which may already wait.  Every property is about at most two turns or processes at a time.
* `BusyLimit` (a time in the code) is small so that the patience with a stalled host can run out.  `Memory` (64 in the code) is not below
  the number of turns: a smaller one lets a send outlast it (`InTime`, under "What is proved").
* `Delays`, `Window`, `AckWait`, `LastEvent`, `MaxTime`: two delays of one tick, a window of two ticks and an answer awaited for
  one, so that attempts, window and acknowledgment can each run out first.  Events happen before `LastEvent` and what is under
  way may then run down until `MaxTime`.  A failure, its retry, the failure of that retry and the next retry fit, with one Stop,
  one loss or more, and one restart anywhere between.
* `UnattendedWork`: `Limit` is 3 in the code and 2 here, so that the limit is reached within one permission and a second permission still
  follows; the theorems hold for every limit.  `MaxSignals` is 16 in the code and `MaxSeen` 128; both are 1 here, so that with two signals the
  first is pushed out by the second, its key is forgotten and it is taken again.  Whether a signal is kept depends only on how many came after
  it, and the theorem holds for every bound.  The two signals are interchangeable (`SignalSymmetry`), and the run checks no liveness.
* `SessionLaunches`: one request of each kind, three loads of the session (start, restart, and one more by the person or the
  next backend).

### Fairness

* `SessionHost_end`: weak fairness of the host's timers (`FlushTimeout`, `GraceExpires`, `KillWaitExpires`, `LingerExpires`) and,
  for each connection, of the host reading it and of the client reading what it was sent and seeing it close.  Nothing
  makes the child print, exit or obey a signal; one that cannot be killed is covered by the host's last timer.
* `MessageDelivery`: `WF(LockStep)` because every await of a command has a time limit in the transports, `WF(TimerFires)`
  because the event loop runs timers.
* `ConversationRow`: weak fairness of event handling, of the running command, of the loss report, of the expiry timer
  and of the reconcile interval (30 s).  Nothing is assumed of the provider, which may stay silent, nor of the
  person.
* `SessionLaunches`: weak fairness of the drain's next step (`BeginDrain`, `EndDrain` or `Process`), because it runs on an interval of five
  seconds and all it awaits has a time limit; strong fairness of `Reconcile(s)` for rows that are starting and *not at rest*, because
  reconciliation waits in the session's chain, which is a queue, so that commands in between cannot overtake it for ever.  Nothing is assumed of the person, the grant or the provider.
* `RunRecovery`, `HostLifecycle`, the transports and `UnattendedWork`: none.  Their promises about ends are stated for the moment
  when nothing is under way (`Quiet`, `AtRest`, `Settled`): what is open then stays open for ever, so the safety
  property is what the liveness property would need.
## What is proved

### Host and clients

The theorems of `SessionHostProofs` hold for any number of clients and terminators, any buffer size,
any line sizes, any cursors and any backlog limit:

| Theorem | Statement |
|---|---|
| `TypeCorrect` | `Spec => []TypeOK` |
| `BufferHasNoHole` | `Spec => []BufferContiguous` |
| `StreamsHaveNoSilentHole` | `Spec => []NoSilentHole` |
| `StreamsAscend` | `Spec => []LinesAscend` |
| `CurrentClientCaughtUp` | `Spec => []ClientCaughtUp` |
| `HostLeavesNoOrphan` | `Spec => []NoOrphanAtStop` |
| `RecordIsOfServingHost` | `Spec => []RecordNamesServingHost` |

They rest on the named assumptions `ConnAssumption`, `SinceAssumption`, `BoundAssumption` of `SessionHost` and on the assumption
about sizes in `ReplayBuffer`; TLC evaluates all of them in the runs.

*The buffer.*  The first part of `SessionHostProofs` shows that dropping any number of the oldest lines (`TrimsKeep`) and pushing the next
one (`PushesKeep`) keep the buffer a contiguous run that ends with the newest line, and what `since` returns
(`EntriesAfterCursor`).  `BufferContiguous` is inductive together with the types.

*The streams.*  `NoSilentHole` and its companions are not inductive: what a client is sent next depends on what
stands in its requests and on whether it was greeted.  `StreamInv` adds, for every connection, that a
hello is sent first and only once (`Handshake`), and that what was written to a greeted client is a greeting
followed by lines and quiet messages whose lines reach the newest one while it is current and its socket is open
(`Stream`).  The key lemma is `GreetingPrefixGood`: *every prefix* of a greeting, however the backlog limit cuts it, is a good stream.
Each action is then either quiet for a connection (it adds nothing, or messages that are no lines:
`QuietStep`, `SilentStep`), or one of `ChildLine` and `OnHello`, which have proofs of their own.

*The contract.*  The last part of `SessionHostProofs` adds the two results about what clients see of each other:

| Theorem | Statement |
|---|---|
| `ReplacedClientWritesNoMore` | `Spec => []LaterClientWins` |
| `RelayImplementsContract` | `Spec => ImplementsRelay` |

`Replacing` says that a client which was replaced stays replaced, so that what it still has on the way is refused.  The refinement maps
what each client was sent and told to the variables of the contract; `RelayInv` says that a client is told of the exit once and after
all lines, and knows of nothing that the host did not write, so that each action of the host is one step of the contract or none.

*The end.*  `LeaveInv` records why a stopped host leaves no orphan: the child is gone whenever its exit was declared or
the host lingers, and the last wait of a termination begins with SIGKILL.


### Hosts of one conversation

The theorems of `HostLifecycleProofs` hold for any number of hosts that follow each other or meet, of backends and of faults:

| Theorem | Statement |
|---|---|
| `LifecycleTypes` | `Spec => []TypeOK` |
| `OneProcessWrites` | `Spec => []OneWriter` |
| `SpokenToIsFoundAgain` | `Spec => []FoundAgain` |
| `WorkIsNotEnded` | `Spec => KeptUnlessSilent` |

They rest on `BoundAssumption`, which TLC evaluates in the run.  One invariant carries all three (`Inv`):

* `OneWriter` is not inductive, because nothing in it says that nobody writes while a process is launched.  `WriterShape` does: from
  the answer of the registry to the end of the launch there is no writer, the process of a handshake is the only
  one that may be one, and a process that is loaded has registered, so that the next answer will name it.
* `FoundAgain` is not inductive either, because record, socket and process change in different steps of different
  processes.  `Apart` says that a live host that is not alone, or not the newest, knows it; `Filed` that one which is alone
  and has its socket has its record, although the record is written later; `Known` what the launch record, the
  session and each await of the operation say of the host of a process that was spoken to.
* `KeptUnlessSilent` follows from both: a launch meets no writer, and `Known` says that an operation which retires a
  survivor, or stopped waiting for its handshake, counted a silence of it before.

A step is `Quiet` if no host starts, is spoken to or is given work; `Tame` says what such a step may do to one host.  All but four
actions are quiet, and for those it is enough to say what happens to the files and the operation (`QuietKeepsInv`).

Larger instances, tried before the proof, refuted earlier forms of two properties: with a third host or a third backend a process
whose socket was taken by a host that came up beside it could be ended by an open, and could be missing from the record.  `cut` covers these
hosts now, and `FoundAgain` holds in every state instead of the settled ones only.

### A conversation

The theorems of `ConversationRowProofs` hold for either process model, any questions, any commands, and any number of turns, processes,
lost connections and restarts of the backend:

| Theorem | Statement |
|---|---|
| `TypesHold` | `Spec => []TypeOK` |
| `NothingLeftBehind` | `Spec => []NoProcessLeft` |
| `QuestionsAgree` | `Spec => []QuestionsShownAreHeld` |
| `NothingTwice` | `Spec => []ToldOnce` |
| `ActiveTurnHolds` | `Spec /\ []InTime => []ActiveTurnIsReal` |
| `FlagIsCleared` | `Spec /\ []InTime => []NotStuckWorking` |

They rest on `RowAssumption`, which TLC evaluates in both runs.  The properties speak of the moment when the row has read everything;
the invariant says what they come to while events are unread.

*Events.*  `Stream` orders what is in `chan`: turns in the order they began, ends not before starts, and no start of a turn whose end is
remembered.  `Asked` places the opening of a question before the end of its turn, and allows it once.  Both are preserved by two lemmas, one for
events added at the end (`Grown`) and one for the first taken away (`Shifted`).

*Questions.*  `Shown` is `QuestionsShownAreHeld` with the unread events counted in: what is held is shown or its opening is unread, and
what is shown is held or its closing is unread.  An end closes all questions of its turn, so `Asked` is what keeps one of a later turn open.

*Told once.*  `Telling` says that a question which was announced, and may be opened again, stands in the list of those announced, in memory while a
session is loaded and in the record for the pid between. `Ended` says that after an end was passed on only its repetition can
be unread, next in line and remembered as the last one.

*The active turn.*  `Agrees` says that an active turn that does not run has its end unread, and a running one is active or has its start unread.
It would break in `startTurn`, which sets the active turn of a send after an await, so `Sent` follows the turn of the
send that is awaited: its start is unread, or it is active, or its end is remembered.  Only the last can fail, because `TERMINAL_MEMORY` ends
are remembered and the oldest is dropped (`Remember`).  Ends are remembered in order (`Ordered`), so the turn of the send
is dropped only after `Memory` later turns ended: `InTime` says that fewer have begun while one send is awaited.  With a memory of one end
and two turns TLC finds the state `InTime` excludes, in 12 steps; 64 turns during one send are not to be expected.

*The working flag.*  `Clears` says that a flag without an active turn has the expiry timer or a refresh that will look at the run state.

*No process left.*  `NoneLeft` extends `NoProcessLeft` to the releases and unloads that are under way, and `Control` says what each await of a
command may find.

A larger instance, tried before the proof, refuted an earlier `ToldOnce` that made no difference between the process models; see "Seen
while modelling", under Claude.

### A Grok or Vibe conversation

The theorems of `AcpSessionProofs` hold for both providers, any number of prompts, turns and faults and any depth of the line:

| Theorem | Statement |
|---|---|
| `TypeCorrect` | `Spec => []TypeOK` |
| `EndsAreFinal` | `Spec => []EndIsFinal` |
| `IdleWhenDone` | `Spec => []TurnsEnd` |
| `EndsAreOwn` | `Spec => []EndIsOwn` |

They rest on `BoundAssumption`, which TLC evaluates in the run.  One invariant (`Inv`) carries all four; TLC went through it on the bounds of the
run before it was proved.  `EndIsFinal` is a conjunct of a small part of it (`Told`: what was told is neither in flight nor recorded, and turns
are counted).  The other two need to know which signal comes next, and which prompts say nothing of their end but an error:

*The order of work.*  Prompts are numbered as they are written, and the process takes them in that order, with Grok's own wakes in between
(`ProcessOrder`).  `LineOrder` says the line is in that order too: content comes before the signals of its end, the completions Grok prints ascend,
and content of an ended prompt is followed by its completion.  `HandshakeOrder` says that one handshake request is open at a time, so that an
answer belongs to the stage that reads it, and `Rosters` what a roster still means when it is read late: what follows it in the line is of the
prompt it names and later ones, or, when it names none, of Grok's own wakes only.

*No turn waits for ever.*  `EndsCome` names for each turn that is not stray the signal that will end it: the answer, for a turn of this connection;
the answer to the adopted request, for Vibe; for Grok the completion of the prompt it waits for (`WaitedFor`: the one the turn is named for, or its
own), which is under way and not one that Grok's session counts as finished, unless Grok is silent of it (`Completing`).  While
the turn has no name, any completion read before that one would end it too, so what is finished must be past (`FinishedPast`: ended, and all
content in the line is of later prompts).  This is where a roster that was overtaken could lose an end: `Awaited` is exactly the check that
`Listed` needs, and without the order of the line it would not be enough.  `TurnState` and `Listing` tie turns to stages and records.

*No turn ends by another's signal.*  `EndIsOwn` speaks of the past, so `Inv` has to say of every prompt what a signal of it could still end.
`Names`: a prompt of the person's whose end is still to come is that of the current turn, or its turn was closed and Grok's session knows
(`late` is "known") or does not ("unknown": no content had named it when it was closed or failed); prompts that wait, and those after one a roster names, have no other turn.  `Causes`: an end by a foreign prompt was one of a
prompt that is over (`IsOver`), and what is over comes up neither as content nor in a roster (`OverWireKept`), so it gets no turn afterwards that
would make the old end wrong.

### Messages

The theorems of `MessageDeliveryProofs` hold for any messages, and any number of requests, retries, Stops, direct sends, cancels,
suspensions, releases, lost connections and restarts of the backend:

| Theorem | Statement |
|---|---|
| `TypeCorrect` | `Spec => []TypeOK` |
| `DeliveryInOrder` | `Spec => []DeliveredOnceInOrder` |
| `JournalIsHonest` | `Spec => []HonestJournal` |
| `HeadIsAlwaysDriven` | `Spec => []HeadIsDriven` |
| `NothingIsSentAfterStop` | `Spec => NothingAfterStop` |

They rest on `MsgAssumption` (the messages are finitely many, and `NoMsg` is none of them) and `DeliveryAssumption`; TLC evaluates both in the run.

*The journal.*  `Listed` says that the pending list holds each pending record once, which makes `RemoveFirst` a removal;
`AttemptInv` what the running command may rely on after an await: a message "submitting" is the one it delivers, and a record
that a Stop took over is cancelled or failed, and "uncertain" while it may still leave.

*Once, and in order.*  `DeliveredOnceInOrder` is not inductive: it says nothing of what is still to be delivered.  `OrderInv` adds that the
live part of the pending list is in the order of admission; that the message of an attempt comes before everything still queued;
and that whatever was delivered comes before everything still queued and before the message being sent.  From the last, and because a
message does not precede itself (`AdmissionInv`), a message delivered once is never queued again (`NotDelivered`).  The lemmas
reason about `Precedes` and `Contains`, never about positions; what `RemoveFirst`, `Append`, concatenation and enumeration do to
both is shown once, at the head of the module.

*The steps.*  Three lemmas write the journal in an attempt: a message is handed over (`HandsOver`), waits again (`WaitsAgain`), or is settled (`Settles`).  Every
action of the attempt is one of the three, or writes nothing because `put` revives no cancelled record.

*No lost wakeup.*  `HeadIsDriven` needs that between commands the timer is armed whenever the head is ready, and that a
timer that fired has its drain in line (`DrivenInv`).

*Stop.*  `StopInv` says of a message barred by a Stop that its record is not live, that a request for it carries an older revision,
and that an attempt to deliver it is in progress only while a Stop still waits for the lock.  Only `Accepts` delivers (`OnlyAccepts`).

### Automatic recovery

The theorems of `RunRecoveryProofs` hold for any delays, recovery window and acknowledgment time, and any number of turns, processes,
Stops, lost connections, relaunches and restarts:

| Theorem | Statement |
|---|---|
| `TypeCorrect` | `Spec => []TypeOK` |
| `AnsweredOnce` | `Spec => OnePromptPerFailure` |
| `StoppedStays` | `Spec => NothingForStoppedTurn` |
| `RetryIsKept` | `Spec => []AnnouncedRetryHasTimer` |

They rest on `RecoveryAssumption` (positive delays, at least one) and `NoneAssumption` (`None` is no run, failure, timer, observation, command or
cancellation); TLC evaluates both in the run.

*Methods of a store.*  The methods of `RunRecovery` are functions of a record, so what they keep is shown of records: one lemma gives the
value of each (`PublishSpec`, `SaveSpec`, `ScheduleCases`), others what they preserve (`PublishKeeps`, `SaveKeeps`, `ScheduleKeeps`, `RefreshKeeps`,
`CheckedKeeps`).  A predicate of the invariant `Answered` takes the record and, as its second argument, what lies outside of it
(`World`: clock, provider, history), and `CoreWorld`, `CommandsRest` and `CoreSame` say which change of either leaves it true.

*Why a failure is not answered twice.*  Neither property is inductive.  A failure is answered while it stands in the meta table; it can come back only
through the monitor, which may say the same run again after any loss or restart, or as the end of a process, which the observation holds back.
`Answers` says of both that a run that was answered is the one the meta table names, or is hidden by a later end of a process that the table
and the observation agree on.  A new failure is scheduled at least one delay ahead (`FailureOK`; this is where the delays must be
positive), so a failure of this moment was never answered (`NewFailureFits`), and while a prompt is under way the
command still stands for the failure it was begun for (`Commands`).

*Why Stop holds.*  `NotAnswered` says that a scheduled failure names no stopped turn.  It survives a permission that is renewed, because `WorldOK`
says that a stopped turn whose run the monitor may still report began no later than the last cancellation, or is named by it, which is what `WasCancelled`
reads.

*Why no announced retry is forgotten.*  The invariant speaks of the moment when the command chain is empty; `Accounted` says who stands in for the timer
until then.  As long as the row is watched and announces a retry, its timer runs (`Ticking`: of the kind the failure asks for, and not before
its time), or a job waits that will see to it (`Queued`: a refresh if no run has been seen, else the job of the timer that fired), or the command at work
reads for it, checks, relaunches or submits (`Busy`).  `Base` is what a refresh needs to keep that: once a run was seen, it is the run
of the failure (`Follows`), so `refresh()` either has something new, after which the failure is timed or gone (`Calm`, `FailedCalm`,
`LivesCalm`), or nothing changed and the timer it found still runs (`RefreshSound`); and before the first run is seen, the monitor has
one or the observation holds the end of a process, so that the refresh does arm the timer.  `Doing` and `RowFits` say what a command may count on after
an await: the row is bound while it asks and submits, starting while it relaunches, the observation it was made for is still there unless the
relaunch failed, and once somebody cancelled nothing is announced.

### Automatic prompts

The theorems of `UnattendedWorkProofs` hold for any messages, dispatches and signals, every limit, and any number of permissions,
messages, turns, restarts and failed restores:

| Theorem | Statement |
|---|---|
| `TypeCorrect` | `Spec => []TypeOK` |
| `QuietUntilSpokenTo` | `Spec => QuietAfterStop` |
| `NoSignalIsDropped` | `Spec => []SignalNotLost` |
| `PromptsAreBounded` | `Spec => []PromptsBounded` |
| `DoubtIsFinal` | `Spec => DoubtIsNotRepeated` |

They rest on `LimitAssumption` (a positive limit), `MailAssumption` (an urgent message is no dispatch) and `SignalAssumption` (at least one signal is
kept and one key remembered); TLC evaluates all of them in the run.

*Outside and inside.*  The lemma `OutsideSteps` reduces everything that happens between two awaits of the pass to what it can
change of what the pass relies on (`Outside`): a new permission, a wait, a signal, or nothing.  Only the steps of the pass need proofs of their own.

*The budget.*  `PromptsBounded` is not inductive: nothing in it says how many attempts are left while a prompt is on its way.
`WorkInv` adds that the attempts count at least the prompts and never exceed the limit; that a pass which holds work
of the permission still in force (`Holds`) finds the recovery "scheduled" below the limit until it sends, and
"submitting" while it does; and that a doubt leaves the recovery where no pass schedules it again.
`MailInv` says the same of the two attempts of one message.  A pass that carries work of an older permission is harmless: it does not
send (`Allowed`), and what it finds out is not written.

*Doubt.*  `DoubtIsFinal` follows from `WorkInv` and `MailInv` together with `OnlySubmitPrompts`: a prompt leaves in one step of
the pass only, and `PendingMail` shows that this step takes no message whose attempt is in doubt.

*Signals.*  That an owed signal is in the list says nothing of where it is, and the bound drops by place.  `SignalInv` says that a signal which is `k`
acceptances away from being dropped has at most `MaxSignals` - `k` members of the list after it.  Two lemmas about lists carry it: `NewestKeeps` (what is
near the end stays, as near as it was) and `WithoutKeeps` (what a prompt was not about stays, no farther from the end), and each
acceptance moves both sides by one (`SignalStep`).  `NoSignalIsDropped` is `SignalInv` without the places.

*Quiet.*  `QuietAfterStop` needs only that a quiet assignment is paused (`QuietInv`), and that the last check
before sending reads the pause again.

### Requests for sessions

The theorems of `SessionLaunchesProofs` hold for any set of launches, restarts and closes, any assignment of restarts and closes to
sessions, and any number of loads, revocations, cancellations and deaths of the backend:

| Theorem | Statement |
|---|---|
| `TypeCorrect` | `Spec => []TypeOK` |
| `TaskIsSentOnce` | `Spec => []TaskOnce` |
| `OutcomesAreFinal` | `Spec => OutcomeIsFinal` |

They rest on `RequestAssumption` (a request is of one kind); TLC evaluates it in the run.

*Why a task is not sent twice.*  A backend that finds a request "starting" decides by the rows it finds (`Resume`), so the invariant must
say what a task that was sent leaves behind.  `MarkInv` does: a launch has a row, and a restart another epoch than the one it was
asked in, a newer one or none, or the session is over for good.  It is preserved because a load is newer than every load before (`EpochInv`),
because no row becomes "none" again (`RowInv`), and because `Forget` leaves no epoch.  No mark can tell "none" from "none": a restart that was
asked while the session had no epoch, and that the backend died over, is excepted (`Dated`; see "Seen while modelling").

*Why the drain's own reads do not mislead it.*  `DrainInv` says that nobody but the drain writes over "starting", and that what it listed as
starting, or as queued, has not changed places; `ChainInv` that the row of the session whose chain it holds is as it left it.
`Marks` collects what any step on sessions preserves of the traces, so that each action has a short proof: it keeps the marks, and ends the request
(`EndsKeeps`), goes on to the next await (`GoesOnKeeps`) or sends the task (`SendsKeeps`).

### Only model-checked

Liveness (`HostLeaves`, `StopGetsThrough`, `WorkingSettles`, `StartingEnds`) is out of the prover's reach, and so is fairness.  What
`CodexThread` and `ClaudeSession` promise is checked and not proved: their invariants are of the size of `AcpSession`'s and need
one of the same kind, from the order of the frames.
## Seen while modelling

These are places where the code does something its documentation or a reader may not expect.  The models do what
the code does; where a property would fail because of it, its comment or its definition names the exception.

*Session manager and recovery.*

* A request that repeats an earlier one, captured before a Stop, is told "It was not sent." although the message was
  (`sessions/session-manager.ts:1875` looks at the revision before the record; `docs/architecture.md:290`).
* A message that waits in the command chain survives the release of its session: `releaseSession` (`:2169`) cancels the
  queue before it waits for the chain (`docs/architecture.md:302`).
* A connection loss that waited clears `isWorking` under the turn of the next connection (`structuredConnectionLost`, `:3139`;
  `docs/structured-providers.md:1026`).
* The refresh of a turn that just began, run after its connection is lost, clears `isWorking`; the loss (`:2889`) then finds no
  work that was cut off and recovers nothing.
* A turn adopted after a restart gets the time of the adoption as its start, so a Stop pressed before the monitor had
  seen the turn does not cover it.  `NothingForStoppedTurn` leaves such a turn out.
* A failure after an attempt with an uncertain outcome starts the count of attempts again (`sessions/run-recovery.ts:219`), so
  prompts in a row are not bounded as `docs/architecture.md:702` says.
* A relaunch that fails emits `session.updated` before it is counted; the manager forgets the observation (`session-manager.ts:979`),
  `retry` leaves at `run-recovery.ts:273`, and `reconcileSessions` (`:1114`) restores `error` rows at once (`docs/architecture.md:744`).

*Unattended work.*

* A submission that is put off spends an attempt although nothing was sent (`session-manager.ts:829`).
* A wait that the agent declares between the send of a prompt and its acknowledgement leaves the recovery at `submitting`; the
  next pass takes it for a prompt of unknown outcome (`coordination/continuation.ts:98`).
* A failed restore marks an urgent message as failed for good (`session-manager.ts:749`).
* The newest 16 signals are kept, and the newest 128 keys (`coordination/continuation.ts:89`).  A seventeenth result that waits drops the oldest
  without a word, although its key says it was taken (`docs/agent-coordination.md:188` says that signals arriving during input remain
  pending); and a result whose key was forgotten may be taken again.  `SignalNotLost` holds up to this bound.

*Granted launches.*

* A crash between the row becoming `bound` (`session-manager.ts:1709`) and the opening task leaves a launch that reads
  `completed` (`grants/session-launches.ts:206`) without its task; so does a restart that dies between reload and prompt.  `TaskOnce`
  excepts requests the backend died over (`cut`).
* A restart of a sleeping session writes `starting` (`session-manager.ts:2791`) while `idle_suspended_at` stays until the load is over (`:2804`).
  If the backend dies in between, `reconcileSessions` passes the row over (`:1096`), although its comment says that a restore which a crash
  cut off half way is retried (`:1114`), and the request reads `starting` (`grants/session-launches.ts:210`) until somebody opens
  the conversation or a message waits for it.  The same holds for a row suspended by hand (`:1073`) or by memory pressure (`:1095`), one whose assignment
  is finished (`:1074`), one due for release without a readable transcript (`:1083`), and one idle past its window: `suspendIdleSession` takes
  it from reconciliation (`:1105`) and declines it because it is not bound (`:2188`).  `StartingEnds` excepts such rows (`PassedOver`), and
  fails without the exception.
* A close that fails has dropped the epoch already (`structured-session-service.ts:522`).  A restart asked before the next load notes none
  (`previousEpoch` is undefined); if it sends its task, the backend dies over it, and a second close fails after the session was
  loaded again, the next backend takes the epoch for unchanged (`session-launches.ts:206`), queues the request and sends the
  task a second time.  `TaskOnce` excepts such a restart (`Dated`); without the exception a run with one more load than the bounds of the run finds it.
* A row that is bound, and whose pending conversation is never adopted, may be ended by reconciliation while the request says
  `completed`.
* Sleeping sessions do not count in `maxConcurrentSessions`; a requester that finishes during the project lookup is not looked
  at again before the launch; closing a session whose launch failed waits for a transcript that never comes.

*Hosts.*

* `stop()` and `finish()` of a host (`session-host.ts:839`) unlink the socket path although it may be a successor's by then, while the
  record is guarded (`:553`).  Such a successor serves and cannot be reached.
* A host started while an earlier one is still coming up may have its record overwritten; both live until the earlier is
  found out.  `startHost` may connect to another host that serves the path.
* An orphan process whose host died is refused as a foreign holder (`claude-instance.ts:384`) until the conversation sleeps or is
  released.  `endProcess` on a stalled host removes the launch record while the process lives.
* A line printed after the exit, by a process that inherited the pipe, still moves the client's cursor (`line-transport.ts:587`).

*Codex.*

* Adoption removes the record of a question the running session holds open (`app-server-session.ts:1146`); the person has been told
  (`unkept`).
* A question asked between the connection and the registration of the session is declined as a subagent's
  (`app-server-instance.ts:732`).
* The restart marker is overwritten when frames of a turn come with the resume answer, and cleared when the listing fails or the
  connection is lost during adoption: the end of such a turn is not reported (`excused`).
* An older frame held during the listing may replace the active turn; a question whose answer was lost with the connection has
  no record any more.

*Claude.*

* `markStarted` (`claude-session.ts:1229`) makes a turn active without ending the active one, so a turn of the CLI's own may get
  no end (`docs/structured-providers.md:614`; `Forgotten`).
* What ends between the initialize answer and the adoption is not seen (`blind`).
* After an interrupt timeout, a request of the turn that still runs opens a turn nothing ends (`deaf`), and a message folded into it is
  reported as had early.
* A lost result followed by an own turn ends that turn instead; a message folded into a turn whose result was lost stays pending
  until a Stop (`lost`).
* A steer dropped by a Stop whose reply timed out is not named; one that prepares while a Stop runs is written afterwards.
* When only the connection to a host is lost, `handleExit` (`:1450`) forgets that open requests were announced; the next
  connection announces them again (`docs/structured-providers.md:253` says a replayed request is not announced again).  `ToldOnce`
  states the once for questions of a shared process only.

*Grok and Vibe.*

* The late signal of a prompt that was interrupted, or that failed, before any content named it ends the next turn: `finishedPrompts` does not
  know it (comment at `grok-session.ts:166`; `onPromptError`, `:417` and `:420`, finalizes without a promptId).  `EndIsOwn` leaves it out
  (`late` is "unknown").
* An adopted Grok turn whose prompt fails stays open until it is interrupted, unless Grok also prints a completed signal: the error answer is
  ignored by a connection that did not send the prompt (`:618`).  The same holds for a turn opened by content of such a prompt.  `TurnsEnd` excepts
  prompts of which Grok says nothing else (`silent`); the repository's stand-in for Grok fails a prompt so
  (`test/helpers/fake-grok.mjs:103`).
*  A wake of Grok's own, under way while a prompt is sent, names the person's turn and ends it.
* An end read between the roster answer and the adoption, or content read while attaching, leaves a turn open until a Stop; so
  does content after an interrupt timeout (`stray`).
* A lost connection deletes Vibe's turn record, so that a reattach does not adopt; without a baseline (first prompt) a turn that ended
  while nobody listened stays open; a prompt queued behind an interrupted one may read as settled.
* A backend that dies between spawn and `session/load` leaves a process the next one takes for a survivor that has the
  conversation; prompts are refused.

## What is left out

* `SessionHost`: stderr, environment scrubbing, arguments, connections that never say hello, ticks and boot ids.
* `HostLifecycle`: the times of the limit on a silent process ("silent before and silent again"), spawn failure, API-key and hook
  refusal, the sweep of orphan hosts.  SIGKILL always works; a process answers the handshake only once registered; a transcript is
  never removed.
* `CodexThread`: items, steering, usage, terminal tracking beyond the busy flag, memory bounds, archived threads, idle recycling.
  One turn of a thread runs at a time, and request ids are not used again after a restart of the app-server (external).
* `ClaudeSession`: items, usage, rate limits, hooks, `MAX_FINISHED_TURNS`, and the priority of a message sent "now".  Writing a message and the
  callback of the write are one step.
* `AcpSession`: Grok without a roster, permissions (always declined), background tasks, settings values, probe, launch policy,
  `MAX_FINISHED_PROMPTS`.  A result is taken to name its prompt, and the roster to list a prompt until it ended (external).
* `MessageDelivery`: exceptions of the file system while the journal is written; a model profile that is being applied
  holds the drain exactly as a manual suspension does and is not a state of its own.
* `RunRecovery`: suspension, a granted restart, a completion that is provisional (Claude's `end_turn`), an observation without a
  transcript path, child activity, the wording of reasons.
* `ConversationRow`: model profiles, turns the transport cannot name yet, the interrupt of a reply that could not be
  steered, manual and pressure suspension (they are in `SessionLaunches`, as one action), and bind by the person.  A row begins bound.
  `terminateHost` and `unload` succeed, where the code logs a failure and goes on (`structured-session-service.ts:514`, `:571`, `:605`).
* `UnattendedWork`: a signal is its key; one recipient and its supervisor; the agent acts only in a turn; the supervisor's stalled signal and the alerts are
  not modelled.
* `SessionLaunches`: memory and free slots are one nondeterministic wait; the order among requests is open; for the drain's gate, suspension,
  queued input and a pause of wakes are one flag (`paused`), and for reconciliation every reason to pass a row over is another (`resting`), so that a
  suspended row with queued input is looked at in the model and is not in the code.  A load outside of the drain is one step.

### Not modelled

Parsing and layout (transcript readers, timeline merge, web client, summaries) compute over the contents of
messages, which every module here abstracts to names; a state machine of them would be their text again, and unit tests over
examples are the better tool.  Wiki, model profiles and repositories change state in one compare-and-set or transaction each, so nothing
interleaves.  Two interleavings of caches are known and left: the order of parses (`lib/provider-conversation-cache.ts:136`) and joined
refreshes (`indexing/indexing-service.ts:138`); a stale entry costs a display until the next refresh.  So is the
wait for a profile change (`session-manager.ts:2159`).  These parts are most of the repository's lines, and are why the
modules cover a small share of it.

## What remains

1. Proofs of the invariants of the Codex and the Claude transport, along the argument of `AcpSessionProofs`.
2. An abstract turn contract (begun once, ended once, questions within it) that the three transports implement and
   `ConversationRow` uses in place of its own provider.
3. Profile changes and suspension of a loaded row in `ConversationRow`.
4. Larger instances where the limits of time allow only one fault today (`CodexThread`, `ClaudeSession`, `UnattendedWork`).
