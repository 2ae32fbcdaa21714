---------------------------- MODULE RunRecovery ----------------------------
(***************************************************************************)
(* Automatic recovery of unattended work, for one session                  *)
(* (sessions/run-recovery.ts, and the callbacks SessionManager gives it).  *)
(*                                                                         *)
(* A turn that fails with a transient error, or a provider process that    *)
(* ends under a turn, is recorded in a failure with a retry budget, which  *)
(* the backend keeps on the row (`visible`) and in its meta table          *)
(* (`budget`).  A timer asks for a retry; the retry runs on the command    *)
(* chain of the session and waits several times: for the run monitor, for  *)
(* the checks and a possible relaunch, and for the provider's answer.      *)
(* Stop, provider events, a lost connection and the death of the backend   *)
(* fall between any two of these.                                          *)
(*                                                                         *)
(* Time is a logical clock.  A timer may be late by any amount.            *)
(***************************************************************************)
EXTENDS Integers, Sequences, FiniteSets

CONSTANTS None,
          Delays,      \* RUN_RETRY_DELAYS_MS
          Window,      \* RECOVERY_MAX_AGE_MS
          AckWait,     \* the 30 s a provider has to begin the turn
          Ops,         \* what may happen: "stop", "restart", "lost", "item", "gate", "relaunch"
          LastEvent,   \* bound: the provider, the person and the network act until then
          MaxTime, MaxTurns, MaxPids, MaxStops, MaxRestarts

ASSUME RecoveryAssumption ==
    /\ Delays \in Seq(Nat \ {0}) /\ Len(Delays) > 0
    /\ { Window, AckWait, LastEvent, MaxTurns, MaxStops, MaxRestarts } \subseteq Nat
    /\ { MaxTime, MaxPids } \subseteq Nat \ {0}

VARIABLES
  now,
  native,       \* what the run monitor reads: the newest run, or None
  turns,        \* turns the provider began
  turn,         \* one of them runs on the connection
  prompt,       \* a recovery prompt the provider has, whose turn it has not begun
  alive,        \* the conversation is loaded on a live connection
  pid,          \* the process the row names
  row,          \* "bound", "starting", "error"
  working,      \* isWorking
  visible,      \* runFailure of the row
  budget,       \* the failure in the meta table
  cancellation, \* the last cancellation: a turn and a time
  unattended,   \* the assignment may go on unattended
  obs,          \* the observation of the session, or None
  queue,        \* commands that wait for the chain
  cmd,          \* the running command, or None
  stops, restarts,
  prompted,     \* history: the failures a prompt was sent for
  spent,        \* history: prompts sent in a row, without output, completion or anybody else's turn
  stopped       \* history: turns begun before the last Stop

clock == now
provider == << native, turns, turn, prompt, alive, pid >>
durable == << row, working, visible, budget, cancellation, unattended >>
memory == << obs, queue, cmd >>
history == << prompted, spent, stopped >>
vars == << clock, provider, durable, memory, stops, restarts, history >>

-----------------------------------------------------------------------------
(***************************************************************************)
(* Runs, failures, observations, commands.                                 *)
(***************************************************************************)

\* The id of the run a lost process leaves behind: `process:<pid>:<startedAt>`.
ProcessTurn(p) == MaxTurns + p

TurnIds == 1..(MaxTurns + MaxPids)
Times == Nat

\* progress is 0 while the turn gave no output.
Run == [turn : TurnIds, status : { "running", "completed", "cancelled", "failed" },
        at : Times, started : Times, progress : Times,
        code : { "none", "transient", "permanent", "process_exited" }]

\* next and submitted are 0 when the code leaves them undefined.
Failure == [turn : TurnIds, failedAt : Times, attempts : 0..Len(Delays), code : { "transient", "permanent", "process_exited" },
            status : { "scheduled", "retrying", "stopped" }, next : Times, submitted : Times]

Timer == [kind : { "retry", "ack" }, due : Times]
Observation == [attached : Times, run : Run \cup {None}, exit : Run \cup {None}, timer : Timer \cup {None}]

\* live: the observation a retry or an acknowledgment check was made for is still the one
\* in the map.
Job == [kind : { "refresh", "retry", "ack", "loss", "reconcile" }, live : BOOLEAN]

\* same: nothing was cancelled since the command took the generation.
Command == [kind : { "refresh", "retry", "ack", "loss", "reconcile" }, live : BOOLEAN, same : BOOLEAN,
            step : { "read", "ask", "relaunch", "submit" }, sent : BOOLEAN]

Cancellation == [turn : TurnIds \cup {None}, at : Times]

ASSUME NoneAssumption == None \notin Run \cup Failure \cup Timer \cup Observation \cup Command \cup Cancellation

Watchable(r) == r \in { "starting", "bound" }

TypeOK ==
    /\ now \in 0..MaxTime /\ turns \in 0..MaxTurns /\ pid \in 1..MaxPids
    /\ native \in Run \cup {None} /\ turn \in BOOLEAN /\ prompt \in BOOLEAN /\ alive \in BOOLEAN
    /\ row \in { "bound", "starting", "error" } /\ working \in BOOLEAN /\ unattended \in BOOLEAN
    /\ visible \in Failure \cup {None} /\ budget \in Failure \cup {None}
    /\ cancellation \in Cancellation \cup {None}
    /\ obs \in Observation \cup {None}
    /\ queue \in Seq(Job) /\ cmd \in Command \cup {None}
    /\ stops \in 0..MaxStops /\ restarts \in 0..MaxRestarts
    /\ prompted \subseteq TurnIds \X Times /\ spent \in Nat /\ stopped \subseteq 1..turns

-----------------------------------------------------------------------------
(***************************************************************************)
(* The store of RunRecovery: a record of the variables its methods change, *)
(* so that a method is a function of it.                                   *)
(***************************************************************************)
Here == [row |-> row, working |-> working, visible |-> visible, budget |-> budget,
         obs |-> obs, queue |-> queue, cmd |-> cmd]

Become(s) ==
    /\ row' = s.row /\ working' = s.working /\ visible' = s.visible /\ budget' = s.budget
    /\ obs' = s.obs /\ queue' = s.queue /\ cmd' = s.cmd

\* RunRecovery.budget: the row's failure before the one in the meta table.
Prior(s) == IF s.visible # None THEN s.visible ELSE s.budget

Waits(s, kind) == \E i \in 1..Len(s.queue) : s.queue[i].kind = kind

\* changed(): a refresh takes its place on the command chain.  A second one in the queue
\* would read what the first one reads.
Changed(s) ==
    IF s.obs = None \/ Waits(s, "refresh") THEN s
    ELSE [s EXCEPT !.queue = Append(@, [kind |-> "refresh", live |-> TRUE])]

ExitOf(f) == [turn |-> f.turn, status |-> "failed", at |-> f.failedAt, started |-> f.failedAt,
              progress |-> 0, code |-> "process_exited"]

Watch(s) ==
    LET prior == Prior(s)
        exit == IF prior # None /\ prior.code = "process_exited" THEN ExitOf(prior) ELSE None
    IN  IF s.obs # None THEN s
        ELSE Changed([s EXCEPT !.obs = [attached |-> now, run |-> None, exit |-> exit, timer |-> None]])

\* What was captured of the observation is not the one in the map any more.
StopWatching(s) ==
    [s EXCEPT !.obs = None,
              !.queue = [i \in DOMAIN s.queue |-> [s.queue[i] EXCEPT !.live = @ /\ s.queue[i].kind \notin { "retry", "ack" }]],
              !.cmd = IF @ = None THEN None ELSE [@ EXCEPT !.live = FALSE]]

\* A session.updated event: the manager starts or stops watching the row.
Publish(s) == IF Watchable(s.row) THEN Watch(s) ELSE StopWatching(s)

ClearTimer(s) == IF s.obs = None THEN s ELSE [s EXCEPT !.obs.timer = None]

HoldsDown(f) == f # None /\ f.status # "retrying"

\* syncSessionWorkingState
Synced(s) == [s EXCEPT !.working = ~HoldsDown(s.visible) /\ turn]

Save(s, f) ==
    LET stored == [s EXCEPT !.visible = f, !.budget = f, !.working = @ /\ ~HoldsDown(f)]
    IN  Publish(IF s.row = "bound" THEN Synced(stored) ELSE stored)

Stopped(f) == [f EXCEPT !.status = "stopped", !.next = 0]

\* schedule(): a timer, unless the window or the attempts are used up.  An observation that
\* was dropped gets none: its timer would find another one in the map and do nothing.
Schedule(s, f) ==
    IF now - f.failedAt > Window \/ f.attempts >= Len(Delays) THEN Save(ClearTimer(s), Stopped(f))
    ELSE IF s.obs = None THEN s
    ELSE [s EXCEPT !.obs.timer = [kind |-> "retry", due |-> IF f.next > now THEN f.next ELSE now]]

-----------------------------------------------------------------------------
(***************************************************************************)
(* refresh(): what an unseen run means for the failure.                    *)
(***************************************************************************)

\* The turn a retry was sent for has begun.
Acknowledge(s, r, prior) ==
    IF r.progress # 0 /\ r.progress >= (IF prior.submitted # 0 THEN prior.submitted ELSE prior.failedAt) THEN Save(s, None)
    ELSE IF s.visible = None THEN s
    ELSE Publish(Synced([s EXCEPT !.budget = prior, !.visible = None]))

\* Mutant of WasCancelled: the time of the cancellation is not looked at.
WasCancelledByTurn(r) == cancellation # None /\ cancellation.turn = r.turn

\* Begun at or before the last cancellation, or the turn it names.
WasCancelled(r) == cancellation # None /\ (cancellation.turn = r.turn \/ r.started <= cancellation.at)

\* Seen to end while watching, or the end of what a retry began.
Fresh(s, r, prior) ==
    \/ r.at >= s.obs.attached
    \/ prior # None /\ prior.status = "retrying" /\ r.at >= prior.submitted /\ now - r.at < Window

Attempts(r, prior) ==
    LET since == IF prior # None /\ prior.submitted # 0 THEN prior.submitted ELSE r.at
        progressed == r.progress # 0 /\ r.progress >= since
    IN  IF prior # None /\ prior.status = "retrying" /\ ~progressed THEN prior.attempts ELSE 0

NewFailure(s, r, prior) ==
    LET attempts == Attempts(r, prior)
        allowed == /\ unattended /\ Fresh(s, r, prior) /\ ~WasCancelled(r)
                   /\ r.code \in { "transient", "process_exited" } /\ attempts < Len(Delays)
    IN  [turn |-> r.turn, failedAt |-> r.at, attempts |-> attempts, code |-> r.code, submitted |-> 0,
         status |-> IF allowed THEN "scheduled" ELSE "stopped",
         next |-> IF allowed THEN now + Delays[attempts + 1] ELSE 0]

\* Mutant of KnownFailure: a scheduled retry is taken to have its timer already.
KnownFailureUnarmed(s, prior, initial) ==
    IF initial /\ prior.status = "retrying" THEN Save(s, [prior EXCEPT !.status = "stopped"]) ELSE s

\* Mutant of KnownFailure: a retry whose outcome is unknown is made again.
KnownFailureReplayed(s, prior, initial) ==
    LET again == [prior EXCEPT !.status = "scheduled", !.next = now]
    IN  IF prior.status = "scheduled" THEN Schedule(s, prior)
        ELSE IF initial /\ prior.status = "retrying" THEN Schedule(Save(s, again), again)
        ELSE s

\* A failure that is already recorded: arm its timer again, or give up a retry that nobody
\* in this backend submitted.
KnownFailure(s, prior, initial) ==
    IF prior.status = "scheduled" THEN Schedule(s, prior)
    ELSE IF initial /\ prior.status = "retrying" THEN Save(s, [prior EXCEPT !.status = "stopped"])
    ELSE s

Failed(s, r, initial) ==
    LET prior == Prior(s)
        failure == NewFailure(s, r, prior)
        saved == Save(s, failure)
    IN  IF prior # None /\ prior.turn = r.turn THEN KnownFailure(s, prior, initial)
        ELSE IF failure.status = "scheduled" THEN Schedule(saved, failure) ELSE saved

\* A turn that did not fail.
Lives(s, r) ==
    LET prior == Prior(s)
    IN  IF r.status = "running" /\ prior # None /\ prior.status = "retrying" /\ r.turn # prior.turn THEN Acknowledge(s, r, prior)
        ELSE IF prior # None THEN Save(s, None) ELSE s

Unseen(s, r) == r # None /\ r # s.obs.run

Observe(s, r) ==
    LET initial == s.obs.run = None
        seen == [s EXCEPT !.obs.run = r]
    IN  IF s.row # "bound" THEN seen
        ELSE IF r.status = "failed" THEN Failed(ClearTimer(Synced(seen)), r, initial)
        ELSE Lives(ClearTimer(Synced(seen)), r)

\* A process failure stands until the monitor has something newer.
ExitStands(s) == IF s.obs.exit # None /\ native # None /\ native.at > s.obs.exit.at THEN None ELSE s.obs.exit

Latest(s) == IF ExitStands(s) # None THEN ExitStands(s) ELSE native

\* The end of refresh(): nothing if the session was cancelled or is not watched any more.
Current == cmd.live /\ cmd.same /\ obs # None
Refreshed(s) ==
    LET kept == [s EXCEPT !.obs.exit = ExitStands(s)]
    IN  IF ~cmd.live \/ s.obs = None THEN s
        ELSE IF Current /\ Unseen(s, Latest(s)) THEN Observe(kept, Latest(s)) ELSE kept

\* onRunState: a turn cancelled on the provider's side ends unattended work.
Pauses == Current /\ Unseen(Here, Latest(Here)) /\ Latest(Here).status = "cancelled"

Finish(s) == [s EXCEPT !.cmd = None]
Step(s, step) == [s EXCEPT !.cmd.step = step]

-----------------------------------------------------------------------------
(***************************************************************************)
(* The provider, the network, and the clock (external).                    *)
(***************************************************************************)
Eventful == now < LastEvent

Tick ==
    /\ now < MaxTime
    /\ now' = now + 1
    /\ UNCHANGED << provider, durable, memory, stops, restarts, history >>

\* A turn begins: of the prompt the provider has, or of a person, a peer or the provider itself.
TurnStarts ==
    /\ Eventful /\ alive /\ ~turn /\ turns < MaxTurns
    /\ turns' = turns + 1 /\ turn' = TRUE /\ prompt' = FALSE
    /\ native' = [turn |-> turns', status |-> "running", at |-> now, started |-> now, progress |-> 0, code |-> "none"]
    /\ spent' = IF prompt THEN spent ELSE 0
    /\ Become(Changed(Publish([Here EXCEPT !.working = ~HoldsDown(visible)])))
    /\ UNCHANGED << clock, alive, pid, cancellation, unattended, stops, restarts, prompted, stopped >>

ItemCompleted ==
    /\ Eventful /\ "item" \in Ops /\ turn /\ native.progress # now
    /\ native' = [native EXCEPT !.progress = now]
    /\ spent' = 0
    /\ Become(IF visible # None THEN Changed(Here) ELSE Here)
    /\ UNCHANGED << clock, turns, turn, prompt, alive, pid, cancellation, unattended, stops, restarts, prompted, stopped >>

Ended(r, status, code) == [r EXCEPT !.status = status, !.at = now, !.code = code]
Ends == { << "completed", "none" >>, << "cancelled", "none" >>, << "failed", "transient" >>, << "failed", "permanent" >> }

TurnEnds(status, code) ==
    /\ Eventful /\ turn
    /\ native' = Ended(native, status, code) /\ turn' = FALSE
    /\ spent' = IF status = "completed" THEN 0 ELSE spent
    /\ Become(Changed(Publish([Here EXCEPT !.working = FALSE])))
    /\ UNCHANGED << clock, turns, prompt, alive, pid, cancellation, unattended, stops, restarts, prompted, stopped >>

\* The connection ends, with or without the process.  A prompt nothing was heard of is gone.
ConnectionLost ==
    /\ Eventful /\ "lost" \in Ops /\ alive
    /\ alive' = FALSE /\ turn' = FALSE /\ prompt' = FALSE
    /\ queue' = Append(queue, [kind |-> "loss", live |-> TRUE])
    /\ UNCHANGED << clock, native, turns, pid, durable, obs, cmd, stops, restarts, prompted, spent, stopped >>

-----------------------------------------------------------------------------
(***************************************************************************)
(* What does not wait for the command chain.                               *)
(***************************************************************************)

\* Stop, or a message of the person: RunRecovery.cancel and pauseAutomaticInput.
Cancel ==
    LET prior == Prior(Here)
        cleared == ClearTimer([Here EXCEPT !.cmd = IF @ = None THEN None ELSE [@ EXCEPT !.same = FALSE]])
    IN  /\ Eventful /\ "stop" \in Ops /\ stops < MaxStops
        /\ stops' = stops + 1
        /\ unattended' = FALSE
        /\ cancellation' = [turn |-> IF obs # None /\ obs.run # None THEN obs.run.turn ELSE None, at |-> now]
        /\ Become(IF prior # None /\ prior.status # "stopped" THEN Save(cleared, Stopped(prior)) ELSE cleared)
        /\ stopped' = 1..turns /\ spent' = 0
        /\ UNCHANGED << clock, provider, restarts, prompted >>

\* The assignment is allowed to go on unattended again.
Permit ==
    /\ Eventful /\ ~unattended
    /\ unattended' = TRUE
    /\ UNCHANGED << clock, provider, row, working, visible, budget, cancellation, memory, stops, restarts, history >>

TimerFires ==
    /\ obs # None /\ obs.timer # None /\ obs.timer.due <= now
    /\ obs' = [obs EXCEPT !.timer = None]
    /\ queue' = Append(queue, [kind |-> obs.timer.kind, live |-> TRUE])
    /\ UNCHANGED << clock, provider, durable, cmd, stops, restarts, history >>

\* The reconcile interval, for a row whose conversation is not loaded.
Reconcile ==
    /\ ~alive \/ row # "bound" \/ obs = None
    /\ ~Waits(Here, "reconcile") /\ (cmd # None => cmd.kind # "reconcile")
    /\ queue' = Append(queue, [kind |-> "reconcile", live |-> TRUE])
    /\ UNCHANGED << clock, provider, durable, obs, cmd, stops, restarts, history >>

\* The backend dies and starts again.  The turn it leaves may end before the next backend
\* reads the transcript.
Leftovers ==
    { native } \cup
    (IF turn THEN { Ended(native, "completed", "none"), Ended(native, "failed", "transient") } ELSE {})

Restart ==
    /\ Eventful /\ "restart" \in Ops /\ restarts < MaxRestarts
    /\ restarts' = restarts + 1
    /\ alive' = FALSE /\ turn' = FALSE /\ prompt' = FALSE
    /\ native' \in Leftovers
    /\ spent' = IF native' # None /\ native'.status = "completed" THEN 0 ELSE spent
    /\ obs' = None /\ queue' = << >> /\ cmd' = None
    /\ UNCHANGED << clock, turns, pid, durable, stops, prompted, stopped >>

-----------------------------------------------------------------------------
(***************************************************************************)
(* Commands.                                                               *)
(***************************************************************************)
Reading(s, kind) ==
    [s EXCEPT !.cmd = [kind |-> kind, live |-> TRUE, same |-> TRUE, step |-> "read", sent |-> FALSE]]

\* The head of the chain starts.  A timer's command whose observation is gone does nothing.
BeginRun ==
    /\ cmd = None /\ queue # << >> /\ Head(queue).kind \in { "refresh", "retry", "ack" }
    /\ LET rest == [Here EXCEPT !.queue = Tail(@)]
       IN  Become(IF Head(queue).live /\ obs # None THEN Reading(rest, Head(queue).kind) ELSE rest)
    /\ UNCHANGED << clock, provider, cancellation, unattended, stops, restarts, history >>

ExitRun == [turn |-> ProcessTurn(pid), status |-> "failed", at |-> now, started |-> now,
            progress |-> 0, code |-> "process_exited"]

\* processExited(): a failure of the process, unless one stands or recovery is stopped.
ProcessExited(s, kind) ==
    IF Prior(s) # None /\ Prior(s).status = "stopped" THEN s
    ELSE Reading(IF s.obs.exit = None THEN [s EXCEPT !.obs.exit = ExitRun] ELSE s, kind)

\* restoreStructuredSession: the row is starting, unless it failed to start before.
Relaunching(s) ==
    Step(IF s.row = "error" THEN s ELSE Publish([s EXCEPT !.row = "starting", !.working = FALSE]), "relaunch")

\* What a reconcile does once a lost turn is settled: watch what recovery owes, retry a
\* restore that failed or was cut off.
Settled(s) ==
    LET watched == IF Watchable(s.row) /\ (s.visible # None \/ unattended) THEN Watch(s) ELSE s
    IN  IF s.row = "bound" THEN Finish(watched)
        ELSE Relaunching(Reading(watched, "reconcile"))

\* A turn found running: for the monitor it starts now, so that of a Stop before it only one
\* that named the turn is remembered.
Adopts ==
    /\ native # None /\ native.status = "running"
    /\ native' = [native EXCEPT !.at = now, !.started = now, !.progress = 0]
    /\ turn' = TRUE
    /\ stopped' = IF cancellation # None /\ cancellation.turn = native.turn THEN stopped ELSE stopped \ { native.turn }

\* adoptStructuredSurvivor, for a row whose turn the last backend left running.
AdoptSurvivor ==
    /\ cmd = None /\ queue # << >> /\ Head(queue).kind = "reconcile" /\ ~alive /\ working
    /\ Eventful /\ restarts > 0 /\ Adopts
    /\ alive' = TRUE
    /\ Become(Changed(Publish([Here EXCEPT !.queue = Tail(@), !.row = "bound"])))
    /\ UNCHANGED << clock, turns, prompt, pid, cancellation, unattended, stops, restarts, prompted, spent >>

\* handleStructuredConnectionLoss: the row stops working, and unattended work that was cut off
\* is recovered.  The monitor forgets what the connection told it and reads the same run from
\* the transcript.
BeginLoss ==
    /\ cmd = None /\ queue # << >>
    /\ \/ Head(queue).kind = "loss"
       \/ Head(queue).kind = "reconcile" /\ ~alive /\ working
    /\ LET rest == [Here EXCEPT !.queue = Tail(@), !.working = FALSE]
           lost == Publish(rest)
           kind == Head(queue).kind
           next == IF working /\ unattended THEN ProcessExited(lost, kind) ELSE lost
       IN  Become(IF kind = "reconcile" /\ next.cmd = None THEN Settled(next) ELSE next)
    /\ UNCHANGED << clock, provider, cancellation, unattended, stops, restarts, history >>

BeginReconcile ==
    /\ cmd = None /\ queue # << >> /\ Head(queue).kind = "reconcile" /\ (alive \/ ~working)
    /\ LET rest == [Here EXCEPT !.queue = Tail(@)]
       IN  Become(IF alive THEN Publish([rest EXCEPT !.row = "bound"]) ELSE Settled(rest))
    /\ UNCHANGED << clock, provider, cancellation, unattended, stops, restarts, history >>

\* retry(): go on to the checks if the failure still waits and its time has come.
Due(s) == s.visible # None /\ s.visible.status = "scheduled" /\ cmd.same /\ s.visible.next <= now

\* The acknowledgment check of a submitted retry.
Unacknowledged(s) ==
    /\ s.visible # None /\ s.visible.status = "retrying"
    /\ s.obs # None /\ s.obs.run # None /\ s.obs.run.turn = s.visible.turn /\ s.obs.run.status = "failed"

ReadEnds ==
    /\ cmd # None /\ cmd.step = "read"
    /\ LET s == Refreshed(Here)
       IN  Become(CASE cmd.kind \in { "refresh", "loss" } -> Finish(s)
                    [] cmd.kind = "reconcile" -> Settled(s)
                    [] cmd.kind = "retry" -> IF Due(s) THEN Step(s, "ask") ELSE Finish(s)
                    [] cmd.kind = "ack" -> Finish(IF Unacknowledged(s) THEN Save(s, [s.visible EXCEPT !.status = "stopped"]) ELSE s))
    /\ unattended' = (unattended /\ ~Pauses)
    /\ UNCHANGED << clock, provider, cancellation, stops, restarts, history >>

-----------------------------------------------------------------------------
\* The retry is still the one to make after an await.
StillScheduled(s) == s.cmd.live /\ s.cmd.same /\ s.visible # None /\ s.visible.status = "scheduled"

Relaunchable(f) == f.code = "process_exited" /\ now - f.failedAt <= Window

\* A retry that may not be made: a failed relaunch waits for the next delay, everything
\* else stops recovery.
Blocked(s, relaunchFailed) ==
    LET f == s.visible
        attempts == f.attempts + 1
        next == [f EXCEPT !.attempts = attempts, !.next = now + Delays[attempts + 1]]
    IN  IF relaunchFailed /\ Relaunchable(f) /\ attempts < Len(Delays) THEN Schedule(Save(s, next), next)
        ELSE IF relaunchFailed /\ Relaunchable(f) THEN Save(s, Stopped([f EXCEPT !.attempts = attempts]))
        ELSE Save(s, Stopped(f))

\* The attempt is saved before the provider is asked.
Submitting(s, sent) ==
    LET f == s.visible
        saved == Save(s, [f EXCEPT !.attempts = @ + 1, !.status = "retrying", !.next = 0, !.submitted = now])
    IN  [Step(saved, "submit") EXCEPT !.cmd.sent = sent]

Unsent == UNCHANGED << prompt, prompted, spent >>

\* retry() from the answer of canRetry on.  The prompt leaves with the attempt, or it turns
\* out later that it did not.
Checked(s, ready, relaunchFailed) ==
    IF ~StillScheduled(s) THEN Become(Finish(s)) /\ Unsent
    ELSE IF ~ready \/ now - s.visible.failedAt > Window THEN Become(Finish(Blocked(s, relaunchFailed))) /\ Unsent
    ELSE \/ Become(Submitting(s, FALSE)) /\ Unsent
         \/ /\ Become(Submitting(s, TRUE))
            /\ prompt' = TRUE /\ spent' = spent + 1
            /\ prompted' = prompted \cup { << s.visible.turn, s.visible.failedAt >> }

\* The row canRetry accepts.
Owned == row = "bound" \/ (row = "error" /\ visible # None /\ visible.code = "process_exited")

\* canRetry without a relaunch.  The gate stands for pause, memory, queued input, a pending
\* model change and a disabled project.
ChecksEnd ==
    /\ cmd # None /\ cmd.step = "ask"
    /\ \/ ~unattended /\ Checked(Here, FALSE, FALSE)
       \/ ~Owned /\ Checked(Here, FALSE, FALSE)
       \/ "gate" \in Ops /\ Checked(Here, FALSE, FALSE)
       \/ unattended /\ Owned /\ alive /\ Checked(Here, ~turn, FALSE)
       \/ unattended /\ Owned /\ ~alive /\ Become(Relaunching(Here)) /\ Unsent
    /\ UNCHANGED << clock, native, turns, turn, alive, pid, cancellation, unattended, stops, restarts, stopped >>

\* The conversation is loaded again, by a new process, or by the one that is still there and
\* may still run its turn.
RelaunchSucceeds ==
    /\ cmd # None /\ cmd.step = "relaunch" /\ Eventful
    /\ alive' = TRUE
    /\ \/ pid' \in { pid, pid + 1 } \cap (1..MaxPids) /\ UNCHANGED << native, turn, stopped >>
       \/ Adopts /\ UNCHANGED pid
    /\ LET s == Publish([Here EXCEPT !.row = "bound"])
           found == IF turn' THEN Changed([s EXCEPT !.working = ~HoldsDown(s.visible)]) ELSE s
       IN  IF cmd.kind = "retry" THEN Checked(found, unattended /\ ~turn', FALSE) ELSE Become(Finish(found)) /\ Unsent
    /\ UNCHANGED << clock, turns, cancellation, unattended, stops, restarts >>

\* recordRestoreFailure: the event that follows makes the manager stop watching.
RelaunchFails ==
    /\ cmd # None /\ cmd.step = "relaunch" /\ Eventful /\ "relaunch" \in Ops
    /\ LET s == IF row = "error" THEN Here ELSE Publish([Here EXCEPT !.row = "error"])
       IN  IF cmd.kind = "retry" THEN Checked(s, FALSE, TRUE) ELSE Become(Finish(s)) /\ Unsent
    /\ UNCHANGED << clock, native, turns, turn, alive, pid, cancellation, unattended, stops, restarts, stopped >>

-----------------------------------------------------------------------------
\* submit() returned: the 30 s for the provider to begin the turn.
Submitted(s) ==
    LET current == s.cmd.live /\ s.cmd.same /\ s.visible # None /\ s.visible.status = "retrying"
        told == [s EXCEPT !.working = TRUE]
    IN  IF current THEN [told EXCEPT !.obs.timer = [kind |-> "ack", due |-> now + AckWait]] ELSE told

\* Certainly not sent: the attempt is given back and waits one more delay.
Deferred(s) ==
    LET f == s.visible
        given == f.attempts - 1
        delay == Delays[IF given < Len(Delays) THEN given + 1 ELSE Len(Delays)]
        next == [f EXCEPT !.attempts = given, !.status = "scheduled", !.submitted = 0, !.next = now + delay]
    IN  IF s.cmd.live /\ s.cmd.same /\ f # None /\ f.status = "retrying" THEN Schedule(Save(s, next), next) ELSE s

\* Refused for good, or nobody knows.
GivenUp(s) == IF s.visible # None /\ s.visible.status # "stopped" THEN Save(s, [s.visible EXCEPT !.status = "stopped", !.next = 0]) ELSE s

SubmitEnds ==
    /\ cmd # None /\ cmd.step = "submit"
    /\ \/ cmd.sent /\ alive /\ Become(Finish(Submitted(Here)))
       \/ ~cmd.sent /\ Become(Finish(Deferred(Here)))
       \/ Become(Finish(GivenUp(Here)))
    /\ UNCHANGED << clock, provider, cancellation, unattended, stops, restarts, history >>

-----------------------------------------------------------------------------
Init ==
    /\ now = 1 /\ native = None /\ turns = 0 /\ turn = FALSE /\ prompt = FALSE /\ alive = TRUE /\ pid = 1
    /\ row = "bound" /\ working = FALSE /\ visible = None /\ budget = None /\ cancellation = None /\ unattended = TRUE
    /\ obs = [attached |-> 1, run |-> None, exit |-> None, timer |-> None]
    /\ queue = << >> /\ cmd = None /\ stops = 0 /\ restarts = 0
    /\ prompted = {} /\ spent = 0 /\ stopped = {}

CommandStep ==
    \/ BeginRun \/ BeginLoss \/ BeginReconcile \/ AdoptSurvivor
    \/ ReadEnds \/ ChecksEnd \/ RelaunchSucceeds \/ RelaunchFails \/ SubmitEnds

Next ==
    \/ Tick \/ TurnStarts \/ ItemCompleted \/ ConnectionLost
    \/ \E e \in Ends : TurnEnds(e[1], e[2])
    \/ Cancel \/ Permit \/ TimerFires \/ Reconcile \/ Restart
    \/ CommandStep

Spec == Init /\ [][Next]_vars

-----------------------------------------------------------------------------
(***************************************************************************)
(* What recovery must not do.                                              *)
(***************************************************************************)

\* A prompt leaves for the provider.
Sends == spent' > spent

\* A failure is answered by one prompt at most, whatever became of that prompt: an answer
\* that never came, a backend that died before it, a relaunch, a Stop and a new permission
\* (retry() saves the attempt before it submits; refresh() gives up what it finds submitted).
OnePromptPerFailure == [][ Sends => << visible.turn, visible.failedAt >> \notin prompted ]_vars

\* A turn that had begun when the person pressed Stop is never continued, also when the
\* monitor had not seen it yet, when unattended work was allowed again before it failed, and
\* when the backend restarted in between (cancel() and `cancelled` in refresh()).  The code
\* does not keep this for a turn that Stop could not name and that a later backend or
\* connection found running: Adopts takes it out of `stopped`.
NothingForStoppedTurn == [][ Sends => visible.turn \notin stopped ]_vars

\* Commands and their awaits are over.
AtRest == cmd = None /\ queue = << >>
Status == IF visible = None THEN "none" ELSE visible.status

\* A retry the row announces comes, and one that was submitted is acknowledged or stopped when
\* its time is over: the observation has a timer as long as the row is watched, after every
\* order of refreshes, losses, relaunches and restarts (refresh() clears the timer before it
\* decides, and schedule() and submit() set it again).
AnnouncedRetryHasTimer ==
    AtRest /\ Status \in { "scheduled", "retrying" } /\ obs # None /\ row = "bound" => obs.timer # None

=============================================================================
