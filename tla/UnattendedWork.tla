--------------------------- MODULE UnattendedWork ---------------------------
(***************************************************************************)
(* Automatic prompts of one assignment: the continuation of work the       *)
(* person allowed to go on unattended (coordination/continuation.ts), and  *)
(* the wake for an urgent message or a task its supervisor dispatched      *)
(* (coordination/service.ts).  Both are sent by one pass over the          *)
(* assignments (drainAssignments in sessions/session-manager.ts), which    *)
(* runs under the command chain of the session and awaits several times.      *)
(* Between any two of its awaits the person presses Stop, the agent        *)
(* declares what it does, mail and worker results arrive, a grant is       *)
(* decided or the backend dies.                                            *)
(*                                                                         *)
(* Time is abstracted: whatever waits for a moment (a delay, a cool-down,  *)
(* a retry) may find it reached or not, at every pass.                     *)
(***************************************************************************)
EXTENDS Integers, FiniteSets, Sequences

CONSTANTS Urgent,        \* messages sent as P1
          Dispatches,    \* tasks handed over by the supervisor
          Signals,       \* results of workers and native children, each with a key of its own
          MaxSignals,    \* the 16 signals that are kept (signalContinuation)
          MaxSeen,       \* the 128 keys that are remembered
          Limit,         \* CONTINUATION_DELAYS_MS.length
          MaxRevision,   \* bound: changes of the permission, and of the task
          MaxMail,       \* bound: messages that arrive
          MaxTurns,      \* bound: turns nobody here asked for
          MaxFaults      \* bound: restarts and failed restores

Mail == Urgent \cup Dispatches

ASSUME LimitAssumption == Limit \in Nat \ {0}
ASSUME SignalAssumption == MaxSignals \in Nat \ {0} /\ MaxSeen \in Nat \ {0}
ASSUME MailAssumption == Urgent \cap Dispatches = {}
ASSUME BoundAssumption == MaxRevision \in Nat /\ MaxMail \in Nat /\ MaxTurns \in Nat /\ MaxFaults \in Nat

VARIABLES
  control,     \* ContinuationControl of the assignment
  paused,      \* peerWakePaused
  finished,    \* the assignment is finished
  task,        \* its task on the supervisor's board: state and revision
  box,         \* per message: on its way, in the inbox, supplied, settled (acknowledged or expired)
  first,       \* per message: the attempt recorded for it (PeerWakeAttempt)
  second,      \* per message: the attempt of its one follow-up
  handed,      \* per dispatch: the task revision it hands over
  alive,       \* the conversation is loaded
  turn,        \* the provider runs a turn
  coming,      \* the provider has a prompt and no turn of it yet
  working,     \* isWorking of the row
  acked,       \* the provider began a turn since the last work prompt was recorded
  answered,    \* messages whose first prompt was followed by a completed turn
  pc,          \* the await the pass stands in
  call,        \* what the pass carries over its awaits
  prompts,     \* history: work prompts that may have reached the provider, in this permission
  unsure,      \* history: of these, one whose outcome nobody knows
  tries,       \* history: prompts sent for each message
  unsureMail,  \* history: messages with a prompt whose outcome nobody knows
  owed,        \* history: per signal accepted in this permission and in no prompt that was taken,
               \* by how many acceptances it is among the newest MaxSignals still; 0 for any other
  quiet,       \* history: the person stopped automatic input and has not spoken since
  turns, faults

agentVars  == << finished, task >>
mailVars   == << box, handed >>
tryVars    == << first, second >>
runVars    == << turn, coming, acked, answered >>
passVars   == << pc, call >>
sentVars   == << prompts, unsure, tries, unsureMail >>
boundVars  == << turns, faults >>
vars == << control, paused, agentVars, mailVars, tryVars, alive, runVars, working,
           passVars, sentVars, owed, quiet, boundVars >>

\* What an action of the outside world leaves alone besides what it names.
passAndBox == << mailVars, tryVars, passVars, boundVars >>
provider   == << alive, runVars, working >>

Permissions == { "waiting", "unattended" }
Recoveries == { "none", "scheduled", "submitting", "submitted", "blocked", "stalled" }
Attempts   == { "none", "submitting", "submitted", "failed", "deferred" }
Stages     == { "idle", "acknowledging", "project", "restoring", "refreshing", "sending" }

Control ==
    [ permission : Permissions, revision : Nat, awaiting : BOOLEAN,
      recovery : Recoveries, attempts : Nat, signals : Seq(Signals), seen : Seq(Signals) ]
Calls == [ work : BOOLEAN, revision : Nat, again : SUBSET Mail, fresh : SUBSET Mail,
           consumed : SUBSET Signals, reached : BOOLEAN ]

NoCall == [ work |-> FALSE, revision |-> 0, again |-> {}, fresh |-> {}, consumed |-> {}, reached |-> FALSE ]

\* What a list holds, its newest n members, and what is left of it without the members of a set.
Keys(q) == { q[i] : i \in DOMAIN q }
Newest(q, n) == IF Len(q) <= n THEN q ELSE SubSeq(q, Len(q) - n + 1, Len(q))
Without(q, dropped) ==
    LET left == { i \in DOMAIN q : q[i] \notin dropped }
    IN  [ n \in 1 .. Cardinality(left) |->
            q[CHOOSE i \in left : Cardinality({ k \in left : k <= i }) = n] ]

NothingOwed == [ s \in Signals |-> 0 ]

TypeOK ==
    /\ control \in Control
    /\ paused \in BOOLEAN /\ finished \in BOOLEAN /\ quiet \in BOOLEAN
    /\ task \in [ state : { "none", "working", "blocked", "done" }, revision : Nat ]
    /\ box \in [ Mail -> { "unsent", "inbox", "supplied", "settled" } ]
    /\ first \in [ Mail -> Attempts ] /\ second \in [ Mail -> Attempts ]
    /\ handed \in [ Dispatches -> Nat ]
    /\ alive \in BOOLEAN /\ turn \in BOOLEAN /\ coming \in BOOLEAN
    /\ working \in BOOLEAN /\ acked \in BOOLEAN /\ answered \subseteq Mail
    /\ pc \in Stages /\ call \in Calls
    /\ prompts \in Nat /\ unsure \in BOOLEAN
    /\ tries \in [ Mail -> Nat ] /\ unsureMail \subseteq Mail
    /\ owed \in [ Signals -> 0 .. MaxSignals ]
    /\ turns \in Nat /\ faults \in Nat

\* The assignment as a backend finds it, before anything was prompted.
Init ==
    /\ \E permission \in Permissions :
         control = [ permission |-> permission, revision |-> 0, awaiting |-> FALSE,
                     recovery |-> "none", attempts |-> 0, signals |-> << >>, seen |-> << >> ]
    /\ paused = FALSE /\ finished = FALSE /\ quiet = FALSE
    /\ task = [ state |-> "none", revision |-> 0 ]
    /\ box = [ m \in Mail |-> "unsent" ]
    /\ first = [ m \in Mail |-> "none" ] /\ second = [ m \in Mail |-> "none" ]
    /\ handed = [ d \in Dispatches |-> 0 ]
    /\ alive \in BOOLEAN /\ turn = FALSE /\ coming = FALSE
    /\ working = FALSE /\ acked = FALSE /\ answered = {}
    /\ pc = "idle" /\ call = NoCall
    /\ prompts = 0 /\ unsure = FALSE
    /\ tries = [ m \in Mail |-> 0 ] /\ unsureMail = {} /\ owed = NothingOwed
    /\ turns = 0 /\ faults = 0

-----------------------------------------------------------------------------
(* The permission.                                                         *)

Unattended == control.permission = "unattended"

\* setContinuation(): a new permission, or none, forgets signals, recovery and wait.
SetContinuation(permission) ==
    /\ control.revision < MaxRevision
    /\ control' = [ control EXCEPT !.permission = permission, !.revision = @ + 1, !.awaiting = FALSE,
                                   !.recovery = "none", !.attempts = 0, !.signals = << >> ]
    /\ prompts' = 0 /\ unsure' = FALSE /\ owed' = NothingOwed

\* pauseAutomaticInput(): the person speaks, stops or suspends; every wake waits from here.
PauseAutomaticInput ==
    /\ paused' = TRUE
    /\ SetContinuation("waiting")

\* Stop, a suspension, a release, or a message that is requested and not yet accepted.
PersonInterrupts ==
    /\ PauseAutomaticInput
    /\ quiet' = TRUE
    /\ UNCHANGED << agentVars, passAndBox, provider, tries, unsureMail >>

\* A message of the person reached the provider (appendEvent): wakes may go on.
PersonSpeaks ==
    /\ pc = "idle" /\ ~turn
    /\ turns < MaxTurns
    /\ paused' = FALSE /\ quiet' = FALSE
    /\ alive' = TRUE /\ coming' = TRUE
    /\ turns' = turns + 1
    /\ UNCHANGED << control, agentVars, mailVars, tryVars, turn, acked, answered, working, passVars,
                    sentVars, owed, faults >>

\* The agent, in its turn, allows more unattended work or asks the person (update()).  An
\* update of a finished assignment begins another one.
AgentSetsContinuation(permission) ==
    /\ turn
    /\ finished' = FALSE
    /\ SetContinuation(permission)
    /\ UNCHANGED << paused, task, passAndBox, provider, tries, unsureMail, quiet >>

\* A grant of the person is approved, or the last one of a launched session revoked
\* (decide(), pauseUnsupportedSessions()).
GrantDecided(permission) ==
    /\ ~finished
    /\ SetContinuation(permission)
    /\ UNCHANGED << paused, agentVars, passAndBox, provider, tries, unsureMail, quiet >>

\* setAwaiting(): an external result is awaited, or no longer.  A declared wait acknowledges
\* the prompt that was taken.
SetAwaiting(waits) ==
    /\ turn /\ ~finished
    /\ waits => Unattended
    /\ control.revision < MaxRevision
    /\ control' = [ control EXCEPT !.awaiting = waits, !.revision = @ + 1,
                      !.recovery = IF waits /\ @ = "submitted" THEN "scheduled" ELSE @ ]
    /\ UNCHANGED << paused, agentVars, passAndBox, provider, sentVars, owed, quiet >>

\* A signal that is taken is owed to the agent; each of the others is one nearer to being the
\* oldest that is kept.
Owes(s) == owed' = [ x \in Signals |-> IF x = s THEN MaxSignals
                                       ELSE IF owed[x] > 0 THEN owed[x] - 1 ELSE 0 ]

\* Mutant: a fresh result renews the budget.
SignalRenewsBudget(s) ==
    /\ Unattended /\ s \notin Keys(control.seen)
    /\ control' = [ control EXCEPT !.seen = Newest(Append(@, s), MaxSeen),
                                   !.signals = Newest(Append(@, s), MaxSignals), !.recovery = "none" ]
    /\ Owes(s)
    /\ UNCHANGED << paused, agentVars, passAndBox, provider, sentVars, quiet >>

\* signalContinuation(): a fact is taken once, and only into a permission that is there.  The
\* newest signals are kept; one more drops the oldest.  A key that was
\* forgotten may be taken again.
SignalContinuation(s) ==
    /\ Unattended /\ s \notin Keys(control.seen)
    /\ control' = [ control EXCEPT !.seen = Newest(Append(@, s), MaxSeen),
                                   !.signals = Newest(Append(@, s), MaxSignals) ]
    /\ Owes(s)
    /\ UNCHANGED << paused, agentVars, passAndBox, provider, sentVars, quiet >>

-----------------------------------------------------------------------------
(* The agent and its supervisor.                                           *)

\* updateTask(): a task that changes gets a new revision.
AgentUpdatesTask(state) ==
    /\ turn /\ ~finished
    /\ task.state \notin { "none", state }
    /\ task.revision < MaxRevision
    /\ task' = [ state |-> state, revision |-> task.revision + 1 ]
    /\ UNCHANGED << control, paused, finished, passAndBox, provider, sentVars, owed, quiet >>

\* finish(): the permission ends with the assignment.
Finish ==
    /\ turn /\ ~finished
    /\ finished' = TRUE
    /\ SetContinuation("waiting")
    /\ task' = IF task.state = "none" THEN task ELSE [ task EXCEPT !.state = "done" ]
    /\ UNCHANGED << paused, passAndBox, provider, tries, unsureMail, quiet >>

Arrives(m) == box[m] = "unsent" /\ Cardinality({ n \in Mail : box[n] # "unsent" }) < MaxMail

\* send() with priority P1.
SendUrgent(m) ==
    /\ Arrives(m)
    /\ box' = [ box EXCEPT ![m] = "inbox" ]
    /\ UNCHANGED << control, paused, agentVars, handed, tryVars, passVars, boundVars, provider, sentVars, owed, quiet >>

\* dispatch(): a task is handed over, once per revision of it.
Dispatch(d) ==
    /\ Arrives(d)
    /\ ~finished /\ Unattended /\ ~control.awaiting /\ ~paused
    /\ control.recovery \notin { "blocked", "stalled" }
    /\ \E to \in { task.revision, task.revision + 1 } :
         /\ to = task.revision => task.state = "working"
         /\ \A e \in Dispatches : handed[e] # to
         /\ to <= MaxRevision
         /\ task' = [ state |-> "working", revision |-> to ]
         /\ handed' = [ handed EXCEPT ![d] = to ]
    /\ box' = [ box EXCEPT ![d] = "inbox" ]
    /\ UNCHANGED << control, paused, finished, tryVars, passVars, boundVars, provider, sentVars, owed, quiet >>

\* The agent reads its inbox in a turn (poll(), mail()), or acknowledges what it read.
MailRead(m) ==
    /\ turn
    /\ \/ box[m] = "inbox" /\ box' = [ box EXCEPT ![m] = "supplied" ]
       \/ box[m] = "supplied" /\ box' = [ box EXCEPT ![m] = "settled" ]
    /\ UNCHANGED << control, paused, agentVars, handed, tryVars, passVars, boundVars, provider, sentVars, owed, quiet >>

\* expireMessages().
MailExpires(m) ==
    /\ box[m] \in { "inbox", "supplied" }
    /\ box' = [ box EXCEPT ![m] = "settled" ]
    /\ UNCHANGED << control, paused, agentVars, handed, tryVars, passVars, boundVars, provider, sentVars, owed, quiet >>

-----------------------------------------------------------------------------
(* The provider.                                                           *)

TurnStarts ==
    /\ alive /\ coming /\ ~turn
    /\ turn' = TRUE /\ coming' = FALSE /\ acked' = TRUE /\ working' = TRUE
    /\ UNCHANGED << control, paused, agentVars, passAndBox, alive, answered, sentVars, owed, quiet >>

TurnEnds ==
    /\ turn
    /\ turn' = FALSE /\ working' = FALSE
    /\ \E completed \in BOOLEAN :
         answered' = IF completed THEN answered \cup { m \in Mail : first[m] = "submitted" } ELSE answered
    /\ UNCHANGED << control, paused, agentVars, passAndBox, alive, coming, acked, sentVars, owed, quiet >>

\* A prompt the provider never begins: the row stops reading working after a while.
WorkingExpires ==
    /\ working /\ ~turn
    /\ working' = FALSE /\ coming' = FALSE
    /\ UNCHANGED << control, paused, agentVars, passAndBox, alive, turn, acked, answered, sentVars, owed, quiet >>

\* The conversation sleeps.
Unload ==
    /\ pc = "idle" /\ alive /\ ~turn /\ ~coming /\ ~working
    /\ alive' = FALSE
    /\ UNCHANGED << control, paused, agentVars, passAndBox, runVars, working, sentVars, owed, quiet >>

\* The connection to the provider breaks, whatever stands in flight.
ConnectionLost ==
    /\ alive /\ faults < MaxFaults
    /\ faults' = faults + 1
    /\ alive' = FALSE /\ turn' = FALSE /\ coming' = FALSE /\ working' = FALSE
    /\ UNCHANGED << control, paused, agentVars, mailVars, tryVars, acked, answered, passVars,
                    sentVars, owed, quiet, turns >>

-----------------------------------------------------------------------------
(* What may be prompted.                                                   *)

\* dispatchEligible(): the task handed over is still the one on the board, and may be worked on.
DispatchEligible(d) ==
    /\ handed[d] = task.revision /\ task.state = "working"
    /\ ~finished /\ ~paused
    /\ Unattended /\ ~control.awaiting
    /\ control.recovery \notin { "blocked", "stalled" }

Deliverable ==
    { m \in Urgent : box[m] \in { "inbox", "supplied" } }
      \cup { d \in Dispatches : box[d] = "inbox" /\ DispatchEligible(d) }

\* pending(): messages with no prompt yet, or one that was put off and is due again.
FirstTries(due) == { m \in Deliverable : first[m] = "none" \/ (due /\ first[m] = "deferred") }

\* pending(): urgent messages whose prompt led to a completed turn and which lie there still.
FollowUps(due) ==
    { m \in Deliverable \cap Urgent :
        /\ due /\ first[m] = "submitted"
        /\ IF second[m] = "none" THEN m \in answered ELSE second[m] = "deferred" }

Pending(due) == FirstTries(due) \cup FollowUps(due)

\* Mutant: a prompt that was being sent when the backend died is taken up again.
PrepareResuming(c, idle, due) ==
    IF c.permission # "unattended" \/ c.awaiting THEN c
    ELSE CASE c.recovery \in { "submitting", "scheduled", "submitted" } /\ c.attempts >= Limit ->
                [ c EXCEPT !.recovery = "stalled" ]
           [] c.recovery = "none" /\ (c.signals # << >> \/ idle) ->
                [ c EXCEPT !.recovery = "scheduled", !.attempts = 0 ]
           [] c.recovery \in { "submitting", "submitted" } /\ c.attempts < Limit /\ due ->
                [ c EXCEPT !.recovery = "scheduled" ]
           [] OTHER -> c

\* prepareContinuation(): what the pass makes of the recovery it finds.
Prepare(c, idle, due) ==
    IF c.permission # "unattended" \/ c.awaiting THEN c
    ELSE CASE c.recovery = "submitting" -> [ c EXCEPT !.recovery = "blocked" ]
           [] c.recovery \in { "scheduled", "submitted" } /\ c.attempts >= Limit ->
                [ c EXCEPT !.recovery = "stalled" ]
           [] c.recovery = "none" /\ (c.signals # << >> \/ idle) ->
                [ c EXCEPT !.recovery = "scheduled", !.attempts = 0 ]
           [] c.recovery = "submitted" /\ c.attempts < Limit /\ due -> [ c EXCEPT !.recovery = "scheduled" ]
           [] OTHER -> c

\* pendingContinuation().
PendingContinuation(c, due) ==
    c.permission = "unattended" /\ ~c.awaiting /\ c.recovery = "scheduled" /\ due

\* Mutant: only the permission is looked at again after an await.
AllowedIfPermitted == call.work => Unattended /\ ~control.awaiting /\ control.revision = call.revision

\* allowed(), asked again after every await.
Allowed ==
    /\ ~paused
    /\ call.work => Unattended /\ ~control.awaiting /\ control.revision = call.revision

-----------------------------------------------------------------------------
(* The pass.                                                               *)

EndPass == pc' = "idle" /\ call' = NoCall

\* From the last look at the provider to the first await: what is there to send.  A recovery
\* that is scheduled here waits for its delay and so for a later pass.
Decide(c, idle, due) ==
    LET peer == Pending(due) # {}
        prepared == IF peer /\ c.recovery # "submitting" THEN c ELSE Prepare(c, idle, due)
        goes == peer \/ (c.recovery # "none" /\ PendingContinuation(prepared, due))
    IN  IF working \/ (~peer /\ task.state \in { "done", "blocked" })
          THEN control' = c /\ EndPass
          ELSE /\ control' = prepared
               /\ IF goes
                    THEN /\ pc' = "project"
                         /\ call' = [ NoCall EXCEPT !.work = ~peer, !.revision = prepared.revision ]
                    ELSE EndPass

passFrame == << paused, agentVars, mailVars, runVars, owed, quiet, boundVars >>

\* The pass reaches the assignment.  A prompt taken half a minute ago is first looked for.
BeginPass ==
    /\ pc = "idle" /\ ~paused
    /\ \/ \E idle, due \in BOOLEAN : Decide(control, idle, due)
       \/ /\ ~control.awaiting /\ control.recovery = "submitted"
          /\ pc' = "acknowledging" /\ call' = [ NoCall EXCEPT !.revision = control.revision ]
          /\ UNCHANGED control
    /\ UNCHANGED << passFrame, tryVars, alive, working, sentVars >>

\* The provider did not begin a turn for it: its outcome is for the person to judge.
Acknowledge ==
    /\ pc = "acknowledging"
    /\ \E idle, due \in BOOLEAN :
         Decide(IF ~acked /\ control.revision = call.revision /\ control.recovery = "submitted"
                  THEN [ control EXCEPT !.recovery = "blocked" ] ELSE control, idle, due)
    /\ UNCHANGED << passFrame, tryVars, alive, working, sentVars >>

\* Project, provider and memory: any of them may refuse.
ProjectAnswers ==
    /\ pc = "project"
    /\ \/ EndPass
       \/ /\ Allowed
          /\ pc' = IF alive THEN "refreshing" ELSE "restoring"
          /\ UNCHANGED call
    /\ UNCHANGED << passFrame, control, tryVars, alive, working, sentVars >>

Restored ==
    /\ pc = "restoring"
    /\ alive' = TRUE /\ working' = FALSE
    /\ IF Allowed THEN pc' = "refreshing" /\ UNCHANGED call ELSE EndPass
    /\ UNCHANGED << passFrame, control, tryVars, sentVars >>

\* Records what became of the prompt in the attempt of every message it carried.
SaveAttempt(fresh, again, status) ==
    /\ first' = [ m \in Mail |-> IF m \in fresh THEN status ELSE first[m] ]
    /\ second' = [ m \in Mail |-> IF m \in again THEN status ELSE second[m] ]

\* The conversation cannot be loaded: the messages have failed, the work has lost an attempt.
RestoreFails ==
    /\ pc = "restoring" /\ faults < MaxFaults
    /\ faults' = faults + 1
    /\ \E due \in BOOLEAN :
         IF call.work THEN UNCHANGED tryVars ELSE SaveAttempt(FirstTries(due), FollowUps(due), "failed")
    /\ control' = IF call.work /\ Unattended /\ control.revision = call.revision
                    THEN [ control EXCEPT !.attempts = @ + 1,
                             !.recovery = IF control.attempts + 1 >= Limit THEN "stalled" ELSE "scheduled" ]
                    ELSE control
    /\ EndPass
    /\ UNCHANGED << paused, agentVars, mailVars, runVars, owed, quiet, turns, alive, working, sentVars >>

\* submissionBlock() and the refusals of deliverAutomatic() before anything is written.
Refused == call.work /\ task.state \in { "done", "blocked" }

\* The attempt is on disk before the prompt leaves.  It leaves now, or is refused.
Submit(due) ==
    LET fresh == FirstTries(due)
        again == FollowUps(due)
        recorded == IF call.work THEN [ control EXCEPT !.recovery = "submitting", !.attempts = @ + 1 ] ELSE control
    IN  /\ call.work \/ fresh \cup again # {}
        /\ call.work => PendingContinuation(control, TRUE)
        /\ acked' = IF call.work THEN FALSE ELSE acked
        /\ \/ /\ SaveAttempt(fresh, again, "deferred")
              /\ control' = IF call.work THEN [ recorded EXCEPT !.recovery = "scheduled" ] ELSE recorded
              /\ EndPass
              /\ UNCHANGED << coming, prompts, tries >>
           \/ /\ ~Refused
              /\ SaveAttempt(fresh, again, "submitting")
              /\ control' = recorded
              /\ pc' = "sending"
              /\ \E reached \in BOOLEAN :
                   /\ call' = [ call EXCEPT !.fresh = fresh, !.again = again,
                                            !.consumed = Keys(control.signals), !.reached = reached ]
                   /\ coming' = reached
                   /\ prompts' = IF reached /\ call.work THEN prompts + 1 ELSE prompts
                   /\ tries' = [ m \in Mail |-> IF reached /\ m \in fresh \cup again THEN tries[m] + 1 ELSE tries[m] ]

RefreshEnds ==
    /\ pc = "refreshing"
    /\ \/ /\ EndPass /\ UNCHANGED << control, tryVars, acked, coming, prompts, tries >>
       \/ /\ Allowed
          /\ alive /\ ~working /\ ~turn /\ ~coming
          /\ call.work => ~finished
          /\ \E due \in BOOLEAN : Submit(due)
    /\ UNCHANGED << paused, agentVars, mailVars, turn, answered, owed, quiet, boundVars, alive, working,
                    unsure, unsureMail >>

Carried == call.fresh \cup call.again

\* The signals the prompt was about are owed no longer.
Delivered ==
    owed' = IF call.work THEN [ s \in Signals |-> IF s \in call.consumed THEN 0 ELSE owed[s] ] ELSE owed

\* Mutant: the signals are cleared, not those the prompt was about.
SubmittedClearingSignals ==
    /\ pc = "sending" /\ call.reached
    /\ SaveAttempt(call.fresh, call.again, "submitted")
    /\ control' = IF call.work /\ Allowed
                    THEN [ control EXCEPT !.recovery = "submitted", !.signals = << >> ] ELSE control
    /\ Delivered
    /\ working' = TRUE
    /\ EndPass
    /\ UNCHANGED << paused, agentVars, mailVars, runVars, quiet, boundVars, alive, sentVars >>

\* The prompt was taken.  Signals that came meanwhile stay for the next one.
Submitted ==
    /\ pc = "sending" /\ call.reached
    /\ SaveAttempt(call.fresh, call.again, "submitted")
    /\ control' = IF call.work /\ Allowed
                    THEN [ control EXCEPT !.recovery = "submitted", !.signals = Without(@, call.consumed) ]
                    ELSE control
    /\ Delivered
    /\ working' = TRUE
    /\ EndPass
    /\ UNCHANGED << paused, agentVars, mailVars, runVars, quiet, boundVars, alive, sentVars >>

\* It was not: certainly not sent and worth another try, refused for good, or nobody knows.
NotSubmitted(status, recovery) ==
    /\ SaveAttempt(call.fresh, call.again, status)
    /\ control' = IF call.work /\ Allowed THEN [ control EXCEPT !.recovery = recovery ] ELSE control
    /\ EndPass
    /\ UNCHANGED << passFrame, alive, working, prompts, tries >>

NotSent ==
    /\ pc = "sending" /\ ~call.reached
    /\ NotSubmitted("deferred", "scheduled") \/ NotSubmitted("failed", "blocked")
    /\ UNCHANGED << unsure, unsureMail >>

OutcomeUnknown ==
    /\ pc = "sending"
    /\ NotSubmitted("failed", "blocked")
    /\ unsure' = (unsure \/ (call.work /\ control.revision = call.revision))
    /\ unsureMail' = unsureMail \cup Carried

\* The backend dies.  A turn may live on in its process; what was being sent is in doubt.
Restart ==
    /\ faults < MaxFaults
    /\ faults' = faults + 1
    /\ EndPass
    /\ unsure' = (unsure \/ (pc = "sending" /\ call.work /\ control.revision = call.revision))
    /\ unsureMail' = IF pc = "sending" THEN unsureMail \cup Carried ELSE unsureMail
    /\ acked' \in { acked, FALSE }
    /\ \/ alive' = FALSE /\ turn' = FALSE /\ coming' = FALSE /\ working' = FALSE
       \/ UNCHANGED << alive, turn, coming, working >>
    /\ UNCHANGED << control, paused, agentVars, mailVars, tryVars, answered, prompts, tries, owed, quiet, turns >>

-----------------------------------------------------------------------------
Agent ==
    \/ \E permission \in Permissions : AgentSetsContinuation(permission)
    \/ \E waits \in BOOLEAN : SetAwaiting(waits)
    \/ \E state \in { "working", "blocked", "done" } : AgentUpdatesTask(state)
    \/ \E m \in Mail : MailRead(m)
    \/ Finish

Others ==
    \/ PersonInterrupts \/ PersonSpeaks
    \/ \E permission \in Permissions : GrantDecided(permission)
    \/ \E s \in Signals : SignalContinuation(s)
    \/ \E m \in Urgent : SendUrgent(m)
    \/ \E d \in Dispatches : Dispatch(d)
    \/ \E m \in Mail : MailExpires(m)

Provider == TurnStarts \/ TurnEnds \/ WorkingExpires \/ Unload \/ ConnectionLost

Pass ==
    \/ BeginPass \/ Acknowledge \/ ProjectAnswers \/ Restored \/ RestoreFails \/ RefreshEnds
    \/ Submitted \/ NotSent \/ OutcomeUnknown

Next == Agent \/ Others \/ Provider \/ Pass \/ Restart

Spec == Init /\ [][Next]_vars

-----------------------------------------------------------------------------
(* Properties.                                                             *)

\* Within one permission at most `Limit` automatic work prompts can reach the provider, whatever
\* signals, waits, mail, failed restores and restarts come between them; and for one message
\* at most two, a dispatched task only one.
PromptsBounded ==
    /\ prompts <= Limit
    /\ \A m \in Mail : tries[m] <= IF m \in Dispatches THEN 1 ELSE 2

\* A prompt of which nobody knows whether it arrived is never sent again: not for the same
\* message, and no further work prompt within the same permission (the person is to look).
DoubtIsNotRepeated ==
    [][ /\ unsure => prompts' <= prompts
        /\ \A m \in unsureMail : tries'[m] = tries[m] ]_vars

\* From the moment the person stops, suspends or asks to speak until a message of theirs is
\* accepted, no automatic prompt leaves, also when work is allowed again meanwhile.
QuietAfterStop ==
    [][ quiet => prompts' <= prompts /\ tries' = tries ]_vars

\* A result that was signalled into the permission stays with it until a prompt that came after it
\* was taken, or until `MaxSignals` later results pushed it out; one that arrives while a prompt is
\* being sent is not dropped with those before it.
SignalNotLost == \A s \in Signals : owed[s] > 0 => s \in Keys(control.signals)
=============================================================================
