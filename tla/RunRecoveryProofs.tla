-------------------------- MODULE RunRecoveryProofs --------------------------
(***************************************************************************)
(* Proofs about automatic recovery, for any delays, windows and numbers of *)
(* turns, processes, Stops, lost connections and restarts.                 *)
(*                                                                         *)
(* The methods of RunRecovery are functions of a store (Here), so what     *)
(* they keep is shown of stores: a predicate of the invariant takes the    *)
(* store and, as `e`, what lies outside of it.  A step is then a change    *)
(* outside, a chain of methods, or both.                                   *)
(***************************************************************************)
EXTENDS RunRecovery, TLAPS

-----------------------------------------------------------------------------
(***************************************************************************)
(* Stores, and what the methods return.                                    *)
(***************************************************************************)
Stores == [row : { "bound", "starting", "error" }, working : BOOLEAN,
           visible : Failure \cup {None}, budget : Failure \cup {None},
           obs : Observation \cup {None}, queue : Seq(Job), cmd : Command \cup {None}]

HasJob(s, kind) == \E i \in DOMAIN s.queue : s.queue[i].kind = kind /\ s.queue[i].live

\* t has the queue of s, or that and what was appended.
MoreJobs(s, t) == \A kind : HasJob(s, kind) => HasJob(t, kind)

LEMMA HereType ==
  ASSUME TypeOK
  PROVE  Here \in Stores
BY DEF TypeOK, Stores, Here

LEMMA BecomeType ==
  ASSUME NEW s \in Stores, Become(s)
  PROVE  Here' = s
BY DEF Stores, Become, Here

\* Who takes the place of what in a queue.
LEMMA Appends ==
  ASSUME NEW q \in Seq(Job), NEW j \in Job
  PROVE  /\ Append(q, j) \in Seq(Job) /\ Len(q) + 1 \in DOMAIN Append(q, j) /\ Append(q, j)[Len(q) + 1] = j
         /\ \A i \in DOMAIN q : i \in DOMAIN Append(q, j) /\ Append(q, j)[i] = q[i]
         /\ \A i \in DOMAIN Append(q, j) : (i \in DOMAIN q /\ Append(q, j)[i] = q[i]) \/ Append(q, j)[i] = j
OBVIOUS

LEMMA Drops ==
  ASSUME NEW q \in Seq(Job), q # << >>
  PROVE  /\ Tail(q) \in Seq(Job) /\ Head(q) \in Job /\ 1 \in DOMAIN q /\ Head(q) = q[1]
         /\ \A i \in DOMAIN q : i = 1 \/ (i - 1 \in DOMAIN Tail(q) /\ Tail(q)[i - 1] = q[i])
         /\ \A i \in DOMAIN Tail(q) : i + 1 \in DOMAIN q /\ Tail(q)[i] = q[i + 1]
OBVIOUS

\* A job that is put at the end of the queue.
LEMMA Queues ==
  ASSUME NEW s \in Stores, NEW kind \in { "refresh", "retry", "ack", "loss", "reconcile" }
  PROVE  \A t : t = [s EXCEPT !.queue = Append(@, [kind |-> kind, live |-> TRUE])] =>
           /\ t \in Stores /\ HasJob(t, kind) /\ MoreJobs(s, t)
           /\ t.row = s.row /\ t.working = s.working /\ t.visible = s.visible /\ t.budget = s.budget
           /\ t.obs = s.obs /\ t.cmd = s.cmd
<1> DEFINE j == [kind |-> kind, live |-> TRUE]
<1>1. j \in Job /\ s.queue \in Seq(Job)
  BY DEF Job, Stores
<1> HIDE DEF j
<1> SUFFICES ASSUME NEW t, t = [s EXCEPT !.queue = Append(@, j)]
             PROVE  /\ t \in Stores /\ HasJob(t, kind) /\ MoreJobs(s, t)
                    /\ t.row = s.row /\ t.working = s.working /\ t.visible = s.visible /\ t.budget = s.budget
                    /\ t.obs = s.obs /\ t.cmd = s.cmd
  BY DEF j
<1>2. t.queue = Append(s.queue, j)
  BY DEF Stores
<1>3. Append(s.queue, j) \in Seq(Job)
  BY <1>1
<1>4. /\ t \in Stores
      /\ t.row = s.row /\ t.working = s.working /\ t.visible = s.visible /\ t.budget = s.budget
      /\ t.obs = s.obs /\ t.cmd = s.cmd
  BY <1>3 DEF Stores
<1>5. MoreJobs(s, t)
  BY <1>1, <1>2, Appends DEF MoreJobs, HasJob
<1>6. HasJob(t, kind)
  BY <1>1, <1>2, Appends DEF HasJob, j
<1> QED BY <1>4, <1>5, <1>6

\* Nothing but the observation, the queue and `live` of the command may differ.
SameRow(s, t) == t.row = s.row /\ t.working = s.working /\ t.visible = s.visible /\ t.budget = s.budget

\* The observation of which process failure comes first when watching begins.
First(s) == [attached |-> now, run |-> None,
             exit |-> IF Prior(s) # None /\ Prior(s).code = "process_exited" THEN ExitOf(Prior(s)) ELSE None,
             timer |-> None]

Detached(c) == IF c = None THEN None ELSE [c EXCEPT !.live = FALSE]

LEMMA ChangedSpec ==
  ASSUME NEW s \in Stores
  PROVE  Changed(s) \in Stores /\ SameRow(s, Changed(s)) /\ Changed(s).obs = s.obs /\ Changed(s).cmd = s.cmd
<1> DEFINE t == [s EXCEPT !.queue = Append(@, [kind |-> "refresh", live |-> TRUE])]
<1>1. t \in Stores /\ SameRow(s, t) /\ t.obs = s.obs /\ t.cmd = s.cmd
  BY Queues DEF SameRow
<1>2. Changed(s) \in { s, t }
  BY DEF Changed
<1>3. SameRow(s, s)
  BY DEF SameRow
<1> HIDE DEF t
<1> QED BY <1>1, <1>2, <1>3

LEMMA ExitType ==
  ASSUME NEW f \in Failure
  PROVE  /\ ExitOf(f) \in Run /\ ExitOf(f).turn = f.turn /\ ExitOf(f).at = f.failedAt /\ ExitOf(f).status = "failed"
         /\ ExitOf(f).code = "process_exited"
BY DEF ExitOf, Failure, Run, Times

LEMMA PriorType ==
  ASSUME NEW s \in Stores
  PROVE  Prior(s) \in Failure \cup {None}
BY DEF Prior, Stores

LEMMA FirstType ==
  ASSUME NEW s \in Stores, now \in Nat
  PROVE  /\ First(s) \in Observation /\ First(s) # None /\ First(s).run = None /\ First(s).timer = None
         /\ First(s).exit = IF Prior(s) # None /\ Prior(s).code = "process_exited" THEN ExitOf(Prior(s)) ELSE None
<1> DEFINE exit == IF Prior(s) # None /\ Prior(s).code = "process_exited" THEN ExitOf(Prior(s)) ELSE None
<1>1. exit \in Run \cup {None}
  BY PriorType, ExitType
<1>2. First(s) = [attached |-> now, run |-> None, exit |-> exit, timer |-> None]
  BY DEF First
<1> HIDE DEF exit
<1>3. First(s) \in Observation
  BY <1>1, <1>2 DEF Observation, Times
<1>4. First(s).run = None /\ First(s).timer = None /\ First(s).exit = exit
  BY <1>2
<1> QED BY <1>3, <1>4, NoneAssumption DEF exit

LEMMA WatchSpec ==
  ASSUME NEW s \in Stores, now \in Nat
  PROVE  /\ Watch(s) \in Stores /\ SameRow(s, Watch(s)) /\ Watch(s).cmd = s.cmd
         /\ Watch(s).obs = IF s.obs = None THEN First(s) ELSE s.obs
         /\ s.obs # None => Watch(s) = s
<1> DEFINE t == [s EXCEPT !.obs = First(s)]
<1>1. t \in Stores /\ SameRow(s, t) /\ t.cmd = s.cmd /\ t.obs = First(s)
  BY FirstType DEF Stores, SameRow
<1>2. Watch(s) = IF s.obs # None THEN s ELSE Changed(t)
  BY DEF Watch, First
<1>3. SameRow(s, s)
  BY DEF SameRow
<1>4. Changed(t) \in Stores /\ SameRow(t, Changed(t)) /\ Changed(t).obs = t.obs /\ Changed(t).cmd = t.cmd
  BY <1>1, ChangedSpec
<1> HIDE DEF t
<1> QED BY <1>1, <1>2, <1>3, <1>4 DEF SameRow

LEMMA DetachedType ==
  ASSUME NEW c \in Command \cup {None}
  PROVE  /\ Detached(c) \in Command \cup {None} /\ (Detached(c) = None <=> c = None)
         /\ c # None => /\ ~Detached(c).live /\ Detached(c).kind = c.kind /\ Detached(c).same = c.same
                        /\ Detached(c).step = c.step /\ Detached(c).sent = c.sent
<1>1. CASE c = None
  BY <1>1 DEF Detached
<1>2. CASE c # None
  <2>1. c \in Command
    BY <1>2
  <2>2. Detached(c) = [c EXCEPT !.live = FALSE]
    BY <1>2 DEF Detached
  <2>3. Detached(c) \in Command
    BY <2>1, <2>2 DEF Command
  <2>4. /\ ~Detached(c).live /\ Detached(c).kind = c.kind /\ Detached(c).same = c.same
        /\ Detached(c).step = c.step /\ Detached(c).sent = c.sent
    BY <2>1, <2>2 DEF Command
  <2> QED BY <1>2, <2>3, <2>4, NoneAssumption
<1> QED BY <1>1, <1>2

LEMMA StopWatchingSpec ==
  ASSUME NEW s \in Stores
  PROVE  /\ StopWatching(s) \in Stores /\ SameRow(s, StopWatching(s)) /\ StopWatching(s).obs = None
         /\ StopWatching(s).cmd = Detached(s.cmd)
<1> DEFINE q == [i \in DOMAIN s.queue |-> [s.queue[i] EXCEPT !.live = @ /\ s.queue[i].kind \notin { "retry", "ack" }]]
           t == [s EXCEPT !.obs = None, !.queue = q, !.cmd = Detached(s.cmd)]
<1>1. StopWatching(s) = [s EXCEPT !.obs = None, !.queue = q, !.cmd = IF s.cmd = None THEN None ELSE [s.cmd EXCEPT !.live = FALSE]]
  BY DEF StopWatching, Stores
<1>2. StopWatching(s) = t
  BY <1>1 DEF Detached
<1>3. s.queue \in Seq(Job)
  BY DEF Stores
<1>4. \A i \in DOMAIN s.queue : s.queue[i] \in Job
  BY <1>3
<1>5. \A j \in Job : [j EXCEPT !.live = @ /\ j.kind \notin { "retry", "ack" }] \in Job
  BY DEF Job
<1>6. q \in Seq(Job)
  BY <1>3, <1>4, <1>5
<1>7. Detached(s.cmd) \in Command \cup {None}
  BY DetachedType DEF Stores
<1> HIDE DEF q
<1>8. t \in Stores /\ SameRow(s, t) /\ t.obs = None /\ t.cmd = Detached(s.cmd)
  BY <1>6, <1>7 DEF Stores, SameRow
<1> QED BY <1>2, <1>8

LEMMA PublishSpec ==
  ASSUME NEW s \in Stores, now \in Nat
  PROVE  /\ Publish(s) \in Stores /\ SameRow(s, Publish(s))
         /\ Watchable(s.row) => /\ Publish(s).cmd = s.cmd
                                /\ Publish(s).obs = (IF s.obs = None THEN First(s) ELSE s.obs)
                                /\ s.obs # None => Publish(s) = s
         /\ ~Watchable(s.row) => Publish(s).cmd = Detached(s.cmd) /\ Publish(s).obs = None
<1>1. CASE Watchable(s.row)
  BY <1>1, WatchSpec DEF Publish
<1>2. CASE ~Watchable(s.row)
  BY <1>2, StopWatchingSpec DEF Publish
<1> QED BY <1>1, <1>2

LEMMA SyncedSpec ==
  ASSUME NEW s \in Stores, turn \in BOOLEAN
  PROVE  /\ Synced(s) \in Stores /\ Synced(s).row = s.row /\ Synced(s).visible = s.visible /\ Synced(s).budget = s.budget
         /\ Synced(s).obs = s.obs /\ Synced(s).queue = s.queue /\ Synced(s).cmd = s.cmd
BY DEF Synced, Stores, HoldsDown

LEMMA SaveSpec ==
  ASSUME NEW s \in Stores, NEW f \in Failure \cup {None}, now \in Nat, turn \in BOOLEAN
  PROVE  LET exit == IF f # None /\ f.code = "process_exited" THEN ExitOf(f) ELSE None
             obs1 == [attached |-> now, run |-> None, exit |-> exit, timer |-> None]
         IN  /\ Save(s, f) \in Stores /\ Save(s, f).row = s.row /\ Save(s, f).visible = f /\ Save(s, f).budget = f
             /\ s.row # "bound" /\ Save(s, f).working => s.working
             /\ Watchable(s.row) => /\ Save(s, f).cmd = s.cmd
                                    /\ Save(s, f).obs = (IF s.obs = None THEN obs1 ELSE s.obs) /\ Save(s, f).obs # None
             /\ ~Watchable(s.row) => Save(s, f).cmd = Detached(s.cmd) /\ Save(s, f).obs = None
<1> DEFINE exit == IF f # None /\ f.code = "process_exited" THEN ExitOf(f) ELSE None
           obs1 == [attached |-> now, run |-> None, exit |-> exit, timer |-> None]
           a == [s EXCEPT !.visible = f, !.budget = f, !.working = @ /\ ~HoldsDown(f)]
           b == IF s.row = "bound" THEN Synced(a) ELSE a
<1>1. /\ a \in Stores /\ a.row = s.row /\ a.visible = f /\ a.budget = f /\ (a.working => s.working)
      /\ a.obs = s.obs /\ a.cmd = s.cmd /\ a.queue = s.queue
  <2>1. (s.working /\ ~HoldsDown(f)) \in BOOLEAN
    OBVIOUS
  <2> QED BY <2>1 DEF Stores
<1>2. Save(s, f) = Publish(b)
  <2>1. Save(s, f) = Publish(IF s.row = "bound" THEN Synced(a) ELSE a)
    BY DEF Save
  <2> QED BY <2>1
<1> HIDE DEF a
<1>3. /\ b \in Stores /\ b.row = s.row /\ b.visible = f /\ b.budget = f /\ (s.row # "bound" /\ b.working => s.working)
      /\ b.obs = s.obs /\ b.cmd = s.cmd
  BY <1>1, SyncedSpec
<1> HIDE DEF b
<1>4. Prior(b) = f
  BY <1>3 DEF Prior
<1>5. First(b) = obs1
  BY <1>4 DEF First
<1>6. First(b) # None
  BY <1>3, FirstType
<1> HIDE DEF obs1
<1>7. /\ Publish(b) \in Stores /\ SameRow(b, Publish(b))
      /\ Watchable(b.row) => /\ Publish(b).cmd = b.cmd /\ Publish(b).obs = (IF b.obs = None THEN First(b) ELSE b.obs)
      /\ ~Watchable(b.row) => Publish(b).cmd = Detached(b.cmd) /\ Publish(b).obs = None
  BY <1>3, PublishSpec
<1>8. Publish(b).row = s.row /\ Publish(b).visible = f /\ Publish(b).budget = f /\ Publish(b).working = b.working
  BY <1>3, <1>7 DEF SameRow
<1>9. Watchable(s.row) => Publish(b).obs = (IF s.obs = None THEN obs1 ELSE s.obs) /\ Publish(b).obs # None
  BY <1>3, <1>5, <1>6, <1>7
<1>10. /\ Save(s, f) \in Stores /\ Save(s, f).row = s.row /\ Save(s, f).visible = f /\ Save(s, f).budget = f
       /\ s.row # "bound" /\ Save(s, f).working => s.working
  BY <1>2, <1>3, <1>7, <1>8
<1>11. Watchable(s.row) => Save(s, f).cmd = s.cmd /\ Save(s, f).obs = (IF s.obs = None THEN obs1 ELSE s.obs) /\ Save(s, f).obs # None
  BY <1>2, <1>3, <1>7, <1>9
<1>12. ~Watchable(s.row) => Save(s, f).cmd = Detached(s.cmd) /\ Save(s, f).obs = None
  BY <1>2, <1>3, <1>7
<1> QED BY <1>10, <1>11, <1>12 DEF obs1

LEMMA StoppedType ==
  ASSUME NEW f \in Failure
  PROVE  /\ Stopped(f) \in Failure /\ Stopped(f).turn = f.turn /\ Stopped(f).failedAt = f.failedAt /\ Stopped(f).code = f.code
         /\ Stopped(f).status = "stopped" /\ Stopped(f).attempts = f.attempts
BY DEF Stopped, Failure, Times

\* Only the timer of the observation differs.
SameObs(o, p) ==
    /\ p = None <=> o = None
    /\ o # None => p.attached = o.attached /\ p.run = o.run /\ p.exit = o.exit

LEMMA TimerSet ==
  ASSUME NEW s \in Stores, s.obs # None, NEW timer \in Timer \cup {None}
  PROVE  LET t == [s EXCEPT !.obs.timer = timer]
         IN  t \in Stores /\ SameRow(s, t) /\ SameObs(s.obs, t.obs) /\ t.cmd = s.cmd /\ t.obs.timer = timer /\ t.queue = s.queue
<1> DEFINE o == [s.obs EXCEPT !.timer = timer]
           t == [s EXCEPT !.obs = o]
<1>1. s.obs \in Observation
  BY DEF Stores
<1>2. o \in Observation /\ o.attached = s.obs.attached /\ o.run = s.obs.run /\ o.exit = s.obs.exit /\ o.timer = timer
  BY <1>1 DEF Observation
<1>3. o # None
  BY <1>2, NoneAssumption
<1>4. [s EXCEPT !.obs.timer = timer] = t
  BY DEF Stores
<1> HIDE DEF o
<1>5. t \in Stores /\ SameRow(s, t) /\ t.cmd = s.cmd /\ t.obs = o /\ t.queue = s.queue
  BY <1>2 DEF Stores, SameRow
<1>6. SameObs(s.obs, t.obs)
  BY <1>2, <1>3, <1>5 DEF SameObs
<1> HIDE DEF t
<1> QED BY <1>2, <1>4, <1>5, <1>6

LEMMA ClearTimerSpec ==
  ASSUME NEW s \in Stores
  PROVE  /\ ClearTimer(s) \in Stores /\ SameRow(s, ClearTimer(s)) /\ SameObs(s.obs, ClearTimer(s).obs)
         /\ ClearTimer(s).cmd = s.cmd /\ ClearTimer(s).queue = s.queue
         /\ ClearTimer(s).obs # None => ClearTimer(s).obs.timer = None
<1>1. CASE s.obs = None
  BY <1>1 DEF ClearTimer, SameRow, SameObs
<1>2. CASE s.obs # None
  BY <1>2, TimerSet DEF ClearTimer
<1> QED BY <1>1, <1>2

LEMMA ScheduleCases ==
  ASSUME NEW s \in Stores, NEW f \in Failure, now \in Nat
  PROVE  \/ Schedule(s, f) = Save(ClearTimer(s), Stopped(f))
         \/ Schedule(s, f) = s /\ s.obs = None
         \/ /\ s.obs # None
            /\ \E timer \in Timer : timer.kind = "retry" /\ timer.due >= f.next /\ Schedule(s, f) = [s EXCEPT !.obs.timer = timer]
<1> DEFINE timer == [kind |-> "retry", due |-> IF f.next > now THEN f.next ELSE now]
<1>1. f.next \in Nat
  BY DEF Failure, Times
<1>2. timer \in Timer /\ timer.kind = "retry" /\ timer.due >= f.next
  BY <1>1 DEF Timer, Times
<1>3. \/ Schedule(s, f) = Save(ClearTimer(s), Stopped(f))
      \/ Schedule(s, f) = s /\ s.obs = None
      \/ s.obs # None /\ Schedule(s, f) = [s EXCEPT !.obs.timer = timer]
  BY DEF Schedule
<1> HIDE DEF timer
<1> QED BY <1>2, <1>3

-----------------------------------------------------------------------------
(***************************************************************************)
(* The failure in the meta table, and the two things a run of the monitor  *)
(* can be: the end of a process, which the observation holds back, and the *)
(* newest run of the provider.  A prompt answers a failure only when its   *)
(* time has come, after the clock has moved on, so that a failure of this  *)
(* moment was never answered; and what was answered stays in the meta      *)
(* table, or the end of a process hides it from the monitor.               *)
(***************************************************************************)
World == [now |-> now, native |-> native, turns |-> turns, turn |-> turn, alive |-> alive,
          prompted |-> prompted, stopped |-> stopped, cancellation |-> cancellation]

Scheduled(f) == f # None /\ f.status = "scheduled"

FailureOK(f, e) == f # None =>
    /\ f.failedAt <= e.now
    /\ f.status = "scheduled" => f.attempts < Len(Delays) /\ f.failedAt < f.next
    /\ f.status = "retrying" => f.attempts >= 1
    /\ f.code = "process_exited" => f.turn > MaxTurns

NotAnswered(f, e) == Scheduled(f) => << f.turn, f.failedAt >> \notin e.prompted /\ f.turn \notin e.stopped

ExitOK(o, e) == o # None /\ o.exit # None =>
    o.exit.status = "failed" /\ o.exit.code = "process_exited" /\ o.exit.turn > MaxTurns /\ o.exit.at <= e.now

Answers(o, f, e) ==
    /\ o # None /\ o.exit # None /\ << o.exit.turn, o.exit.at >> \in e.prompted => f # None /\ f.turn = o.exit.turn
    /\ e.native # None /\ e.native.status = "failed" /\ << e.native.turn, e.native.at >> \in e.prompted =>
         /\ f # None
         /\ \/ f.turn = e.native.turn
            \/ /\ f.code = "process_exited" /\ f.failedAt >= e.native.at
               /\ o # None => o.exit # None /\ o.exit.at >= e.native.at

Core(s, e) ==
    /\ s.visible \in { None, s.budget }
    /\ FailureOK(s.budget, e) /\ NotAnswered(s.budget, e)
    /\ ExitOK(s.obs, e) /\ Answers(s.obs, s.budget, e)

\* The same failure, as far as the run it names goes.
About(f, g) == f # None /\ g # None /\ f.turn = g.turn /\ f.failedAt = g.failedAt /\ f.code = g.code

LEMMA FirstKeeps ==
  ASSUME NEW f \in Failure \cup {None}, NEW o \in Observation, NEW e,
         o.exit = IF f # None /\ f.code = "process_exited" THEN ExitOf(f) ELSE None,
         FailureOK(f, e), NEW p, Answers(p, f, e)
  PROVE  ExitOK(o, e) /\ Answers(o, f, e)
<1>1. CASE f # None /\ f.code = "process_exited"
  <2>1. f \in Failure
    BY <1>1
  <2>2. o.exit = ExitOf(f) /\ ExitOf(f) \in Run
    BY <1>1, <2>1, ExitType
  <2>3. o.exit # None
    BY <2>2, NoneAssumption
  <2>4. o.exit.turn = f.turn /\ o.exit.at = f.failedAt /\ o.exit.status = "failed" /\ o.exit.code = "process_exited"
    BY <2>1, <2>2, ExitType
  <2> QED BY <1>1, <2>1, <2>3, <2>4 DEF ExitOK, Answers, FailureOK
<1>2. CASE ~(f # None /\ f.code = "process_exited")
  BY <1>2 DEF ExitOK, Answers
<1> QED BY <1>1, <1>2

LEMMA PublishKeeps ==
  ASSUME NEW s \in Stores, NEW e, Core(s, e), now \in Nat
  PROVE  Core(Publish(s), e)
<1>1. Publish(s).visible = s.visible /\ Publish(s).budget = s.budget
  BY PublishSpec DEF SameRow
<1>2. Prior(s) = s.budget /\ s.budget \in Failure \cup {None}
  BY DEF Prior, Core, Stores
<1>3. ExitOK(Publish(s).obs, e) /\ Answers(Publish(s).obs, s.budget, e)
  <2>1. CASE Watchable(s.row) /\ s.obs = None
    <3>1. Publish(s).obs = First(s)
      BY <2>1, PublishSpec
    <3>2. First(s) \in Observation /\ First(s).exit = IF s.budget # None /\ s.budget.code = "process_exited" THEN ExitOf(s.budget) ELSE None
      BY <1>2, FirstType
    <3> QED BY <1>2, <3>1, <3>2, FirstKeeps DEF Core
  <2>2. CASE Watchable(s.row) /\ s.obs # None
    BY <2>2, PublishSpec DEF Core
  <2>3. CASE ~Watchable(s.row)
    <3>1. Publish(s).obs = None
      BY <2>3, PublishSpec
    <3> QED BY <3>1 DEF Core, ExitOK, Answers
  <2> QED BY <2>1, <2>2, <2>3
<1> QED BY <1>1, <1>3 DEF Core

LEMMA SaveKeeps ==
  ASSUME NEW s \in Stores, NEW f \in Failure \cup {None}, NEW e, now \in Nat, turn \in BOOLEAN,
         FailureOK(f, e), NotAnswered(f, e), ExitOK(s.obs, e), Answers(s.obs, f, e)
  PROVE  Core(Save(s, f), e)
<1>1. Save(s, f).visible = f /\ Save(s, f).budget = f /\ Save(s, f) \in Stores
  BY SaveSpec
<1>2. ExitOK(Save(s, f).obs, e) /\ Answers(Save(s, f).obs, f, e)
  <2>1. CASE Watchable(s.row) /\ s.obs = None
    <3>1. Save(s, f).obs = [attached |-> now, run |-> None,
                            exit |-> IF f # None /\ f.code = "process_exited" THEN ExitOf(f) ELSE None, timer |-> None]
      BY <2>1, SaveSpec
    <3>2. Save(s, f).obs.exit = IF f # None /\ f.code = "process_exited" THEN ExitOf(f) ELSE None
      BY <3>1
    <3>3. Save(s, f).obs \in Observation
      BY <1>1, <2>1, SaveSpec DEF Stores
    <3> QED BY <3>2, <3>3, FirstKeeps
  <2>2. CASE Watchable(s.row) /\ s.obs # None
    <3>1. Save(s, f).obs = s.obs
      BY <2>2, SaveSpec
    <3> QED BY <3>1
  <2>3. CASE ~Watchable(s.row)
    <3>1. Save(s, f).obs = None
      BY <2>3, SaveSpec
    <3> QED BY <3>1 DEF ExitOK, Answers
  <2> QED BY <2>1, <2>2, <2>3
<1> QED BY <1>1, <1>2 DEF Core

LEMMA SaveAgain ==
  ASSUME NEW s \in Stores, NEW f \in Failure, NEW e, now \in Nat, turn \in BOOLEAN,
         Core(s, e), About(f, s.budget), FailureOK(f, e), NotAnswered(f, e)
  PROVE  Core(Save(s, f), e)
<1>1. Answers(s.obs, f, e)
  BY DEF Core, About, Answers
<1> QED BY <1>1, SaveKeeps DEF Core

LEMMA ClearTimerKeeps ==
  ASSUME NEW s \in Stores, NEW e, Core(s, e)
  PROVE  Core(ClearTimer(s), e)
BY ClearTimerSpec DEF Core, SameRow, SameObs, ExitOK, Answers

\* Recovery of a failure is given up.
LEMMA StopKeeps ==
  ASSUME NEW s \in Stores, NEW f \in Failure, NEW e, now \in Nat, turn \in BOOLEAN,
         Core(s, e), About(f, s.budget), f.status = "stopped"
  PROVE  Core(Save(s, f), e)
<1>1. FailureOK(f, e) /\ NotAnswered(f, e)
  BY DEF Core, FailureOK, NotAnswered, Scheduled, About
<1> QED BY <1>1, SaveAgain

LEMMA ScheduleKeeps ==
  ASSUME NEW s \in Stores, NEW f \in Failure, NEW e, now \in Nat, turn \in BOOLEAN, Core(s, e), About(f, s.budget)
  PROVE  Schedule(s, f) \in Stores /\ Core(Schedule(s, f), e)
<1>1. CASE Schedule(s, f) = Save(ClearTimer(s), Stopped(f))
  <2>1. ClearTimer(s) \in Stores /\ ClearTimer(s).budget = s.budget
    BY ClearTimerSpec DEF SameRow
  <2>2. Stopped(f) \in Failure /\ Stopped(f) # None /\ About(Stopped(f), s.budget) /\ Stopped(f).status = "stopped"
    BY StoppedType, NoneAssumption DEF About
  <2>3. Core(ClearTimer(s), e)
    BY ClearTimerKeeps
  <2>4. Core(Save(ClearTimer(s), Stopped(f)), e)
    BY <2>1, <2>2, <2>3, StopKeeps
  <2>5. Save(ClearTimer(s), Stopped(f)) \in Stores
    BY <2>1, <2>2, SaveSpec
  <2> QED BY <1>1, <2>4, <2>5
<1>2. CASE Schedule(s, f) = s
  BY <1>2
<1>3. ASSUME s.obs # None, NEW timer \in Timer, Schedule(s, f) = [s EXCEPT !.obs.timer = timer]
      PROVE  Schedule(s, f) \in Stores /\ Core(Schedule(s, f), e)
  <2> DEFINE t == [s EXCEPT !.obs.timer = timer]
  <2>1. t \in Stores /\ SameRow(s, t) /\ SameObs(s.obs, t.obs)
    BY <1>3, TimerSet
  <2> HIDE DEF t
  <2>2. Core(t, e)
    BY <2>1 DEF Core, SameRow, SameObs, ExitOK, Answers
  <2>3. Schedule(s, f) = t
    BY <1>3 DEF t
  <2> QED BY <2>1, <2>2, <2>3
<1> QED BY <1>1, <1>2, <1>3, ScheduleCases

-----------------------------------------------------------------------------
(***************************************************************************)
(* What the methods leave of the row, the observation and the command.     *)
(***************************************************************************)
Rest(s, t) ==
    /\ t.row = s.row
    /\ s.row # "bound" /\ t.working => s.working
    /\ t.cmd = None <=> s.cmd = None
    /\ s.cmd # None => /\ t.cmd.kind = s.cmd.kind /\ t.cmd.same = s.cmd.same /\ t.cmd.step = s.cmd.step /\ t.cmd.sent = s.cmd.sent
                       /\ t.cmd.live => s.cmd.live /\ (s.obs # None => t.obs # None)
    /\ Watchable(s.row) => t.cmd = s.cmd /\ (s.obs # None => t.obs # None)

LEMMA RestTrans ==
  ASSUME NEW s \in Stores, NEW t \in Stores, NEW u \in Stores, Rest(s, t), Rest(t, u)
  PROVE  Rest(s, u)
BY DEF Rest, Stores

LEMMA RestSame ==
  ASSUME NEW s \in Stores, NEW t \in Stores, SameRow(s, t), t.cmd = s.cmd, s.obs # None => t.obs # None
  PROVE  Rest(s, t)
BY DEF Rest, SameRow

LEMMA PublishRest ==
  ASSUME NEW s \in Stores, now \in Nat
  PROVE  Publish(s) \in Stores /\ Rest(s, Publish(s))
<1>1. /\ Publish(s) \in Stores /\ SameRow(s, Publish(s))
      /\ Watchable(s.row) => /\ Publish(s).cmd = s.cmd /\ Publish(s).obs = (IF s.obs = None THEN First(s) ELSE s.obs)
      /\ ~Watchable(s.row) => Publish(s).cmd = Detached(s.cmd) /\ Publish(s).obs = None
  BY PublishSpec
<1>2. CASE Watchable(s.row)
  BY <1>1, <1>2, RestSame
<1>3. CASE ~Watchable(s.row)
  <2>1. s.cmd \in Command \cup {None}
    BY DEF Stores
  <2> QED BY <1>1, <1>3, <2>1, DetachedType DEF Rest, SameRow
<1> QED BY <1>1, <1>2, <1>3

LEMMA SaveRest ==
  ASSUME NEW s \in Stores, NEW f \in Failure \cup {None}, now \in Nat, turn \in BOOLEAN
  PROVE  Save(s, f) \in Stores /\ Rest(s, Save(s, f))
<1>1. /\ Save(s, f) \in Stores /\ Save(s, f).row = s.row /\ (s.row # "bound" /\ Save(s, f).working => s.working)
      /\ Watchable(s.row) => Save(s, f).cmd = s.cmd /\ Save(s, f).obs # None
      /\ ~Watchable(s.row) => Save(s, f).cmd = Detached(s.cmd) /\ Save(s, f).obs = None
  BY SaveSpec
<1>2. s.cmd \in Command \cup {None}
  BY DEF Stores
<1>3. CASE Watchable(s.row)
  BY <1>1, <1>3 DEF Rest
<1>4. CASE ~Watchable(s.row)
  BY <1>1, <1>2, <1>4, DetachedType DEF Rest
<1> QED BY <1>1, <1>3, <1>4

LEMMA ClearTimerRest ==
  ASSUME NEW s \in Stores
  PROVE  ClearTimer(s) \in Stores /\ Rest(s, ClearTimer(s))
BY ClearTimerSpec, RestSame DEF SameObs

LEMMA ScheduleRest ==
  ASSUME NEW s \in Stores, NEW f \in Failure, now \in Nat, turn \in BOOLEAN
  PROVE  Schedule(s, f) \in Stores /\ Rest(s, Schedule(s, f))
<1>1. CASE Schedule(s, f) = Save(ClearTimer(s), Stopped(f))
  <2>1. ClearTimer(s) \in Stores /\ Rest(s, ClearTimer(s)) /\ Stopped(f) \in Failure \cup {None}
    BY ClearTimerRest, StoppedType
  <2> DEFINE u == ClearTimer(s)
  <2> HIDE DEF u
  <2>2. u \in Stores /\ Rest(s, u)
    BY <2>1 DEF u
  <2>3. Save(u, Stopped(f)) \in Stores /\ Rest(u, Save(u, Stopped(f)))
    BY <2>1, <2>2, SaveRest
  <2>4. Rest(s, Save(u, Stopped(f)))
    BY <2>2, <2>3, RestTrans
  <2> QED BY <1>1, <2>3, <2>4 DEF u
<1>2. CASE Schedule(s, f) = s
  BY <1>2 DEF Rest
<1>3. ASSUME s.obs # None, NEW timer \in Timer, Schedule(s, f) = [s EXCEPT !.obs.timer = timer]
      PROVE  Schedule(s, f) \in Stores /\ Rest(s, Schedule(s, f))
  <2> DEFINE t == [s EXCEPT !.obs.timer = timer]
  <2>1. t \in Stores /\ SameRow(s, t) /\ SameObs(s.obs, t.obs) /\ t.cmd = s.cmd
    BY <1>3, TimerSet
  <2>2. Schedule(s, f) = t
    BY <1>3
  <2> HIDE DEF t
  <2> QED BY <2>1, <2>2, RestSame DEF SameObs
<1> QED BY <1>1, <1>2, <1>3, ScheduleCases

-----------------------------------------------------------------------------
(***************************************************************************)
(* refresh().                                                              *)
(***************************************************************************)
WorldOK(e) ==
    /\ e.turn => e.alive /\ e.native # None /\ e.native.status = "running"
    /\ e.native # None =>
         /\ e.native.turn \in 1..e.turns /\ e.native.at <= e.now /\ e.native.started <= e.now
         /\ e.native.code # "process_exited"
         /\ e.native.status = "failed" => e.native.code # "none"
         /\ e.native.turn \in e.stopped =>
              e.cancellation # None /\ (e.cancellation.turn = e.native.turn \/ e.native.started <= e.cancellation.at)
    /\ \A k \in e.prompted : k[2] < e.now

\* The run that is looked at is the process failure that stands, or the newest run when none does.
Seen(o, r) ==
    /\ r # None /\ r = (IF o.exit # None THEN o.exit ELSE native)
    /\ o.exit # None /\ native # None => native.at <= o.exit.at

LEMMA PriorIs ==
  ASSUME NEW s \in Stores, NEW e, Core(s, e)
  PROVE  Prior(s) = s.budget /\ s.budget \in Failure \cup {None}
BY DEF Prior, Core, Stores

LEMMA ObsSet ==
  ASSUME NEW s \in Stores, s.obs # None, NEW o \in Observation
  PROVE  LET t == [s EXCEPT !.obs = o]
         IN  t \in Stores /\ SameRow(s, t) /\ t.cmd = s.cmd /\ t.queue = s.queue /\ t.obs = o /\ t.obs # None /\ Rest(s, t)
BY NoneAssumption DEF Stores, SameRow, Rest

LEMMA KeptSpec ==
  ASSUME NEW s \in Stores, s.obs # None, native \in Run \cup {None}, Core(s, World)
  PROVE  LET kept == [s EXCEPT !.obs.exit = ExitStands(s)]
         IN  /\ kept \in Stores /\ Core(kept, World) /\ Rest(s, kept) /\ kept.obs # None
             /\ SameRow(s, kept) /\ kept.queue = s.queue /\ kept.cmd = s.cmd
             /\ kept.obs.run = s.obs.run /\ kept.obs.timer = s.obs.timer /\ kept.obs.attached = s.obs.attached
             /\ kept.obs.exit = ExitStands(s)
             /\ \A r : r # None /\ r = Latest(s) => Seen(kept.obs, r) /\ r \in Run
<1> DEFINE o == [s.obs EXCEPT !.exit = ExitStands(s)]
           t == [s EXCEPT !.obs = o]
<1>1. s.obs \in Observation /\ s.obs.exit \in Run \cup {None}
  BY DEF Stores, Observation
<1>2. /\ ExitStands(s) \in { None, s.obs.exit }
      /\ ExitStands(s) = None => s.obs.exit = None \/ (s.obs.exit # None /\ native # None /\ native.at > s.obs.exit.at)
  BY DEF ExitStands
<1>3. /\ o \in Observation /\ o.exit = ExitStands(s) /\ o.run = s.obs.run /\ o.timer = s.obs.timer /\ o.attached = s.obs.attached
  BY <1>1, <1>2 DEF Observation
<1>4. [s EXCEPT !.obs.exit = ExitStands(s)] = t
  BY DEF Stores
<1> HIDE DEF o
<1>5. t \in Stores /\ SameRow(s, t) /\ t.cmd = s.cmd /\ t.queue = s.queue /\ t.obs = o /\ t.obs # None /\ Rest(s, t)
  BY <1>3, ObsSet
<1> HIDE DEF t
<1>6. ExitOK(o, World)
  BY <1>2, <1>3 DEF Core, ExitOK
<1>7. Answers(o, s.budget, World)
  <2>1. World.native = native
    BY DEF World
  <2>2. CASE ExitStands(s) = s.obs.exit
    BY <1>1, <1>3, <2>2 DEF Core, Answers
  <2>3. CASE ExitStands(s) = None /\ s.obs.exit # None
    <3>1. native # None /\ native.at > s.obs.exit.at /\ native \in Run /\ s.obs.exit \in Run
      BY <1>1, <1>2, <2>3
    <3>2. ~(s.obs.exit.at >= native.at)
      BY <3>1 DEF Run, Times
    <3> QED BY <1>3, <2>1, <2>3, <3>2 DEF Core, Answers
  <2> QED BY <1>2, <2>2, <2>3
<1>8. Core(t, World)
  BY <1>5, <1>6, <1>7 DEF Core, SameRow
<1>9. ASSUME NEW r, r # None, r = Latest(s)
      PROVE  Seen(t.obs, r) /\ r \in Run
  <2>1. o.exit # None /\ native # None => native.at <= o.exit.at
    <3> SUFFICES ASSUME o.exit # None, native # None
                 PROVE  native.at <= o.exit.at
      OBVIOUS
    <3>1. o.exit = s.obs.exit /\ ~(native.at > s.obs.exit.at) /\ native \in Run /\ s.obs.exit \in Run
      BY <1>1, <1>3 DEF ExitStands
    <3> QED BY <3>1 DEF Run, Times
  <2> QED BY <1>1, <1>2, <1>3, <1>5, <1>9, <2>1 DEF Seen, Latest
<1> QED BY <1>3, <1>4, <1>5, <1>8, <1>9

LEMMA SeenSpec ==
  ASSUME NEW s \in Stores, s.obs # None, Core(s, World), NEW r \in Run, Seen(s.obs, r)
  PROVE  LET seen == [s EXCEPT !.obs.run = r]
         IN  /\ seen \in Stores /\ Core(seen, World) /\ Rest(s, seen) /\ seen.obs # None /\ Seen(seen.obs, r)
             /\ SameRow(s, seen) /\ seen.queue = s.queue /\ seen.cmd = s.cmd
             /\ seen.obs.run = r /\ seen.obs.timer = s.obs.timer /\ seen.obs.attached = s.obs.attached
             /\ seen.obs.exit = s.obs.exit
<1> DEFINE o == [s.obs EXCEPT !.run = r]
           t == [s EXCEPT !.obs = o]
<1>1. s.obs \in Observation
  BY DEF Stores
<1>2. o \in Observation /\ o.exit = s.obs.exit /\ o.run = r /\ o.timer = s.obs.timer /\ o.attached = s.obs.attached
  BY <1>1 DEF Observation
<1>3. [s EXCEPT !.obs.run = r] = t
  BY DEF Stores
<1> HIDE DEF o
<1>4. t \in Stores /\ SameRow(s, t) /\ t.cmd = s.cmd /\ t.queue = s.queue /\ t.obs = o /\ t.obs # None /\ Rest(s, t)
  BY <1>2, ObsSet
<1> HIDE DEF t
<1>5. Core(t, World) /\ Seen(t.obs, r)
  <2>1. ExitOK(o, World) /\ Answers(o, s.budget, World)
    BY <1>2, <1>4 DEF Core, ExitOK, Answers
  <2> QED BY <1>2, <1>4, <2>1 DEF Core, SameRow, Seen
<1> QED BY <1>2, <1>3, <1>4, <1>5

LEMMA DelayType ==
  ASSUME NEW n \in 1..Len(Delays)
  PROVE  Delays[n] \in Nat /\ Delays[n] > 0
BY RecoveryAssumption

LEMMA LenType == Len(Delays) \in Nat /\ Len(Delays) > 0
BY RecoveryAssumption

LEMMA NewFailureType ==
  ASSUME NEW s \in Stores, NEW r \in Run, NEW prior \in Failure \cup {None}, now \in Nat, r.code # "none"
  PROVE  LET f == NewFailure(s, r, prior)
         IN  /\ f \in Failure /\ f.turn = r.turn /\ f.failedAt = r.at /\ f.code = r.code
             /\ f.status \in { "scheduled", "stopped" }
             /\ f.status = "scheduled" => f.attempts < Len(Delays) /\ f.next > now /\ ~WasCancelled(r)
<1> DEFINE attempts == Attempts(r, prior)
           allowed == /\ unattended /\ Fresh(s, r, prior) /\ ~WasCancelled(r)
                      /\ r.code \in { "transient", "process_exited" } /\ attempts < Len(Delays)
           f == NewFailure(s, r, prior)
<1>1. f = [turn |-> r.turn, failedAt |-> r.at, attempts |-> attempts, code |-> r.code, submitted |-> 0,
           status |-> IF allowed THEN "scheduled" ELSE "stopped",
           next |-> IF allowed THEN now + Delays[attempts + 1] ELSE 0]
  BY DEF NewFailure
<1>2. attempts \in 0..Len(Delays)
  BY LenType, NoneAssumption DEF Attempts, Failure
<1>3. allowed => attempts < Len(Delays) /\ ~WasCancelled(r)
  OBVIOUS
<1> HIDE DEF attempts, allowed, f
<1>4. allowed => now + Delays[attempts + 1] \in Nat /\ now + Delays[attempts + 1] > now
  BY <1>2, <1>3, DelayType, LenType
<1>5. r.turn \in TurnIds /\ r.at \in Nat /\ r.code \in { "transient", "permanent", "process_exited" }
  BY DEF Run, Times
<1>6. f \in Failure
  BY <1>1, <1>2, <1>4, <1>5 DEF Failure, Times
<1>7. f.turn = r.turn /\ f.failedAt = r.at /\ f.code = r.code /\ f.status \in { "scheduled", "stopped" } /\ f.attempts = attempts
  BY <1>1
<1>8. f.status = "scheduled" => allowed /\ f.next = now + Delays[attempts + 1]
  BY <1>1
<1> QED BY <1>3, <1>4, <1>6, <1>7, <1>8 DEF f

\* A failure that is not the recorded one was not answered, and is not of a stopped turn if it is to be retried.
LEMMA NewFailureFits ==
  ASSUME TypeOK, NEW s \in Stores, s.obs # None, Core(s, World), WorldOK(World),
         NEW r \in Run, Seen(s.obs, r), r.status = "failed",
         s.budget # None => s.budget.turn # r.turn
  PROVE  LET f == NewFailure(s, r, Prior(s))
         IN  /\ f \in Failure /\ f.status \in { "scheduled", "stopped" } /\ f.turn = r.turn
             /\ FailureOK(f, World) /\ NotAnswered(f, World) /\ Answers(s.obs, f, World)
<1> DEFINE f == NewFailure(s, r, Prior(s))
<1>1. now \in Nat /\ turns \in Nat /\ turns <= MaxTurns /\ stopped \subseteq 1..turns /\ native \in Run \cup {None} /\ MaxTurns \in Nat
  BY RecoveryAssumption DEF TypeOK
<1>2. /\ World.native = native /\ World.prompted = prompted /\ World.stopped = stopped /\ World.now = now
      /\ World.turns = turns /\ World.cancellation = cancellation
  BY DEF World
<1>3. s.obs \in Observation /\ s.obs.exit \in Run \cup {None}
  BY DEF Stores, Observation
<1>4. /\ r.code # "none" /\ r.at <= now /\ (r.code = "process_exited" => r.turn > MaxTurns)
  BY <1>2, <1>3 DEF Seen, ExitOK, Core, WorldOK
<1>5. /\ f \in Failure /\ f.turn = r.turn /\ f.failedAt = r.at /\ f.code = r.code
      /\ f.status \in { "scheduled", "stopped" }
      /\ f.status = "scheduled" => f.attempts < Len(Delays) /\ f.next > now /\ ~WasCancelled(r)
  BY <1>1, <1>4, PriorType, NewFailureType
<1> HIDE DEF f
<1>6. FailureOK(f, World)
  <2>1. f.next \in Nat /\ f.failedAt \in Nat
    BY <1>5 DEF Failure, Times
  <2>2. f.status = "scheduled" => f.failedAt < f.next
    BY <1>1, <1>4, <1>5, <2>1
  <2> QED BY <1>2, <1>4, <1>5, <2>2 DEF FailureOK
<1>7. << r.turn, r.at >> \notin prompted
  <2>1. CASE s.obs.exit # None
    <3>1. r = s.obs.exit
      BY <2>1 DEF Seen
    <3> QED BY <1>2, <2>1, <3>1 DEF Core, Answers
  <2>2. CASE s.obs.exit = None
    <3>1. r = native /\ native # None
      BY <2>2 DEF Seen
    <3> QED BY <1>2, <2>2, <3>1 DEF Core, Answers
  <2> QED BY <2>1, <2>2
<1>8. f.status = "scheduled" => r.turn \notin stopped
  <2>1. CASE s.obs.exit # None
    <3>1. r.turn > MaxTurns /\ r.turn \in Int
      BY <1>3, <2>1 DEF Seen, ExitOK, Core, Run, TurnIds
    <3> QED BY <1>1, <3>1
  <2>2. CASE s.obs.exit = None
    <3>1. r = native /\ native # None
      BY <2>2 DEF Seen
    <3> QED BY <1>2, <1>5, <3>1 DEF WorldOK, WasCancelled
  <2> QED BY <2>1, <2>2
<1>9. NotAnswered(f, World)
  BY <1>2, <1>5, <1>7, <1>8 DEF NotAnswered, Scheduled
<1>10. Answers(s.obs, f, World)
  <2>1. f # None
    BY <1>5, NoneAssumption
  <2>2. CASE s.obs.exit # None
    <3>1. r = s.obs.exit /\ r.code = "process_exited"
      BY <2>2 DEF Seen, ExitOK, Core
    <3>2. native # None => r.at >= native.at
      <4>1. native # None => native.at <= r.at /\ native.at \in Nat /\ r.at \in Nat
        BY <1>1, <2>2, <3>1 DEF Seen, Run, Times
      <4> QED BY <4>1
    <3> QED BY <1>2, <1>5, <2>1, <2>2, <3>1, <3>2 DEF Answers
  <2>3. CASE s.obs.exit = None
    <3>1. r = native
      BY <2>3 DEF Seen
    <3> QED BY <1>2, <1>5, <2>1, <2>3, <3>1 DEF Answers
  <2> QED BY <2>2, <2>3
<1> QED BY <1>5, <1>6, <1>9, <1>10 DEF f

\* What the rest of the step may count on.
Fine(s, t) == t \in Stores /\ Core(t, World) /\ Rest(s, t)

LEMMA FineTrans ==
  ASSUME NEW s \in Stores, NEW t \in Stores, NEW u, Rest(s, t), Fine(t, u)
  PROVE  Fine(s, u)
BY RestTrans DEF Fine

LEMMA FailedKeeps ==
  ASSUME TypeOK, NEW s \in Stores, s.obs # None, Core(s, World), WorldOK(World),
         NEW r \in Run, Seen(s.obs, r), r.status = "failed", NEW initial \in BOOLEAN
  PROVE  Fine(s, Failed(s, r, initial))
<1>1. now \in Nat /\ turn \in BOOLEAN
  BY DEF TypeOK
<1>2. Prior(s) = s.budget /\ s.budget \in Failure \cup {None}
  BY PriorIs
<1>3. CASE s.budget # None /\ s.budget.turn = r.turn
  <2> DEFINE f == s.budget
             g == [f EXCEPT !.status = "stopped"]
  <2>1. f \in Failure /\ About(f, s.budget) /\ Failed(s, r, initial) = KnownFailure(s, f, initial)
    BY <1>2, <1>3 DEF Failed, About
  <2>2. g \in Failure /\ g.status = "stopped" /\ g.turn = f.turn /\ g.failedAt = f.failedAt /\ g.code = f.code
    BY <2>1 DEF Failure
  <2>3. About(g, s.budget)
    BY <1>3, <2>2, NoneAssumption DEF About
  <2>4. KnownFailure(s, f, initial) \in { Schedule(s, f), Save(s, g), s }
    BY DEF KnownFailure
  <2> HIDE DEF f, g
  <2>5. Fine(s, Schedule(s, f))
    BY <1>1, <2>1, ScheduleKeeps, ScheduleRest DEF Fine
  <2>6. Fine(s, Save(s, g))
    BY <1>1, <2>2, <2>3, StopKeeps, SaveRest DEF Fine
  <2>7. Fine(s, s)
    BY DEF Fine, Rest
  <2> QED BY <2>1, <2>4, <2>5, <2>6, <2>7
<1>4. CASE ~(s.budget # None /\ s.budget.turn = r.turn)
  <2> DEFINE f == NewFailure(s, r, Prior(s))
             t == Save(s, f)
  <2>1. f \in Failure /\ FailureOK(f, World) /\ NotAnswered(f, World) /\ Answers(s.obs, f, World)
    BY <1>4, NewFailureFits
  <2>2. Failed(s, r, initial) \in { Schedule(t, f), t }
    BY <1>2, <1>4 DEF Failed
  <2> HIDE DEF f
  <2>3. Fine(s, t)
    BY <1>1, <2>1, SaveKeeps, SaveRest DEF Fine, Core
  <2>4. t.budget = f
    BY <1>1, <2>1, SaveSpec
  <2> HIDE DEF t
  <2>5. About(f, t.budget)
    BY <2>1, <2>4, NoneAssumption DEF About
  <2>6. Fine(t, Schedule(t, f))
    BY <1>1, <2>1, <2>3, <2>5, ScheduleKeeps, ScheduleRest DEF Fine
  <2>7. Fine(s, Schedule(t, f))
    BY <2>3, <2>6, FineTrans DEF Fine
  <2> QED BY <2>2, <2>3, <2>7
<1> QED BY <1>3, <1>4

LEMMA LivesKeeps ==
  ASSUME TypeOK, NEW s \in Stores, s.obs # None, Core(s, World), NEW r \in Run, Seen(s.obs, r), r.status # "failed",
         s.row = "bound"
  PROVE  Fine(s, Lives(s, r))
<1>1. now \in Nat /\ turn \in BOOLEAN
  BY DEF TypeOK
<1>2. Prior(s) = s.budget /\ s.budget \in Failure \cup {None}
  BY PriorIs
<1>3. s.obs.exit = None /\ r = native /\ World.native = native
  BY DEF Seen, Core, ExitOK, World
<1>4. Fine(s, Save(s, None))
  <2>1. FailureOK(None, World) /\ NotAnswered(None, World) /\ Answers(s.obs, None, World)
    BY <1>3 DEF FailureOK, NotAnswered, Scheduled, Answers
  <2> QED BY <1>1, <2>1, SaveKeeps, SaveRest DEF Fine, Core
<1>5. Fine(s, s)
  BY DEF Fine, Rest
<1> DEFINE a == [s EXCEPT !.budget = s.budget, !.visible = None]
           b == Synced(a)
<1>6. a \in Stores /\ a.row = s.row /\ a.visible = None /\ a.budget = s.budget /\ a.obs = s.obs /\ a.cmd = s.cmd /\ a.working = s.working
  BY DEF Stores
<1> HIDE DEF a
<1>7. /\ b \in Stores /\ b.row = s.row /\ b.visible = None /\ b.budget = s.budget /\ b.obs = s.obs /\ b.cmd = s.cmd
  BY <1>1, <1>6, SyncedSpec
<1> HIDE DEF b
<1>8. Core(b, World)
  BY <1>7 DEF Core
<1>9. Fine(s, Publish(b))
  <2>1. Rest(s, b)
    BY <1>7 DEF Rest
  <2>2. Fine(b, Publish(b))
    BY <1>1, <1>7, <1>8, PublishKeeps, PublishRest DEF Fine
  <2> QED BY <1>7, <2>1, <2>2, FineTrans
<1>10. Lives(s, r) \in { Save(s, None), s, Publish(b) }
  BY <1>2 DEF Lives, Acknowledge, a, b
<1> QED BY <1>4, <1>5, <1>9, <1>10

LEMMA RefreshKeeps ==
  ASSUME TypeOK, NEW s \in Stores, Core(s, World), WorldOK(World), cmd # None
  PROVE  Fine(s, Refreshed(s))
<1>1. now \in Nat /\ turn \in BOOLEAN /\ native \in Run \cup {None}
  BY DEF TypeOK
<1>2. CASE ~cmd.live \/ s.obs = None
  BY <1>2 DEF Refreshed, Fine, Rest
<1>3. CASE cmd.live /\ s.obs # None
  <2> DEFINE kept == [s EXCEPT !.obs.exit = ExitStands(s)]
             r == Latest(s)
             seen == [kept EXCEPT !.obs.run = r]
             base == ClearTimer(Synced(seen))
             initial == kept.obs.run = None
  <2>1. /\ kept \in Stores /\ Core(kept, World) /\ Rest(s, kept) /\ kept.obs # None
        /\ r # None => Seen(kept.obs, r) /\ r \in Run
    BY <1>1, <1>3, KeptSpec
  <2>2. Refreshed(s) \in { kept, Observe(kept, r) } /\ (r = None => Refreshed(s) = kept)
    BY <1>3 DEF Refreshed, Unseen
  <2>3. Observe(kept, r) = IF seen.row # "bound" THEN seen
                           ELSE IF r.status = "failed" THEN Failed(base, r, initial) ELSE Lives(base, r)
    BY DEF Observe
  <2> HIDE DEF kept, r
  <2>4. Fine(s, kept)
    BY <2>1 DEF Fine
  <2>5. ASSUME r # None PROVE Fine(s, Observe(kept, r))
    <3>1. seen \in Stores /\ Core(seen, World) /\ Rest(kept, seen) /\ seen.obs # None /\ Seen(seen.obs, r)
      BY <2>1, <2>5, SeenSpec
    <3> DEFINE a == Synced(seen)
    <3> HIDE DEF seen, a
    <3>2. a \in Stores /\ a.row = seen.row /\ a.visible = seen.visible /\ a.budget = seen.budget /\ a.obs = seen.obs /\ a.cmd = seen.cmd
      BY <1>1, <3>1, SyncedSpec DEF a
    <3>3. Core(a, World)
      BY <3>1, <3>2 DEF Core
    <3>4. base \in Stores /\ SameRow(a, base) /\ SameObs(a.obs, base.obs) /\ base.cmd = a.cmd /\ Core(base, World)
      BY <3>2, <3>3, ClearTimerSpec, ClearTimerKeeps DEF a
    <3> HIDE DEF base
    <3>5. seen.row = "bound" => Rest(seen, base)
      BY <3>1, <3>2, <3>4 DEF Rest, SameRow, SameObs
    <3>6. base.obs # None /\ Seen(base.obs, r) /\ base.row = seen.row
      BY <3>1, <3>2, <3>4 DEF SameObs, SameRow, Seen
    <3>7. Fine(s, seen)
      BY <2>1, <2>4, <3>1, FineTrans DEF Fine
    <3>8. ASSUME seen.row = "bound", r.status = "failed" PROVE Fine(s, Failed(base, r, initial))
      <4>1. Fine(base, Failed(base, r, initial))
        BY <2>1, <2>5, <3>4, <3>6, <3>8, FailedKeeps
      <4> QED BY <3>1, <3>4, <3>5, <3>7, <3>8, <4>1, FineTrans DEF Fine
    <3>9. ASSUME seen.row = "bound", r.status # "failed" PROVE Fine(s, Lives(base, r))
      <4>1. Fine(base, Lives(base, r))
        BY <2>1, <2>5, <3>4, <3>6, <3>9, LivesKeeps
      <4> QED BY <3>1, <3>4, <3>5, <3>7, <3>9, <4>1, FineTrans DEF Fine
    <3> QED BY <2>3, <3>7, <3>8, <3>9
  <2> QED BY <2>2, <2>4, <2>5
<1> QED BY <1>2, <1>3

-----------------------------------------------------------------------------
(***************************************************************************)
(* The inductive invariant.                                                *)
(***************************************************************************)
Commands(s, e) == s.cmd # None =>
    /\ s.cmd.kind = "retry" /\ s.cmd.live => s.obs # None
    /\ s.cmd.step \in { "ask", "submit" } => s.cmd.kind = "retry"
    /\ s.cmd.step = "relaunch" \/ s.cmd.kind = "reconcile" => ~e.alive
    /\ s.cmd.step = "relaunch" => s.row # "bound"
    /\ s.cmd.step \in { "ask", "relaunch" } /\ s.cmd.kind = "retry" /\ s.cmd.same /\ s.visible # None => s.visible.next <= e.now
    /\ s.cmd.step = "submit" /\ s.cmd.same /\ s.visible # None =>
         /\ s.visible.turn \notin e.stopped
         /\ ~s.cmd.sent => << s.visible.turn, s.visible.failedAt >> \notin e.prompted

RowOK(s, e) == s.row # "bound" => ~e.alive /\ ~s.working

Outer ==
    /\ now \in 0..MaxTime /\ turns \in 0..MaxTurns /\ pid \in 1..MaxPids
    /\ native \in Run \cup {None} /\ turn \in BOOLEAN /\ prompt \in BOOLEAN /\ alive \in BOOLEAN
    /\ unattended \in BOOLEAN
    /\ cancellation \in Cancellation \cup {None}
    /\ stops \in 0..MaxStops /\ restarts \in 0..MaxRestarts
    /\ prompted \subseteq TurnIds \X Times /\ spent \in Nat /\ stopped \subseteq 1..turns

Answered ==
    /\ TypeOK
    /\ Core(Here, World) /\ WorldOK(World) /\ Commands(Here, World) /\ RowOK(Here, World)

LEMMA Bounds ==
  /\ MaxTime \in Nat /\ MaxTime > 0 /\ MaxPids \in Nat /\ MaxPids > 0 /\ MaxTurns \in Nat /\ MaxStops \in Nat
  /\ MaxRestarts \in Nat /\ AckWait \in Nat /\ Window \in Nat
BY RecoveryAssumption

LEMMA Fields ==
  /\ Here.row = row /\ Here.working = working /\ Here.visible = visible /\ Here.budget = budget
  /\ Here.obs = obs /\ Here.queue = queue /\ Here.cmd = cmd
  /\ World.now = now /\ World.native = native /\ World.turns = turns /\ World.turn = turn /\ World.alive = alive
  /\ World.prompted = prompted /\ World.stopped = stopped /\ World.cancellation = cancellation
BY DEF Here, World

LEMMA NextFields ==
  /\ World'.now = now' /\ World'.native = native' /\ World'.turns = turns' /\ World'.turn = turn' /\ World'.alive = alive'
  /\ World'.prompted = prompted' /\ World'.stopped = stopped' /\ World'.cancellation = cancellation'
BY DEF World

LEMMA Given ==
  ASSUME Answered
  PROVE  Here \in Stores /\ Outer /\ now \in Nat /\ turn \in BOOLEAN /\ native \in Run \cup {None} /\ turns \in Nat /\ MaxTurns \in Nat
BY HereType, Bounds DEF Answered, TypeOK, Outer

LEMMA Closes ==
  ASSUME NEW t \in Stores, Become(t), Outer',
         Core(t, World'), WorldOK(World'), Commands(t, World'), RowOK(t, World')
  PROVE  Answered'
<1>1. Here' = t
  BY BecomeType
<1>2. TypeOK'
  BY DEF Become, Stores, TypeOK, Outer
<1> QED BY <1>1, <1>2 DEF Answered

LEMMA Stands ==
  ASSUME Here \in Stores, UNCHANGED << row, working, visible, budget, obs, queue, cmd >>
  PROVE  Become(Here)
BY DEF Become, Here

\* A step that changes the newest run, or gives up what was remembered of a stopped turn.
LEMMA CoreWorld ==
  ASSUME NEW s, NEW e, NEW d, Core(s, e), e.prompted = d.prompted, d.stopped \subseteq e.stopped, d.now = e.now,
         d.native = e.native \/ (d.native # None /\ (d.native.status # "failed" \/ << d.native.turn, d.native.at >> \notin e.prompted))
  PROVE  Core(s, d)
BY DEF Core, FailureOK, NotAnswered, Scheduled, ExitOK, Answers

LEMMA CommandsRest ==
  ASSUME NEW s \in Stores, NEW t \in Stores, NEW e, NEW d, Commands(s, e), Rest(s, t), t.visible = s.visible,
         e.prompted = d.prompted, d.stopped \subseteq e.stopped, d.now = e.now, d.alive => e.alive
  PROVE  Commands(t, d)
BY DEF Commands, Rest

LEMMA CoreSame ==
  ASSUME NEW s, NEW t, NEW e, Core(s, e), t.visible = s.visible, t.budget = s.budget, t.obs = s.obs
  PROVE  Core(t, e)
BY DEF Core

-----------------------------------------------------------------------------
(***************************************************************************)
(* The provider, the network and the clock.                                *)
(***************************************************************************)
LEMMA InitAnswered == Init => Answered
<1> SUFFICES ASSUME Init PROVE Answered
  OBVIOUS
<1>1. obs \in Observation /\ obs # None /\ obs.exit = None
  <2>1. obs \in Observation
    BY DEF Init, Observation, Times
  <2> QED BY <2>1, NoneAssumption DEF Init
<1>2. TypeOK
  <2>1. now \in 0..MaxTime /\ turns \in 0..MaxTurns /\ pid \in 1..MaxPids /\ stops \in 0..MaxStops /\ restarts \in 0..MaxRestarts
    BY Bounds DEF Init
  <2>2. queue \in Seq(Job)
    BY DEF Init
  <2>3. prompted \subseteq TurnIds \X Times /\ spent \in Nat /\ stopped \subseteq 1..turns
    BY DEF Init
  <2>4. /\ native \in Run \cup {None} /\ turn \in BOOLEAN /\ prompt \in BOOLEAN /\ alive \in BOOLEAN
        /\ row \in { "bound", "starting", "error" } /\ working \in BOOLEAN /\ unattended \in BOOLEAN
        /\ visible \in Failure \cup {None} /\ budget \in Failure \cup {None}
        /\ cancellation \in Cancellation \cup {None} /\ cmd \in Command \cup {None}
    BY DEF Init
  <2> QED BY <1>1, <2>1, <2>2, <2>3, <2>4 DEF TypeOK
<1>3. Core(Here, World)
  BY <1>1, Fields DEF Init, Core, FailureOK, NotAnswered, Scheduled, ExitOK, Answers
<1>4. WorldOK(World) /\ Commands(Here, World) /\ RowOK(Here, World)
  BY Fields DEF Init, WorldOK, Commands, RowOK
<1> QED BY <1>2, <1>3, <1>4 DEF Answered

LEMMA TickKeeps ==
  ASSUME Answered, Tick
  PROVE  Answered'
<1>1. Here \in Stores /\ Become(Here)
  BY Given, Stands DEF Tick, durable, memory
<1>2. Outer'
  <2>1. now' \in 0..MaxTime
    BY Given, Bounds DEF Outer, Tick
  <2> QED BY <2>1, Given DEF Outer, Tick, provider, durable, history
<1>3. /\ World'.now = now + 1 /\ World'.native = native /\ World'.turns = turns /\ World'.turn = turn /\ World'.alive = alive
      /\ World'.prompted = prompted /\ World'.stopped = stopped /\ World'.cancellation = cancellation
  BY NextFields DEF Tick, provider, durable, history
<1>4. Core(Here, World')
  <2>1. FailureOK(budget, World')
    <3>1. budget # None => budget.failedAt \in Nat
      BY <1>1, Fields DEF Stores, Failure, Times
    <3> QED BY <1>3, <3>1, Given, Fields DEF Answered, Core, FailureOK
  <2>2. ExitOK(obs, World')
    <3>1. obs # None /\ obs.exit # None => obs.exit.at \in Nat
      BY <1>1, Fields DEF Stores, Observation, Run, Times
    <3> QED BY <1>3, <3>1, Given, Fields DEF Answered, Core, ExitOK
  <2>3. NotAnswered(budget, World') /\ Answers(obs, budget, World')
    BY <1>3, Fields DEF Answered, Core, NotAnswered, Answers
  <2> QED BY <2>1, <2>2, <2>3, Fields DEF Answered, Core
<1>5. WorldOK(World')
  <2>1. native # None => native.at \in Nat /\ native.started \in Nat
    BY Given DEF Run, Times
  <2>2. \A k \in prompted : k[2] \in Nat
    BY DEF Answered, TypeOK, Times
  <2>3. \A k \in prompted : k[2] < now + 1
    BY <2>2, Given, Fields DEF Answered, WorldOK
  <2>4. native # None => native.at <= now + 1 /\ native.started <= now + 1
    BY <2>1, Given, Fields DEF Answered, WorldOK
  <2> QED BY <1>3, <2>3, <2>4, Fields DEF Answered, WorldOK
<1>6. Commands(Here, World')
  <2>1. visible # None => visible.next \in Nat
    BY <1>1, Fields DEF Stores, Failure, Times
  <2> QED BY <1>3, <2>1, Given, Fields DEF Answered, Commands
<1>7. RowOK(Here, World')
  BY <1>3, Fields DEF Answered, RowOK
<1> QED BY <1>1, <1>2, <1>4, <1>5, <1>6, <1>7, Closes

LEMMA TurnStartsKeeps ==
  ASSUME Answered, TurnStarts
  PROVE  Answered'
<1> DEFINE x == [Here EXCEPT !.working = ~HoldsDown(visible)]
           t == Changed(Publish(x))
<1>1. /\ x \in Stores /\ x.row = row /\ x.visible = visible /\ x.budget = budget /\ x.obs = obs /\ x.cmd = cmd
  <2>1. (~HoldsDown(visible)) \in BOOLEAN
    BY DEF HoldsDown
  <2> QED BY <2>1, Given, Fields DEF Stores
<1>2. Become(t)
  BY DEF TurnStarts
<1> HIDE DEF x
<1>3. row = "bound" /\ alive
  BY Fields DEF Answered, RowOK, TurnStarts
<1>4. /\ World'.now = now /\ World'.native = native' /\ World'.turns = turns + 1 /\ World'.turn = TRUE /\ World'.alive = alive
      /\ World'.prompted = prompted /\ World'.stopped = stopped /\ World'.cancellation = cancellation
  BY NextFields DEF TurnStarts, clock
<1>5. /\ native'.turn = turns + 1 /\ native'.status = "running" /\ native'.at = now /\ native'.started = now
      /\ native'.code = "none"
  BY DEF TurnStarts
<1>6. native' \in Run /\ native' # None
  <2>1. turns + 1 \in TurnIds
    BY Given, Bounds DEF TurnIds, TurnStarts
  <2>2. /\ turns' = turns + 1 /\ now \in Nat
        /\ native' = [turn |-> turns', status |-> "running", at |-> now, started |-> now, progress |-> 0, code |-> "none"]
    BY Given DEF TurnStarts
  <2>3. native' \in Run
    BY <2>1, <2>2 DEF Run, Times
  <2> QED BY <2>3, NoneAssumption
<1>7. Core(x, World')
  <2>1. Core(Here, World')
    BY <1>4, <1>5, <1>6, Fields, CoreWorld DEF Answered
  <2> QED BY <1>1, <2>1, Fields, CoreSame
<1> DEFINE y == Publish(x)
<1>8. y \in Stores /\ Core(y, World') /\ SameRow(x, y) /\ y.cmd = cmd /\ (obs # None => y.obs # None)
  BY <1>1, <1>3, <1>7, Given, PublishSpec, PublishKeeps DEF Watchable
<1> HIDE DEF y
<1>9. t \in Stores /\ SameRow(y, t) /\ t.obs = y.obs /\ t.cmd = y.cmd
  BY <1>8, ChangedSpec DEF y
<1> HIDE DEF t
<1>10. Core(t, World')
  BY <1>8, <1>9, CoreSame DEF SameRow
<1>11. Commands(t, World')
  BY <1>1, <1>3, <1>4, <1>8, <1>9, Fields DEF Answered, Commands, SameRow
<1>12. RowOK(t, World')
  BY <1>1, <1>3, <1>8, <1>9 DEF RowOK, SameRow
<1>13. WorldOK(World')
  <2>1. turns + 1 \notin stopped /\ turns + 1 \in 1..(turns + 1)
    BY Given DEF Answered, TypeOK
  <2> QED BY <1>3, <1>4, <1>5, <1>6, <2>1, Given, Fields DEF Answered, WorldOK
<1>14. Outer'
  <2>1. turns' = turns + 1 /\ turns' \in 0..MaxTurns /\ stopped' \subseteq 1..turns'
    BY Given DEF Answered, TypeOK, TurnStarts
  <2> QED BY <1>6, <2>1, Given DEF Outer, TurnStarts, clock
<1> QED BY <1>2, <1>9, <1>10, <1>11, <1>12, <1>13, <1>14, Closes

LEMMA EndedType ==
  ASSUME NEW r \in Run, now \in Nat, NEW status \in { "completed", "cancelled", "failed" },
         NEW code \in { "none", "transient", "permanent" }
  PROVE  /\ Ended(r, status, code) \in Run /\ Ended(r, status, code) # None
         /\ Ended(r, status, code).turn = r.turn /\ Ended(r, status, code).started = r.started
         /\ Ended(r, status, code).at = now /\ Ended(r, status, code).status = status /\ Ended(r, status, code).code = code
<1>1. /\ Ended(r, status, code) \in Run
      /\ Ended(r, status, code).turn = r.turn /\ Ended(r, status, code).started = r.started
      /\ Ended(r, status, code).at = now /\ Ended(r, status, code).status = status /\ Ended(r, status, code).code = code
  BY DEF Ended, Run, Times
<1> QED BY <1>1, NoneAssumption

LEMMA ItemCompletedKeeps ==
  ASSUME Answered, ItemCompleted
  PROVE  Answered'
<1> DEFINE t == IF visible # None THEN Changed(Here) ELSE Here
<1>1. Become(t)
  BY DEF ItemCompleted
<1>2. t \in Stores /\ SameRow(Here, t) /\ t.obs = obs /\ t.cmd = cmd
  BY Given, Fields, ChangedSpec DEF SameRow
<1> HIDE DEF t
<1>3. turn /\ native # None /\ native \in Run /\ native.status = "running"
  BY Given, Fields DEF Answered, WorldOK, ItemCompleted
<1>4. /\ native' \in Run /\ native'.turn = native.turn /\ native'.status = "running" /\ native'.at = native.at
      /\ native'.started = native.started /\ native'.code = native.code
  BY <1>3, Given DEF ItemCompleted, Run, Times
<1>5. /\ World'.now = now /\ World'.native = native' /\ World'.turns = turns /\ World'.turn = turn /\ World'.alive = alive
      /\ World'.prompted = prompted /\ World'.stopped = stopped /\ World'.cancellation = cancellation
  BY NextFields DEF ItemCompleted, clock
<1>6. native' # None
  BY <1>4, NoneAssumption
<1>7. Core(t, World')
  <2>1. Core(Here, World')
    BY <1>4, <1>5, <1>6, Fields, CoreWorld DEF Answered
  <2> QED BY <1>2, <2>1, Fields, CoreSame DEF SameRow
<1>8. Commands(t, World') /\ RowOK(t, World')
  BY <1>2, <1>5, Fields DEF Answered, Commands, RowOK, SameRow
<1>9. WorldOK(World')
  BY <1>3, <1>4, <1>5, <1>6, Fields DEF Answered, WorldOK
<1>10. Outer'
  BY <1>4, Given DEF Outer, ItemCompleted, clock
<1> QED BY <1>1, <1>2, <1>7, <1>8, <1>9, <1>10, Closes

LEMMA TurnEndsKeeps ==
  ASSUME Answered, NEW status \in { "completed", "cancelled", "failed" }, NEW code \in { "none", "transient", "permanent" },
         status = "failed" => code # "none", TurnEnds(status, code)
  PROVE  Answered'
<1> DEFINE x == [Here EXCEPT !.working = FALSE]
           t == Changed(Publish(x))
<1>1. /\ x \in Stores /\ x.row = row /\ x.visible = visible /\ x.budget = budget /\ x.obs = obs /\ x.cmd = cmd
  BY Given, Fields DEF Stores
<1>2. Become(t)
  BY DEF TurnEnds
<1> HIDE DEF x
<1>3. turn /\ alive /\ native # None /\ native \in Run /\ native.status = "running" /\ row = "bound"
  BY Given, Fields DEF Answered, WorldOK, RowOK, TurnEnds
<1>4. /\ native' \in Run /\ native' # None /\ native'.turn = native.turn /\ native'.started = native.started /\ native'.at = now
      /\ native'.status = status /\ native'.code = code
  BY <1>3, Given, EndedType DEF TurnEnds
<1>5. /\ World'.now = now /\ World'.native = native' /\ World'.turns = turns /\ World'.turn = FALSE /\ World'.alive = alive
      /\ World'.prompted = prompted /\ World'.stopped = stopped /\ World'.cancellation = cancellation
  BY NextFields DEF TurnEnds, clock
<1>6. << native'.turn, native'.at >> \notin prompted
  BY <1>4, Given, Fields DEF Answered, WorldOK
<1>7. Core(x, World')
  <2>1. Core(Here, World')
    BY <1>4, <1>5, <1>6, Fields, CoreWorld DEF Answered
  <2> QED BY <1>1, <2>1, Fields, CoreSame
<1> DEFINE y == Publish(x)
<1>8. y \in Stores /\ Core(y, World') /\ SameRow(x, y) /\ y.cmd = cmd /\ (obs # None => y.obs # None)
  BY <1>1, <1>3, <1>7, Given, PublishSpec, PublishKeeps DEF Watchable
<1> HIDE DEF y
<1>9. t \in Stores /\ SameRow(y, t) /\ t.obs = y.obs /\ t.cmd = y.cmd
  BY <1>8, ChangedSpec DEF y
<1> HIDE DEF t
<1>10. Core(t, World')
  BY <1>8, <1>9, CoreSame DEF SameRow
<1>11. Commands(t, World')
  BY <1>1, <1>3, <1>5, <1>8, <1>9, Fields DEF Answered, Commands, SameRow
<1>12. RowOK(t, World')
  BY <1>1, <1>3, <1>8, <1>9 DEF RowOK, SameRow
<1>13. WorldOK(World')
  BY <1>3, <1>4, <1>5, Given, Fields DEF Answered, WorldOK
<1>14. Outer'
  BY <1>4, Given DEF Outer, TurnEnds, clock
<1> QED BY <1>2, <1>9, <1>10, <1>11, <1>12, <1>13, <1>14, Closes

\* A job takes its place in the queue, or the timer it comes from is gone.
LEMMA QueueType ==
  ASSUME Answered, NEW kind \in { "refresh", "retry", "ack", "loss", "reconcile" }
  PROVE  Append(queue, [kind |-> kind, live |-> TRUE]) \in Seq(Job)
<1>1. [kind |-> kind, live |-> TRUE] \in Job
  BY DEF Job
<1> QED BY <1>1 DEF Answered, TypeOK

\* The queue of the chain says nothing of failures.
LEMMA QueueStep ==
  ASSUME Answered, queue' \in Seq(Job), UNCHANGED << row, working, visible, budget, obs, cmd >>,
         UNCHANGED << now, native, turns, prompted, stopped, cancellation >>,
         Outer', turn' = TRUE => turn, turn' = TRUE => alive', alive' => alive
  PROVE  Answered'
<1> DEFINE t == [Here EXCEPT !.queue = queue']
<1>1. t \in Stores /\ SameRow(Here, t) /\ t.obs = obs /\ t.cmd = cmd /\ t.queue = queue'
  BY Given, Fields DEF Stores, SameRow
<1> HIDE DEF t
<1>2. Become(t)
  BY <1>1, Fields DEF Become, SameRow
<1>3. Core(t, World')
  <2>1. Core(Here, World')
    BY NextFields, Fields, CoreWorld DEF Answered
  <2> QED BY <1>1, <2>1, Fields, CoreSame DEF SameRow
<1>4. Commands(t, World') /\ RowOK(t, World')
  BY <1>1, Fields, NextFields DEF Answered, Commands, RowOK, SameRow
<1>5. WorldOK(World')
  BY Fields, NextFields, Given DEF Answered, WorldOK, Outer
<1> QED BY <1>1, <1>2, <1>3, <1>4, <1>5, Closes

LEMMA ConnectionLostKeeps ==
  ASSUME Answered, ConnectionLost
  PROVE  Answered'
<1>1. queue' \in Seq(Job)
  BY QueueType DEF ConnectionLost
<1>2. Outer'
  BY Given DEF Outer, ConnectionLost, clock, durable
<1> QED BY <1>1, <1>2, QueueStep DEF ConnectionLost, clock, durable

LEMMA ReconcileKeeps ==
  ASSUME Answered, Reconcile
  PROVE  Answered'
<1>1. queue' \in Seq(Job)
  BY QueueType DEF Reconcile
<1>2. Outer'
  BY Given DEF Outer, Reconcile, clock, durable, provider, history
<1>3. (turn' = TRUE => turn) /\ (turn' = TRUE => alive')
  BY Fields DEF Answered, WorldOK, Reconcile, provider
<1> QED BY <1>1, <1>2, <1>3, QueueStep DEF Reconcile, clock, durable, provider, history

LEMMA PermitKeeps ==
  ASSUME Answered, Permit
  PROVE  Answered'
<1>1. queue' \in Seq(Job)
  BY DEF Permit, memory, Answered, TypeOK
<1>2. Outer'
  BY Given DEF Outer, Permit, clock, provider, history
<1>3. (turn' = TRUE => turn) /\ (turn' = TRUE => alive')
  BY Fields DEF Answered, WorldOK, Permit, provider
<1> QED BY <1>1, <1>2, <1>3, QueueStep DEF Permit, clock, provider, history, memory

LEMMA TimerFiresKeeps ==
  ASSUME Answered, TimerFires
  PROVE  Answered'
<1> DEFINE j == [kind |-> obs.timer.kind, live |-> TRUE]
           t == [Here EXCEPT !.obs.timer = None, !.queue = Append(@, j)]
           a == [Here EXCEPT !.obs.timer = None]
<1>1. obs \in Observation /\ obs # None /\ obs.timer \in Timer
  BY DEF TimerFires, Answered, TypeOK, Observation
<1>2. /\ a \in Stores /\ SameRow(Here, a) /\ SameObs(obs, a.obs) /\ a.cmd = cmd /\ a.queue = queue
  BY <1>1, Given, Fields, TimerSet
<1>3. a.obs = obs'
  BY <1>1, Fields, Given DEF TimerFires, Stores
<1>4. queue' \in Seq(Job)
  BY <1>1, QueueType DEF TimerFires, Timer
<1> HIDE DEF a
<1> DEFINE b == [a EXCEPT !.queue = queue']
<1>5. /\ b \in Stores /\ SameRow(Here, b) /\ SameObs(obs, b.obs) /\ b.cmd = cmd /\ b.queue = queue' /\ b.obs = obs'
  BY <1>2, <1>3, <1>4 DEF Stores, SameRow
<1> HIDE DEF b
<1>6. Become(b)
  BY <1>5, Fields DEF Become, SameRow, TimerFires, durable
<1>7. /\ World'.now = now /\ World'.native = native /\ World'.turns = turns /\ World'.turn = turn /\ World'.alive = alive
      /\ World'.prompted = prompted /\ World'.stopped = stopped /\ World'.cancellation = cancellation
  BY NextFields DEF TimerFires, clock, provider, durable, history
<1>8. Core(b, World')
  <2>1. Core(Here, World')
    BY <1>7, Fields, CoreWorld DEF Answered
  <2> QED BY <1>5, <2>1, Fields DEF SameRow, SameObs, Core, ExitOK, Answers
<1>9. Commands(b, World') /\ RowOK(b, World')
  BY <1>5, <1>7, Fields DEF Answered, Commands, RowOK, SameRow, SameObs
<1>10. WorldOK(World')
  BY <1>7, Fields DEF Answered, WorldOK
<1>11. Outer'
  BY Given DEF Outer, TimerFires, clock, provider, durable, history
<1> QED BY <1>5, <1>6, <1>8, <1>9, <1>10, <1>11, Closes

LEMMA RestartKeeps ==
  ASSUME Answered, Restart
  PROVE  Answered'
<1> DEFINE t == [Here EXCEPT !.obs = None, !.queue = << >>, !.cmd = None]
<1>1. /\ t \in Stores /\ SameRow(Here, t) /\ t.obs = None /\ t.cmd = None /\ t.queue = << >>
  <2>1. << >> \in Seq(Job)
    OBVIOUS
  <2> QED BY <2>1, Given, Fields DEF Stores, SameRow
<1> HIDE DEF t
<1>2. Become(t)
  BY <1>1, Fields DEF Become, SameRow, Restart, durable
<1>3. /\ World'.now = now /\ World'.native = native' /\ World'.turns = turns /\ World'.turn = FALSE /\ World'.alive = FALSE
      /\ World'.prompted = prompted /\ World'.stopped = stopped /\ World'.cancellation = cancellation
  BY NextFields DEF Restart, clock, durable
<1>4. \/ native' = native
      \/ /\ native # None /\ native' \in Run /\ native' # None /\ native'.turn = native.turn /\ native'.at = now
         /\ native'.started = native.started /\ << native'.status, native'.code >> \in { << "completed", "none" >>, << "failed", "transient" >> }
  <2>1. CASE ~turn
    BY <2>1 DEF Restart, Leftovers
  <2>2. CASE turn
    <3>1. native # None /\ native \in Run
      BY <2>2, Given, Fields DEF Answered, WorldOK
    <3>2. native' \in { native, Ended(native, "completed", "none"), Ended(native, "failed", "transient") }
      BY <2>2 DEF Restart, Leftovers
    <3> QED BY <3>1, <3>2, Given, EndedType
  <2> QED BY <2>1, <2>2, Given
<1>5. native' = native \/ << native'.turn, native'.at >> \notin prompted
  BY <1>4, Given, Fields DEF Answered, WorldOK
<1>6. Core(t, World')
  <2>1. Core(Here, World')
    BY <1>3, <1>4, <1>5, Fields, CoreWorld DEF Answered
  <2> QED BY <1>1, <2>1, Fields DEF SameRow, Core, ExitOK, Answers
<1>7. Commands(t, World') /\ RowOK(t, World')
  BY <1>1, <1>3, Fields DEF Answered, Commands, RowOK, SameRow
<1>8. WorldOK(World')
  BY <1>3, <1>4, Given, Fields DEF Answered, WorldOK
<1>9. Outer'
  <2>1. native' \in Run \cup {None}
    BY <1>4, Given
  <2>2. spent' \in Nat /\ restarts' \in 0..MaxRestarts
    BY Given, Bounds DEF Restart, Outer
  <2> QED BY <2>1, <2>2, Given DEF Outer, Restart, clock, durable
<1> QED BY <1>1, <1>2, <1>6, <1>7, <1>8, <1>9, Closes

-----------------------------------------------------------------------------
(***************************************************************************)
(* Stop.                                                                   *)
(***************************************************************************)
LEMMA CancelKeeps ==
  ASSUME Answered, Cancel
  PROVE  Answered'
<1> DEFINE c == IF cmd = None THEN None ELSE [cmd EXCEPT !.same = FALSE]
           a == [Here EXCEPT !.cmd = c]
           cleared == ClearTimer(a)
           prior == Prior(Here)
           t == IF prior # None /\ prior.status # "stopped" THEN Save(cleared, Stopped(prior)) ELSE cleared
<1>1. c \in Command \cup {None} /\ (c = None <=> cmd = None) /\ (c # None => ~c.same /\ c.kind = cmd.kind /\ c.live = cmd.live /\ c.step = cmd.step)
  <2>1. CASE cmd = None
    BY <2>1
  <2>2. CASE cmd # None
    <3>1. cmd \in Command
      BY <2>2 DEF Answered, TypeOK
    <3>2. c \in Command /\ ~c.same /\ c.kind = cmd.kind /\ c.live = cmd.live /\ c.step = cmd.step
      BY <2>2, <3>1 DEF Command
    <3> QED BY <2>2, <3>2, NoneAssumption
  <2> QED BY <2>1, <2>2
<1>2. Become(t)
  BY Fields DEF Cancel
<1> HIDE DEF c
<1>3. a \in Stores /\ SameRow(Here, a) /\ a.obs = obs /\ a.cmd = c
  BY <1>1, Given, Fields DEF Stores, SameRow
<1> HIDE DEF a
<1>4. Core(a, World)
  BY <1>3, Fields, CoreSame DEF SameRow, Answered
<1>5. /\ cleared \in Stores /\ SameRow(a, cleared) /\ SameObs(a.obs, cleared.obs) /\ cleared.cmd = c
      /\ Core(cleared, World) /\ Rest(a, cleared)
  BY <1>3, <1>4, ClearTimerSpec, ClearTimerRest, ClearTimerKeeps
<1> HIDE DEF cleared
<1>6. prior = budget /\ prior \in Failure \cup {None}
  BY Given, Fields, PriorIs DEF Answered
<1>7. /\ t \in Stores /\ Rest(a, t) /\ Core(t, World) /\ ~Scheduled(t.budget)
  <2>1. CASE prior # None /\ prior.status # "stopped"
    <3> DEFINE f == Stopped(prior)
    <3>1. f \in Failure /\ f # None /\ About(f, cleared.budget) /\ f.status = "stopped"
      BY <1>3, <1>5, <1>6, <2>1, Fields, StoppedType, NoneAssumption DEF About, SameRow
    <3>2. t = Save(cleared, f)
      BY <2>1
    <3> HIDE DEF f, t
    <3>3. Core(t, World) /\ t \in Stores /\ Rest(cleared, t) /\ t.budget = f
      BY <1>5, <3>1, <3>2, Given, StopKeeps, SaveRest, SaveSpec
    <3> QED BY <1>3, <1>5, <3>1, <3>3, RestTrans DEF Scheduled
  <2>2. CASE ~(prior # None /\ prior.status # "stopped")
    <3>1. t = cleared /\ t.budget = prior
      BY <1>3, <1>5, <1>6, <2>2, Fields DEF SameRow
    <3> QED BY <1>5, <2>2, <3>1 DEF Scheduled
  <2> QED BY <2>1, <2>2
<1> HIDE DEF t, prior
<1>8. /\ World'.now = now /\ World'.native = native /\ World'.turns = turns /\ World'.turn = turn /\ World'.alive = alive
      /\ World'.prompted = prompted /\ World'.stopped = 1..turns /\ World'.cancellation = cancellation'
      /\ cancellation' = [turn |-> IF obs # None /\ obs.run # None THEN obs.run.turn ELSE None, at |-> now]
  BY NextFields DEF Cancel, clock, provider
<1>9. Core(t, World')
  BY <1>7, <1>8, Fields DEF Core, FailureOK, NotAnswered, ExitOK, Answers
<1>10. Commands(t, World') /\ RowOK(t, World')
  <2>1. t.cmd # None => ~t.cmd.same
    BY <1>1, <1>3, <1>7 DEF Rest
  <2>2. Commands(t, World')
    BY <1>1, <1>3, <1>7, <1>8, <2>1, Fields DEF Answered, Commands, Rest, SameRow
  <2>3. RowOK(t, World')
    BY <1>3, <1>7, <1>8, Fields DEF Answered, RowOK, Rest, SameRow
  <2> QED BY <2>2, <2>3
<1>11. cancellation' \in Cancellation /\ cancellation' # None
  <2>1. obs # None /\ obs.run # None => obs.run.turn \in TurnIds
    BY DEF Answered, TypeOK, Observation, Run
  <2>2. cancellation' \in Cancellation
    BY <1>8, <2>1, Given DEF Times, Cancellation
  <2> QED BY <2>2, NoneAssumption
<1>12. WorldOK(World')
  BY <1>8, <1>11, Fields DEF Answered, WorldOK
<1>13. Outer'
  <2>1. stops' \in 0..MaxStops /\ stopped' \subseteq 1..turns'
    BY Given, Bounds DEF Cancel, Outer, provider
  <2> QED BY <1>11, <2>1, Given DEF Outer, Cancel, clock, provider
<1> QED BY <1>2, <1>7, <1>9, <1>10, <1>12, <1>13, Closes

-----------------------------------------------------------------------------
(***************************************************************************)
(* Commands begin.                                                         *)
(***************************************************************************)
Good(s, e) == s \in Stores /\ Core(s, e) /\ Commands(s, e) /\ RowOK(s, e)

LEMMA CmdSet ==
  ASSUME NEW s \in Stores, NEW c \in Command \cup {None}
  PROVE  LET t == [s EXCEPT !.cmd = c] IN t \in Stores /\ SameRow(s, t) /\ t.obs = s.obs /\ t.cmd = c /\ t.queue = s.queue
BY DEF Stores, SameRow

LEMMA ReadingSpec ==
  ASSUME NEW s \in Stores, NEW kind \in { "refresh", "retry", "ack", "loss", "reconcile" }
  PROVE  /\ Reading(s, kind) \in Stores /\ SameRow(s, Reading(s, kind)) /\ Reading(s, kind).obs = s.obs
         /\ Reading(s, kind).cmd # None /\ Reading(s, kind).cmd.kind = kind /\ Reading(s, kind).cmd.live
         /\ Reading(s, kind).cmd.same /\ Reading(s, kind).cmd.step = "read"
<1> DEFINE c == [kind |-> kind, live |-> TRUE, same |-> TRUE, step |-> "read", sent |-> FALSE]
<1>1. c \in Command /\ c.kind = kind /\ c.live /\ c.same /\ c.step = "read"
  BY DEF Command
<1>2. c # None
  BY <1>1, NoneAssumption
<1>3. Reading(s, kind) = [s EXCEPT !.cmd = c]
  BY DEF Reading
<1> HIDE DEF c
<1> QED BY <1>1, <1>2, <1>3, CmdSet

LEMMA FinishSpec ==
  ASSUME NEW s \in Stores
  PROVE  Finish(s) \in Stores /\ SameRow(s, Finish(s)) /\ Finish(s).obs = s.obs /\ Finish(s).cmd = None
BY CmdSet DEF Finish

LEMMA StepSpec ==
  ASSUME NEW s \in Stores, s.cmd # None, NEW step \in { "read", "ask", "relaunch", "submit" }
  PROVE  /\ Step(s, step) \in Stores /\ SameRow(s, Step(s, step)) /\ Step(s, step).obs = s.obs /\ Step(s, step).cmd # None
         /\ Step(s, step).cmd.kind = s.cmd.kind /\ Step(s, step).cmd.live = s.cmd.live
         /\ Step(s, step).cmd.same = s.cmd.same /\ Step(s, step).cmd.step = step /\ Step(s, step).cmd.sent = s.cmd.sent
<1> DEFINE c == [s.cmd EXCEPT !.step = step]
<1>1. s.cmd \in Command
  BY DEF Stores
<1>2. c \in Command /\ c.kind = s.cmd.kind /\ c.live = s.cmd.live /\ c.same = s.cmd.same /\ c.step = step /\ c.sent = s.cmd.sent
  BY <1>1 DEF Command
<1>3. c # None
  BY <1>2, NoneAssumption
<1>4. Step(s, step) = [s EXCEPT !.cmd = c]
  BY DEF Step, Stores
<1> HIDE DEF c
<1> QED BY <1>2, <1>3, <1>4, CmdSet

LEMMA FinishGood ==
  ASSUME NEW s \in Stores, NEW e, Core(s, e), RowOK(s, e)
  PROVE  Good(Finish(s), e)
BY FinishSpec, CoreSame DEF Good, Commands, RowOK, SameRow

\* restoreStructuredSession begins, for a session that is not loaded.
LEMMA RelaunchingGood ==
  ASSUME NEW s \in Stores, s.cmd # None, NEW e, Core(s, e), RowOK(s, e), ~e.alive, now \in Nat,
         s.cmd.kind = "retry" /\ s.cmd.live => s.obs # None,
         s.cmd.kind = "retry" /\ s.cmd.same /\ s.visible # None => s.visible.next <= e.now
  PROVE  Good(Relaunching(s), e)
<1> DEFINE a == [s EXCEPT !.row = "starting", !.working = FALSE]
           b == IF s.row = "error" THEN s ELSE Publish(a)
<1>1. a \in Stores /\ a.row = "starting" /\ ~a.working /\ a.visible = s.visible /\ a.budget = s.budget /\ a.obs = s.obs /\ a.cmd = s.cmd
  BY DEF Stores
<1>2. Relaunching(s) = Step(b, "relaunch")
  BY DEF Relaunching
<1> HIDE DEF a
<1>3. Core(a, e)
  BY <1>1, CoreSame
<1>4. /\ b \in Stores /\ Core(b, e) /\ b.visible = s.visible /\ b.row # "bound" /\ ~b.working /\ b.cmd = s.cmd
      /\ s.obs # None => b.obs # None
  <2>1. CASE s.row = "error"
    BY <2>1 DEF RowOK
  <2>2. CASE s.row # "error"
    BY <1>1, <1>3, <2>2, PublishSpec, PublishKeeps DEF Watchable, SameRow
  <2> QED BY <2>1, <2>2
<1> HIDE DEF b
<1> DEFINE t == Step(b, "relaunch")
<1>5. /\ t \in Stores /\ SameRow(b, t) /\ t.obs = b.obs /\ t.cmd # None /\ t.cmd.kind = s.cmd.kind /\ t.cmd.live = s.cmd.live
      /\ t.cmd.same = s.cmd.same /\ t.cmd.step = "relaunch"
  BY <1>4, StepSpec
<1> HIDE DEF t
<1>6. Core(t, e)
  BY <1>4, <1>5, CoreSame DEF SameRow
<1>7. Commands(t, e)
  BY <1>4, <1>5 DEF Commands, SameRow
<1>8. RowOK(t, e)
  BY <1>4, <1>5 DEF RowOK, SameRow
<1> QED BY <1>2, <1>5, <1>6, <1>7, <1>8 DEF Good, t

LEMMA SettledGood ==
  ASSUME NEW s \in Stores, NEW e, Core(s, e), RowOK(s, e), ~e.alive, now \in Nat
  PROVE  Good(Settled(s), e)
<1> DEFINE w == IF Watchable(s.row) /\ (s.visible # None \/ unattended) THEN Watch(s) ELSE s
           r == Reading(w, "reconcile")
<1>1. Settled(s) \in { Finish(w), Relaunching(r) }
  BY DEF Settled
<1>2. w \in Stores /\ Core(w, e) /\ RowOK(w, e)
  <2>1. CASE w = s
    BY <2>1
  <2>2. CASE Watchable(s.row) /\ w = Publish(s)
    BY <2>2, PublishSpec, PublishKeeps DEF RowOK, SameRow
  <2> QED BY <2>1, <2>2 DEF Publish
<1> HIDE DEF w
<1>3. /\ r \in Stores /\ SameRow(w, r) /\ r.obs = w.obs /\ r.cmd # None /\ r.cmd.kind = "reconcile"
  BY <1>2, ReadingSpec
<1> HIDE DEF r
<1>4. Core(r, e) /\ RowOK(r, e)
  BY <1>2, <1>3, CoreSame DEF SameRow, RowOK
<1>5. Good(Relaunching(r), e)
  BY <1>3, <1>4, RelaunchingGood
<1>6. Good(Finish(w), e)
  BY <1>2, FinishGood
<1> QED BY <1>1, <1>5, <1>6

\* A step of the chain that touches nothing outside of the store.
LEMMA ChainStep ==
  ASSUME Answered, NEW t, Good(t, World), Become(t),
         UNCHANGED << clock, provider, cancellation, stops, restarts, history >>, unattended' \in BOOLEAN
  PROVE  Answered'
<1>1. World' = World
  BY DEF World, clock, provider, history
<1>2. Outer'
  BY Given DEF Outer, clock, provider, history
<1> QED BY <1>1, <1>2, Closes DEF Good, Answered

LEMMA RestQueue ==
  ASSUME Answered, queue # << >>
  PROVE  LET t == [Here EXCEPT !.queue = Tail(@)]
         IN  t \in Stores /\ SameRow(Here, t) /\ t.obs = obs /\ t.cmd = cmd /\ Core(t, World) /\ RowOK(t, World)
<1> DEFINE t == [Here EXCEPT !.queue = Tail(@)]
<1>1. queue \in Seq(Job)
  BY DEF Answered, TypeOK
<1>2. Tail(queue) \in Seq(Job)
  BY <1>1, Drops
<1>3. t \in Stores /\ SameRow(Here, t) /\ t.obs = obs /\ t.cmd = cmd
  BY <1>2, Given, Fields DEF Stores, SameRow
<1> HIDE DEF t
<1>4. Core(t, World) /\ RowOK(t, World)
  BY <1>3, Fields, CoreSame DEF SameRow, Answered, RowOK
<1> QED BY <1>3, <1>4 DEF t

LEMMA BeginRunKeeps ==
  ASSUME Answered, BeginRun
  PROVE  Answered'
<1> DEFINE a == [Here EXCEPT !.queue = Tail(@)]
           kind == Head(queue).kind
           t == IF Head(queue).live /\ obs # None THEN Reading(a, kind) ELSE a
<1>1. Become(t) /\ cmd = None /\ queue # << >> /\ kind \in { "refresh", "retry", "ack" }
  BY DEF BeginRun
<1>2. /\ a \in Stores /\ SameRow(Here, a) /\ a.obs = obs /\ a.cmd = cmd /\ Core(a, World) /\ RowOK(a, World)
  BY <1>1, RestQueue
<1> HIDE DEF a, kind
<1>3. Good(a, World)
  BY <1>1, <1>2 DEF Good, Commands
<1>4. obs # None => Good(Reading(a, kind), World)
  <2> DEFINE b == Reading(a, kind)
  <2>1. b \in Stores /\ SameRow(a, b) /\ b.obs = a.obs /\ b.cmd # None /\ b.cmd.kind = kind /\ b.cmd.step = "read"
    BY <1>1, <1>2, ReadingSpec
  <2> HIDE DEF b
  <2>2. Core(b, World) /\ RowOK(b, World)
    BY <1>2, <2>1, CoreSame DEF SameRow, RowOK
  <2>3. obs # None => Commands(b, World)
    BY <1>1, <1>2, <2>1 DEF Commands
  <2> QED BY <2>1, <2>2, <2>3 DEF Good, b
<1>5. Good(t, World)
  BY <1>3, <1>4
<1> QED BY <1>1, <1>5, ChainStep, Given DEF BeginRun, Outer

LEMMA ExitRunType ==
  ASSUME Answered
  PROVE  /\ ExitRun \in Run /\ ExitRun # None /\ ExitRun.turn > MaxTurns /\ ExitRun.status = "failed"
         /\ ExitRun.code = "process_exited" /\ ExitRun.at = now
<1>1. pid \in 1..MaxPids /\ ProcessTurn(pid) = MaxTurns + pid
  BY DEF Answered, TypeOK, ProcessTurn
<1>2. ProcessTurn(pid) \in TurnIds /\ ProcessTurn(pid) > MaxTurns
  BY <1>1, Bounds DEF TurnIds
<1>3. ExitRun \in Run
  BY <1>2, Given DEF ExitRun, Run, Times
<1>4. ExitRun.turn = ProcessTurn(pid) /\ ExitRun.status = "failed" /\ ExitRun.code = "process_exited" /\ ExitRun.at = now
  BY DEF ExitRun
<1> QED BY <1>2, <1>3, <1>4, NoneAssumption

\* The end of the process is a failure of this moment.
LEMMA ProcessExitedGood ==
  ASSUME Answered, NEW s \in Stores, s.obs # None, Good(s, World), NEW kind \in { "loss", "reconcile" }, kind = "reconcile" => ~alive
  PROVE  Good(ProcessExited(s, kind), World)
<1> DEFINE o == [s.obs EXCEPT !.exit = ExitRun]
           a == [s EXCEPT !.obs = o]
           b == IF s.obs.exit = None THEN a ELSE s
           t == Reading(b, kind)
<1>1. s.obs \in Observation /\ s.obs.exit \in Run \cup {None}
  BY DEF Stores, Observation
<1>2. o \in Observation /\ o.exit = ExitRun
  BY <1>1, ExitRunType DEF Observation
<1>3. [s EXCEPT !.obs.exit = ExitRun] = a
  BY DEF Stores
<1> HIDE DEF o
<1>4. a \in Stores /\ SameRow(s, a) /\ a.cmd = s.cmd /\ a.obs = o /\ a.obs # None
  BY <1>2, ObsSet
<1>5. ProcessExited(s, kind) \in { s, t }
  BY <1>3 DEF ProcessExited
<1> HIDE DEF a
<1>6. << ExitRun.turn, ExitRun.at >> \notin prompted
  BY ExitRunType, Given, Fields DEF Answered, WorldOK
<1>7. ASSUME s.obs.exit = None PROVE Core(a, World)
  <2>1. ExitOK(o, World)
    BY <1>2, ExitRunType, Given, Fields DEF ExitOK
  <2>2. native # None => native.at <= now
    BY Fields DEF Answered, WorldOK
  <2>3. Answers(o, s.budget, World)
    BY <1>2, <1>6, <1>7, <2>2, ExitRunType, Fields DEF Good, Core, Answers
  <2> QED BY <1>4, <2>1, <2>3 DEF Good, Core, SameRow
<1>8. b \in Stores /\ Core(b, World) /\ RowOK(b, World) /\ b.obs # None
  BY <1>4, <1>7 DEF Good, SameRow, RowOK
<1> HIDE DEF b
<1>9. t \in Stores /\ SameRow(b, t) /\ t.obs = b.obs /\ t.cmd # None /\ t.cmd.kind = kind /\ t.cmd.step = "read"
  BY <1>8, ReadingSpec
<1> HIDE DEF t
<1>10. Core(t, World) /\ RowOK(t, World)
  BY <1>8, <1>9, CoreSame DEF SameRow, RowOK
<1>11. Commands(t, World)
  BY <1>9, Fields DEF Commands
<1> QED BY <1>5, <1>9, <1>10, <1>11 DEF Good

LEMMA BeginLossKeeps ==
  ASSUME Answered, BeginLoss
  PROVE  Answered'
<1> DEFINE q == [Here EXCEPT !.queue = Tail(@)]
           rest == [Here EXCEPT !.queue = Tail(@), !.working = FALSE]
           lost == Publish(rest)
           kind == Head(queue).kind
           next == IF working /\ unattended THEN ProcessExited(lost, kind) ELSE lost
           t == IF kind = "reconcile" /\ next.cmd = None THEN Settled(next) ELSE next
<1>1. Become(t) /\ cmd = None /\ queue # << >> /\ kind \in { "loss", "reconcile" } /\ (kind = "reconcile" => ~alive)
  BY DEF BeginLoss
<1>2. /\ q \in Stores /\ SameRow(Here, q) /\ q.obs = obs /\ q.cmd = cmd /\ Core(q, World) /\ RowOK(q, World)
  BY <1>1, RestQueue
<1>3. rest = [q EXCEPT !.working = FALSE]
  BY Given DEF Stores
<1> HIDE DEF q, kind
<1>4. rest \in Stores /\ rest.row = q.row /\ rest.visible = q.visible /\ rest.budget = q.budget /\ rest.obs = q.obs /\ rest.cmd = q.cmd /\ ~rest.working
  BY <1>2, <1>3 DEF Stores
<1> HIDE DEF rest
<1>5. Core(rest, World) /\ RowOK(rest, World)
  BY <1>2, <1>4, CoreSame DEF RowOK
<1>6. lost \in Stores /\ Core(lost, World) /\ SameRow(rest, lost) /\ lost.cmd = None /\ (row = "bound" => lost.obs # None)
  <2>1. lost \in Stores /\ Core(lost, World) /\ SameRow(rest, lost) /\ Rest(rest, lost)
    BY <1>4, <1>5, Given, PublishSpec, PublishKeeps, PublishRest
  <2>2. row = "bound" => lost.obs # None
    <3> SUFFICES ASSUME row = "bound" PROVE lost.obs # None
      OBVIOUS
    <3>1. rest.row = "bound"
      BY <1>2, <1>4, Fields DEF SameRow
    <3>2. lost.obs = (IF rest.obs = None THEN First(rest) ELSE rest.obs)
      BY <1>4, <3>1, Given, PublishSpec DEF Watchable
    <3>3. First(rest) # None
      BY <1>4, Given, FirstType
    <3> QED BY <3>2, <3>3
  <2> QED BY <1>1, <1>2, <1>4, <2>1, <2>2 DEF Rest
<1> HIDE DEF lost
<1>7. Good(lost, World)
  BY <1>4, <1>5, <1>6 DEF Good, Commands, RowOK, SameRow
<1>8. working => lost.obs # None
  BY <1>6, Fields DEF Answered, RowOK
<1>9. Good(next, World)
  BY <1>1, <1>6, <1>7, <1>8, ProcessExitedGood
<1> HIDE DEF next
<1>10. kind = "reconcile" => Good(Settled(next), World)
  BY <1>1, <1>9, Given, Fields, SettledGood DEF Good
<1>11. Good(t, World)
  BY <1>9, <1>10
<1> QED BY <1>1, <1>11, ChainStep, Given DEF BeginLoss, Outer

LEMMA BeginReconcileKeeps ==
  ASSUME Answered, BeginReconcile
  PROVE  Answered'
<1> DEFINE q == [Here EXCEPT !.queue = Tail(@)]
           b == [q EXCEPT !.row = "bound"]
           t == IF alive THEN Publish(b) ELSE Settled(q)
<1>1. Become(t) /\ cmd = None /\ queue # << >>
  BY DEF BeginReconcile
<1>2. /\ q \in Stores /\ SameRow(Here, q) /\ q.obs = obs /\ q.cmd = cmd /\ Core(q, World) /\ RowOK(q, World)
  BY <1>1, RestQueue
<1> HIDE DEF q
<1>3. b \in Stores /\ b.row = "bound" /\ b.visible = q.visible /\ b.budget = q.budget /\ b.obs = q.obs /\ b.cmd = q.cmd
  BY <1>2 DEF Stores
<1> HIDE DEF b
<1>4. Good(Publish(b), World)
  <2>1. Core(b, World)
    BY <1>2, <1>3, CoreSame
  <2>2. Publish(b) \in Stores /\ SameRow(b, Publish(b)) /\ Publish(b).cmd = None /\ Core(Publish(b), World)
    BY <1>1, <1>2, <1>3, <2>1, Given, PublishSpec, PublishKeeps DEF Watchable
  <2> QED BY <1>3, <2>2 DEF Good, Commands, RowOK, SameRow
<1>5. ~alive => Good(Settled(q), World)
  BY <1>2, Given, Fields, SettledGood
<1>6. Good(t, World)
  BY <1>4, <1>5
<1> QED BY <1>1, <1>6, ChainStep, Given DEF BeginReconcile, Outer

\* The world after a step, but for what the step sent.
Meanwhile == [now |-> now', native |-> native', turns |-> turns', turn |-> turn', alive |-> alive',
              prompted |-> prompted, stopped |-> stopped', cancellation |-> cancellation']

LEMMA MeanwhileFields ==
  /\ Meanwhile.now = now' /\ Meanwhile.native = native' /\ Meanwhile.turns = turns' /\ Meanwhile.turn = turn'
  /\ Meanwhile.alive = alive' /\ Meanwhile.prompted = prompted /\ Meanwhile.stopped = stopped'
  /\ Meanwhile.cancellation = cancellation' /\ (prompted' = prompted => World' = Meanwhile)
BY DEF Meanwhile, World

\* A turn that is found running, by another backend or over a new connection.
LEMMA AdoptsWorld ==
  ASSUME Answered, Adopts, alive' = TRUE, UNCHANGED << now, turns, cancellation >>
  PROVE  /\ WorldOK(Meanwhile) /\ native' \in Run /\ turn' = TRUE /\ stopped' \subseteq stopped
         /\ native' # None /\ native'.status = "running"
<1>1. native # None /\ native \in Run /\ native.status = "running"
  BY Given DEF Adopts
<1>2. /\ native' \in Run /\ native'.turn = native.turn /\ native'.status = "running" /\ native'.at = now /\ native'.started = now
      /\ native'.code = native.code
  BY <1>1, Given DEF Adopts, Run, Times
<1>3. native' # None
  BY <1>2, NoneAssumption
<1>4. stopped' \subseteq stopped /\ (native.turn \in stopped' => cancellation # None /\ cancellation.turn = native.turn)
  BY DEF Adopts
<1>5. WorldOK(Meanwhile)
  BY <1>1, <1>2, <1>3, <1>4, Given, Fields, MeanwhileFields DEF Answered, WorldOK, Adopts
<1> QED BY <1>2, <1>3, <1>4, <1>5 DEF Adopts

LEMMA AdoptSurvivorKeeps ==
  ASSUME Answered, AdoptSurvivor
  PROVE  Answered'
<1> DEFINE q == [Here EXCEPT !.queue = Tail(@)]
           b == [Here EXCEPT !.queue = Tail(@), !.row = "bound"]
           y == Publish(b)
           t == Changed(y)
<1>1. Become(t) /\ cmd = None /\ queue # << >>
  BY DEF AdoptSurvivor
<1>2. /\ q \in Stores /\ SameRow(Here, q) /\ q.obs = obs /\ q.cmd = cmd /\ Core(q, World)
  BY <1>1, RestQueue
<1>3. b = [q EXCEPT !.row = "bound"]
  BY Given DEF Stores
<1> HIDE DEF q
<1>4. b \in Stores /\ b.row = "bound" /\ b.visible = q.visible /\ b.budget = q.budget /\ b.obs = q.obs /\ b.cmd = q.cmd
  BY <1>2, <1>3 DEF Stores
<1> HIDE DEF b
<1>5. /\ WorldOK(World') /\ native' \in Run /\ turn' = TRUE /\ stopped' \subseteq stopped
      /\ native' # None /\ native'.status = "running"
  BY AdoptsWorld, MeanwhileFields DEF AdoptSurvivor, clock
<1>6. Core(b, World')
  <2>1. Core(b, World)
    BY <1>2, <1>4, CoreSame
  <2> QED BY <1>5, <2>1, Fields, NextFields, CoreWorld DEF AdoptSurvivor, clock
<1>7. y \in Stores /\ SameRow(b, y) /\ y.cmd = None /\ Core(y, World')
  BY <1>1, <1>2, <1>4, <1>6, Given, PublishSpec, PublishKeeps DEF Watchable
<1> HIDE DEF y
<1>8. t \in Stores /\ SameRow(y, t) /\ t.obs = y.obs /\ t.cmd = None
  BY <1>7, ChangedSpec
<1> HIDE DEF t
<1>9. Core(t, World')
  BY <1>7, <1>8, CoreSame DEF SameRow
<1>10. Commands(t, World') /\ RowOK(t, World')
  BY <1>4, <1>7, <1>8 DEF Commands, RowOK, SameRow
<1>11. Outer'
  <2>1. stopped' \subseteq 1..turns'
    BY <1>5, Given DEF Outer, AdoptSurvivor
  <2> QED BY <1>5, <2>1, Given DEF Outer, AdoptSurvivor, clock
<1> QED BY <1>1, <1>5, <1>8, <1>9, <1>10, <1>11, Closes

LEMMA ReadEndsKeeps ==
  ASSUME Answered, ReadEnds
  PROVE  Answered'
<1> DEFINE s == Refreshed(Here)
           f == [s.visible EXCEPT !.status = "stopped"]
           t == CASE cmd.kind \in { "refresh", "loss" } -> Finish(s)
                  [] cmd.kind = "reconcile" -> Settled(s)
                  [] cmd.kind = "retry" -> IF Due(s) THEN Step(s, "ask") ELSE Finish(s)
                  [] cmd.kind = "ack" -> Finish(IF Unacknowledged(s) THEN Save(s, f) ELSE s)
<1>1. Become(t) /\ cmd # None /\ cmd.step = "read"
  BY DEF ReadEnds
<1>2. Fine(Here, s)
  BY <1>1, Given, RefreshKeeps DEF Answered
<1> HIDE DEF s
<1>3. s \in Stores /\ Core(s, World) /\ RowOK(s, World)
  BY <1>2, Fields DEF Fine, Answered, RowOK, Rest
<1>4. Good(Finish(s), World)
  BY <1>3, FinishGood
<1>5. cmd.kind = "reconcile" => Good(Settled(s), World)
  BY <1>1, <1>3, Given, Fields, SettledGood DEF Answered, Commands
<1>6. ASSUME cmd.kind = "retry", Due(s) PROVE Good(Step(s, "ask"), World)
  <2> DEFINE a == Step(s, "ask")
  <2>1. s.cmd # None /\ s.cmd.kind = "retry" /\ (s.cmd.live => cmd.live /\ (obs # None => s.obs # None))
    BY <1>1, <1>2, <1>6, Fields DEF Fine, Rest
  <2>2. a \in Stores /\ SameRow(s, a) /\ a.obs = s.obs /\ a.cmd # None /\ a.cmd.kind = "retry" /\ a.cmd.live = s.cmd.live /\ a.cmd.step = "ask"
    BY <1>3, <2>1, StepSpec
  <2> HIDE DEF a
  <2>3. Core(a, World) /\ RowOK(a, World)
    BY <1>3, <2>2, CoreSame DEF SameRow, RowOK
  <2>4. cmd.live => obs # None
    BY <1>1, <1>6, Fields DEF Answered, Commands
  <2>5. Commands(a, World)
    BY <1>6, <2>1, <2>2, <2>4, Fields DEF Commands, SameRow, Due
  <2> QED BY <2>2, <2>3, <2>5 DEF Good, a
<1>7. Good(Finish(IF Unacknowledged(s) THEN Save(s, f) ELSE s), World)
  <2>1. CASE ~Unacknowledged(s)
    BY <1>4, <2>1
  <2>2. CASE Unacknowledged(s)
    <3>1. s.visible \in Failure /\ s.visible # None /\ s.visible = s.budget
      BY <1>3, <2>2 DEF Unacknowledged, Stores, Core
    <3>2. f \in Failure /\ f.status = "stopped" /\ About(f, s.budget)
      <4>1. f \in Failure /\ f.status = "stopped" /\ f.turn = s.visible.turn /\ f.failedAt = s.visible.failedAt /\ f.code = s.visible.code
        BY <3>1 DEF Failure
      <4> QED BY <3>1, <4>1, NoneAssumption DEF About
    <3> HIDE DEF f
    <3>3. Core(Save(s, f), World) /\ Save(s, f) \in Stores /\ Rest(s, Save(s, f))
      BY <1>3, <3>2, Given, StopKeeps, SaveRest
    <3>4. RowOK(Save(s, f), World)
      BY <1>3, <3>3 DEF RowOK, Rest
    <3>5. Good(Finish(Save(s, f)), World)
      BY <3>3, <3>4, FinishGood
    <3> QED BY <2>2, <3>5
  <2> QED BY <2>1, <2>2
<1>8. cmd.kind \in { "refresh", "retry", "ack", "loss", "reconcile" }
  BY <1>1 DEF Answered, TypeOK, Command
<1> HIDE DEF f
<1>9. Good(t, World)
  BY <1>4, <1>5, <1>6, <1>7, <1>8
<1>10. unattended' \in BOOLEAN
  BY DEF ReadEnds, Pauses, Current, Answered, TypeOK
<1> QED BY <1>1, <1>9, <1>10, ChainStep DEF ReadEnds

-----------------------------------------------------------------------------
(***************************************************************************)
(* The checks, the relaunch and the prompt.                                *)
(***************************************************************************)
LEMMA BlockedKeeps ==
  ASSUME NEW s \in Stores, NEW e, Core(s, e), e.now = now, now \in Nat, turn \in BOOLEAN, NEW relaunchFailed \in BOOLEAN,
         s.visible # None, s.visible.status = "scheduled"
  PROVE  Blocked(s, relaunchFailed) \in Stores /\ Core(Blocked(s, relaunchFailed), e) /\ Rest(s, Blocked(s, relaunchFailed))
<1> DEFINE f == s.visible
           attempts == f.attempts + 1
           next == [f EXCEPT !.attempts = attempts, !.next = now + Delays[attempts + 1]]
           tried == [f EXCEPT !.attempts = attempts]
           saved == Save(s, next)
<1>1. f \in Failure /\ f # None /\ f = s.budget /\ f.status = "scheduled" /\ f.failedAt <= now
  BY DEF Stores, Core, FailureOK
<1>2. attempts \in 0..Len(Delays)
  BY <1>1, LenType DEF Core, FailureOK, Failure
<1>3. \/ attempts < Len(Delays) /\ Blocked(s, relaunchFailed) = Schedule(saved, next)
      \/ Blocked(s, relaunchFailed) = Save(s, Stopped(tried))
      \/ Blocked(s, relaunchFailed) = Save(s, Stopped(f))
  BY DEF Blocked
<1>4. tried \in Failure /\ tried.turn = f.turn /\ tried.failedAt = f.failedAt /\ tried.code = f.code
  BY <1>1, <1>2 DEF Failure
<1>5. ASSUME NEW g \in Failure, g.turn = f.turn, g.failedAt = f.failedAt, g.code = f.code
      PROVE  Save(s, Stopped(g)) \in Stores /\ Core(Save(s, Stopped(g)), e) /\ Rest(s, Save(s, Stopped(g)))
  <2>1. /\ Stopped(g) \in Failure /\ Stopped(g) # None /\ Stopped(g).status = "stopped" /\ About(Stopped(g), s.budget)
    BY <1>1, <1>5, StoppedType, NoneAssumption DEF About
  <2> QED BY <2>1, StopKeeps, SaveRest
<1>6. ASSUME attempts < Len(Delays)
      PROVE  Schedule(saved, next) \in Stores /\ Core(Schedule(saved, next), e) /\ Rest(s, Schedule(saved, next))
  <2>1. now + Delays[attempts + 1] \in Nat /\ now + Delays[attempts + 1] > now
    <3>1. attempts + 1 \in 1..Len(Delays)
      BY <1>2, <1>6, LenType
    <3> QED BY <3>1, DelayType
  <2>2. /\ next \in Failure /\ next.turn = f.turn /\ next.failedAt = f.failedAt /\ next.code = f.code
        /\ next.status = "scheduled" /\ next.attempts = attempts /\ next.next = now + Delays[attempts + 1]
    BY <1>1, <1>2, <2>1 DEF Failure, Times
  <2> HIDE DEF next, attempts
  <2>3. next # None /\ About(next, s.budget)
    BY <1>1, <2>2, NoneAssumption DEF About
  <2>4. next.failedAt \in Nat
    BY <2>2 DEF Failure, Times
  <2>5. FailureOK(next, e)
    BY <1>1, <1>6, <2>1, <2>2, <2>4 DEF FailureOK, Core
  <2>6. NotAnswered(next, e)
    BY <1>1, <2>2 DEF NotAnswered, Scheduled, Core
  <2>7. Core(saved, e) /\ saved \in Stores /\ Rest(s, saved) /\ saved.budget = next
    BY <2>2, <2>3, <2>5, <2>6, SaveAgain, SaveRest, SaveSpec
  <2> HIDE DEF saved
  <2>8. About(next, saved.budget)
    BY <2>3, <2>7 DEF About
  <2>9. /\ Schedule(saved, next) \in Stores /\ Core(Schedule(saved, next), e) /\ Rest(saved, Schedule(saved, next))
    BY <2>2, <2>7, <2>8, ScheduleKeeps, ScheduleRest
  <2> QED BY <2>7, <2>9, RestTrans
<1> HIDE DEF next, saved, tried
<1> QED BY <1>1, <1>3, <1>4, <1>5, <1>6

LEMMA SubmittingSpec ==
  ASSUME NEW s \in Stores, NEW e, Core(s, e), e.now = now, now \in Nat, turn \in BOOLEAN, NEW sent \in BOOLEAN,
         s.cmd # None, s.visible # None, s.visible.status = "scheduled"
  PROVE  \A t : t = Submitting(s, sent) =>
             /\ t \in Stores /\ Core(t, e) /\ t.row = s.row /\ (s.row # "bound" /\ t.working => s.working)
             /\ t.cmd # None /\ t.cmd.kind = s.cmd.kind /\ t.cmd.same = s.cmd.same /\ t.cmd.sent = sent /\ t.cmd.step = "submit"
             /\ t.cmd.live => s.cmd.live /\ (s.obs # None => t.obs # None)
             /\ t.visible # None /\ t.visible.turn = s.visible.turn /\ t.visible.failedAt = s.visible.failedAt
             /\ t.budget = t.visible /\ t.visible.status = "retrying"
<1> DEFINE f == s.visible
           g == [f EXCEPT !.attempts = @ + 1, !.status = "retrying", !.next = 0, !.submitted = now]
           saved == Save(s, g)
           a == Step(saved, "submit")
           c == [a.cmd EXCEPT !.sent = sent]
           t == [a EXCEPT !.cmd = c]
<1>1. f \in Failure /\ f # None /\ f = s.budget /\ f.status = "scheduled" /\ f.failedAt <= now
  BY DEF Stores, Core, FailureOK
<1>2. f.attempts + 1 \in 1..Len(Delays)
  BY <1>1, LenType DEF Core, FailureOK, Failure
<1>3. /\ g \in Failure /\ g.turn = f.turn /\ g.failedAt = f.failedAt /\ g.code = f.code
      /\ g.status = "retrying" /\ g.attempts >= 1
  <2> DEFINE n == f.attempts + 1
  <2>1. n \in 0..Len(Delays) /\ n >= 1
    BY <1>2, LenType
  <2>2. g = [f EXCEPT !.attempts = n, !.status = "retrying", !.next = 0, !.submitted = now]
    OBVIOUS
  <2> HIDE DEF f, g, n
  <2> QED BY <1>1, <2>1, <2>2 DEF Failure, Times
<1>4. Submitting(s, sent) = [a EXCEPT !.cmd.sent = sent]
  BY DEF Submitting
<1> HIDE DEF g
<1>5. g # None /\ About(g, s.budget)
  BY <1>1, <1>3, NoneAssumption DEF About
<1>6. FailureOK(g, e) /\ NotAnswered(g, e)
  BY <1>1, <1>3 DEF FailureOK, NotAnswered, Scheduled, Core
<1>7. Core(saved, e) /\ saved \in Stores /\ Rest(s, saved) /\ saved.budget = g /\ saved.visible = g
  BY <1>3, <1>5, <1>6, SaveAgain, SaveRest, SaveSpec
<1> HIDE DEF saved
<1>8. /\ a \in Stores /\ SameRow(saved, a) /\ a.obs = saved.obs /\ a.cmd # None /\ a.cmd.kind = saved.cmd.kind
      /\ a.cmd.live = saved.cmd.live /\ a.cmd.same = saved.cmd.same /\ a.cmd.step = "submit"
  BY <1>7, StepSpec DEF Rest
<1> HIDE DEF a
<1>9. a.cmd \in Command
  BY <1>8 DEF Stores
<1>10. c \in Command /\ c.kind = a.cmd.kind /\ c.live = a.cmd.live /\ c.same = a.cmd.same /\ c.step = a.cmd.step /\ c.sent = sent
  BY <1>9 DEF Command
<1>11. c # None
  BY <1>10, NoneAssumption
<1>12. Submitting(s, sent) = t
  BY <1>4, <1>8 DEF Stores
<1> HIDE DEF c
<1>13. t \in Stores /\ SameRow(a, t) /\ t.obs = a.obs /\ t.cmd = c
  BY <1>8, <1>10, CmdSet
<1> HIDE DEF t
<1>14. Core(t, e)
  BY <1>7, <1>8, <1>13, CoreSame DEF SameRow
<1>15. /\ t.row = s.row /\ (s.row # "bound" /\ t.working => s.working)
       /\ t.cmd # None /\ t.cmd.kind = s.cmd.kind /\ t.cmd.same = s.cmd.same /\ t.cmd.sent = sent /\ t.cmd.step = "submit"
       /\ t.cmd.live => s.cmd.live /\ (s.obs # None => t.obs # None)
  BY <1>7, <1>8, <1>10, <1>11, <1>13 DEF SameRow, Rest
<1>16. /\ t.visible # None /\ t.visible.turn = s.visible.turn /\ t.visible.failedAt = s.visible.failedAt
       /\ t.budget = t.visible /\ t.visible.status = "retrying"
  BY <1>3, <1>5, <1>7, <1>8, <1>13 DEF SameRow
<1> QED BY <1>12, <1>13, <1>14, <1>15, <1>16

LEMMA CheckedKeeps ==
  ASSUME Answered, NEW s \in Stores, Core(s, Meanwhile), RowOK(s, Meanwhile), WorldOK(Meanwhile),
         s.cmd # None, s.cmd.kind = "retry", s.cmd.live => s.obs # None,
         s.cmd.same /\ s.visible # None => s.visible.next <= now,
         NEW ready \in BOOLEAN, NEW relaunchFailed \in BOOLEAN, Checked(s, ready, relaunchFailed),
         native' \in Run \cup {None}, turn' \in BOOLEAN, alive' \in BOOLEAN, pid' \in 1..MaxPids, stopped' \subseteq stopped,
         UNCHANGED << now, turns, cancellation, unattended, stops, restarts >>
  PROVE  Answered'
<1>1. /\ Meanwhile.now = now /\ Meanwhile.native = native' /\ Meanwhile.turns = turns /\ Meanwhile.turn = turn'
      /\ Meanwhile.alive = alive' /\ Meanwhile.prompted = prompted /\ Meanwhile.stopped = stopped'
      /\ Meanwhile.cancellation = cancellation /\ (prompted' = prompted => World' = Meanwhile)
  BY MeanwhileFields
<1>2. stopped' \subseteq 1..turns'
  BY DEF Answered, TypeOK
<1>3. Unsent => Outer'
  BY <1>2, Given DEF Outer, Unsent
<1>4. ASSUME NEW t \in Stores, Core(t, Meanwhile), RowOK(t, Meanwhile), Become(Finish(t)), Unsent
      PROVE  Answered'
  <2>1. World' = Meanwhile
    BY <1>1, <1>4 DEF Unsent
  <2>2. Good(Finish(t), Meanwhile)
    BY <1>4, FinishGood
  <2> QED BY <1>3, <1>4, <2>1, <2>2, Closes DEF Good
<1>5. CASE ~StillScheduled(s)
  BY <1>4, <1>5 DEF Checked
<1> DEFINE blocked == ~ready \/ now - s.visible.failedAt > Window
<1>6. CASE StillScheduled(s) /\ blocked
  <2> DEFINE b == Blocked(s, relaunchFailed)
  <2>1. Become(Finish(b)) /\ Unsent
    BY <1>6 DEF Checked
  <2>2. b \in Stores /\ Core(b, Meanwhile) /\ Rest(s, b)
    BY <1>1, <1>6, Given, BlockedKeeps DEF StillScheduled
  <2> HIDE DEF b
  <2>3. RowOK(b, Meanwhile)
    BY <2>2 DEF RowOK, Rest
  <2> QED BY <1>4, <2>1, <2>2, <2>3
<1>7. CASE StillScheduled(s) /\ ~blocked
  <2> DEFINE key == << s.visible.turn, s.visible.failedAt >>
  <2>1. /\ s.visible \in Failure /\ s.visible # None /\ s.visible.status = "scheduled" /\ s.visible = s.budget
        /\ s.cmd.live /\ s.cmd.same /\ s.obs # None
    BY <1>7 DEF StillScheduled, Stores, Core
  <2>2. key \notin prompted /\ s.visible.turn \notin stopped' /\ s.visible.failedAt < now
    <3>1. s.visible.failedAt < s.visible.next /\ s.visible.next <= now
      BY <2>1 DEF Core, FailureOK
    <3>2. s.visible.failedAt \in Nat /\ s.visible.next \in Nat
      BY <2>1 DEF Failure, Times
    <3>3. s.visible.failedAt < now
      BY <3>1, <3>2, Given
    <3> QED BY <1>1, <2>1, <3>3 DEF Core, NotAnswered, Scheduled
  <2>3. ASSUME NEW sent \in BOOLEAN, NEW t, t = Submitting(s, sent)
        PROVE  /\ t \in Stores /\ Core(t, Meanwhile) /\ RowOK(t, Meanwhile)
               /\ t.cmd # None /\ t.cmd.kind = "retry" /\ t.cmd.sent = sent /\ t.cmd.step = "submit" /\ (t.cmd.live => t.obs # None)
               /\ t.visible # None /\ t.visible.turn = s.visible.turn /\ t.visible.failedAt = s.visible.failedAt
               /\ t.budget = t.visible /\ t.visible.status = "retrying"
    <3>1. /\ t \in Stores /\ Core(t, Meanwhile) /\ t.row = s.row /\ (s.row # "bound" /\ t.working => s.working)
          /\ t.cmd # None /\ t.cmd.kind = s.cmd.kind /\ t.cmd.same = s.cmd.same /\ t.cmd.sent = sent /\ t.cmd.step = "submit"
          /\ t.cmd.live => s.cmd.live /\ (s.obs # None => t.obs # None)
          /\ t.visible # None /\ t.visible.turn = s.visible.turn /\ t.visible.failedAt = s.visible.failedAt
          /\ t.budget = t.visible /\ t.visible.status = "retrying"
      <4>1. now \in Nat /\ turn \in BOOLEAN /\ Meanwhile.now = now
        BY <1>1, Given
      <4>2. s.cmd # None /\ s.visible # None /\ s.visible.status = "scheduled" /\ Core(s, Meanwhile)
        BY <2>1
      <4>3. \A u : u = Submitting(s, sent) =>
              /\ u \in Stores /\ Core(u, Meanwhile) /\ u.row = s.row /\ (s.row # "bound" /\ u.working => s.working)
              /\ u.cmd # None /\ u.cmd.kind = s.cmd.kind /\ u.cmd.same = s.cmd.same /\ u.cmd.sent = sent /\ u.cmd.step = "submit"
              /\ u.cmd.live => s.cmd.live /\ (s.obs # None => u.obs # None)
              /\ u.visible # None /\ u.visible.turn = s.visible.turn /\ u.visible.failedAt = s.visible.failedAt
              /\ u.budget = u.visible /\ u.visible.status = "retrying"
        BY <2>3, <4>1, <4>2, SubmittingSpec
      <4> QED BY <2>3, <4>3
    <3> QED BY <2>1, <3>1 DEF RowOK
  <2>4. ASSUME NEW t, t = Submitting(s, FALSE), Become(t), Unsent
        PROVE  Answered'
    <3>1. World' = Meanwhile
      BY <1>1, <2>4 DEF Unsent
    <3>2. /\ t \in Stores /\ Core(t, Meanwhile) /\ RowOK(t, Meanwhile)
          /\ t.cmd # None /\ t.cmd.kind = "retry" /\ ~t.cmd.sent /\ t.cmd.step = "submit" /\ (t.cmd.live => t.obs # None)
          /\ t.visible # None /\ t.visible.turn = s.visible.turn /\ t.visible.failedAt = s.visible.failedAt
      BY <2>3, <2>4
    <3>3. Commands(t, Meanwhile)
      BY <1>1, <2>2, <3>2 DEF Commands
    <3> QED BY <1>3, <2>4, <3>1, <3>2, <3>3, Closes
  <2>5. ASSUME NEW t, t = Submitting(s, TRUE), Become(t),
               prompt' = TRUE, spent' = spent + 1, prompted' = prompted \cup { key }
        PROVE  Answered'
    <3>1. /\ World'.now = now /\ World'.native = native' /\ World'.turns = turns /\ World'.turn = turn' /\ World'.alive = alive'
          /\ World'.prompted = prompted \cup { key } /\ World'.stopped = stopped' /\ World'.cancellation = cancellation
      BY <2>5, NextFields
    <3>2. /\ t \in Stores /\ Core(t, Meanwhile) /\ RowOK(t, Meanwhile)
          /\ t.cmd # None /\ t.cmd.kind = "retry" /\ t.cmd.sent /\ t.cmd.step = "submit" /\ (t.cmd.live => t.obs # None)
          /\ t.visible # None /\ t.visible.turn = s.visible.turn /\ t.visible.failedAt = s.visible.failedAt
          /\ t.budget = t.visible /\ t.visible.status = "retrying"
      <4>1. t.cmd.sent = TRUE /\ t \in Stores /\ Core(t, Meanwhile) /\ RowOK(t, Meanwhile)
            /\ t.cmd # None /\ t.cmd.kind = "retry" /\ t.cmd.step = "submit" /\ (t.cmd.live => t.obs # None)
        BY <2>3, <2>5
      <4>2. /\ t.visible # None /\ t.visible.turn = s.visible.turn /\ t.visible.failedAt = s.visible.failedAt
            /\ t.budget = t.visible /\ t.visible.status = "retrying"
        BY <2>3, <2>5
      <4> QED BY <4>1, <4>2
    <3>3. Core(t, World')
      <4>1. FailureOK(t.budget, World') /\ NotAnswered(t.budget, World') /\ ExitOK(t.obs, World')
        BY <1>1, <3>1, <3>2 DEF Core, FailureOK, NotAnswered, Scheduled, ExitOK
      <4>2. Answers(t.obs, t.budget, World')
        BY <1>1, <3>1, <3>2 DEF Core, Answers
      <4> QED BY <3>2, <4>1, <4>2 DEF Core
    <3>4. Commands(t, World') /\ RowOK(t, World')
      BY <1>1, <2>2, <3>1, <3>2 DEF Commands, RowOK
    <3>5. WorldOK(World')
      BY <1>1, <2>2, <3>1 DEF WorldOK
    <3>6. Outer'
      <4>1. key \in TurnIds \X Times
        BY <2>1 DEF Failure
      <4>2. prompted' \subseteq TurnIds \X Times /\ spent' \in Nat /\ prompt' \in BOOLEAN
        BY <2>5, <4>1, Given DEF Outer
      <4> QED BY <1>2, <4>2, Given DEF Outer
    <3> QED BY <2>5, <3>2, <3>3, <3>4, <3>5, <3>6, Closes
  <2>6. \/ Become(Submitting(s, FALSE)) /\ Unsent
        \/ Become(Submitting(s, TRUE)) /\ prompt' = TRUE /\ spent' = spent + 1 /\ prompted' = prompted \cup { key }
    BY <1>7 DEF Checked
  <2> QED BY <2>4, <2>5, <2>6
<1> QED BY <1>5, <1>6, <1>7

LEMMA ChecksEndKeeps ==
  ASSUME Answered, ChecksEnd
  PROVE  Answered'
<1>1. /\ cmd # None /\ cmd.step = "ask" /\ cmd.kind = "retry" /\ (cmd.live => obs # None)
      /\ cmd.same /\ visible # None => visible.next <= now
  BY Fields DEF Answered, Commands, ChecksEnd
<1>2. /\ UNCHANGED << now, native, turns, turn, alive, pid, cancellation, unattended, stops, restarts, stopped >>
  BY DEF ChecksEnd, clock
<1>3. Meanwhile = World
  BY <1>2 DEF Meanwhile, World
<1>4. ASSUME NEW ready \in BOOLEAN, NEW relaunchFailed \in BOOLEAN, Checked(Here, ready, relaunchFailed)
      PROVE  Answered'
  <2>1. /\ Here \in Stores /\ Core(Here, Meanwhile) /\ RowOK(Here, Meanwhile) /\ WorldOK(Meanwhile)
        /\ Here.cmd # None /\ Here.cmd.kind = "retry" /\ (Here.cmd.live => Here.obs # None)
        /\ Here.cmd.same /\ Here.visible # None => Here.visible.next <= now
    BY <1>1, <1>3, Given, Fields DEF Answered
  <2>2. /\ native' \in Run \cup {None} /\ turn' \in BOOLEAN /\ alive' \in BOOLEAN /\ pid' \in 1..MaxPids
        /\ stopped' \subseteq stopped
    BY <1>2, Given DEF Outer
  <2> QED BY <1>2, <1>4, <2>1, <2>2, CheckedKeeps
<1>5. ASSUME ~alive, Become(Relaunching(Here)), Unsent
      PROVE  Answered'
  <2>1. Good(Relaunching(Here), World)
    BY <1>1, <1>5, Given, Fields, RelaunchingGood DEF Answered
  <2>2. Outer'
    BY <1>2, <1>5, Given DEF Outer, Unsent
  <2>3. World' = World
    BY <1>2, <1>5 DEF World, Unsent
  <2> QED BY <1>5, <2>1, <2>2, <2>3, Closes DEF Good, Answered
<1>6. (~turn) \in BOOLEAN
  OBVIOUS
<1>7. \/ \E ready \in BOOLEAN : Checked(Here, ready, FALSE)
      \/ ~alive /\ Become(Relaunching(Here)) /\ Unsent
  BY <1>6 DEF ChecksEnd
<1> QED BY <1>4, <1>5, <1>7

\* The row a relaunch succeeded for: bound, watched, and working if a turn was found running.
Restored == [Here EXCEPT !.row = "bound"]
Found == IF turn' THEN Changed([Publish(Restored) EXCEPT !.working = ~HoldsDown(Publish(Restored).visible)]) ELSE Publish(Restored)

LEMMA FoundSpec ==
  ASSUME Answered, RelaunchSucceeds
  PROVE  /\ WorldOK(Meanwhile) /\ native' \in Run \cup {None} /\ turn' \in BOOLEAN /\ pid' \in 1..MaxPids /\ stopped' \subseteq stopped
         /\ Found \in Stores /\ Core(Found, Meanwhile) /\ Found.row = "bound" /\ Found.visible = visible /\ Found.cmd = cmd
         /\ obs # None => Found.obs # None
         /\ IF cmd.kind = "retry" THEN Checked(Found, unattended /\ ~turn', FALSE) ELSE Become(Finish(Found)) /\ Unsent
<1> DEFINE b == Restored
           s == Publish(b)
           w == [s EXCEPT !.working = ~HoldsDown(s.visible)]
           found == IF turn' THEN Changed(w) ELSE s
<1>1. /\ cmd # None /\ cmd.step = "relaunch"
      /\ cmd.kind = "retry" => (cmd.live => obs # None) /\ (cmd.same /\ visible # None => visible.next <= now)
  BY Fields DEF Answered, Commands, RelaunchSucceeds
<1>2. UNCHANGED << now, turns, cancellation, unattended, stops, restarts >> /\ alive' = TRUE
  BY DEF RelaunchSucceeds, clock
<1>3. IF cmd.kind = "retry" THEN Checked(found, unattended /\ ~turn', FALSE) ELSE Become(Finish(found)) /\ Unsent
  BY DEF RelaunchSucceeds, Found, Restored
<1>4. /\ WorldOK(Meanwhile) /\ native' \in Run \cup {None} /\ turn' \in BOOLEAN /\ pid' \in 1..MaxPids /\ stopped' \subseteq stopped
      /\ native' = native \/ (native' # None /\ native'.status = "running")
  <2>1. CASE Adopts /\ UNCHANGED pid
    BY <1>2, <2>1, Given, AdoptsWorld DEF Outer
  <2>2. CASE pid' \in { pid, pid + 1 } \cap (1..MaxPids) /\ UNCHANGED << native, turn, stopped >>
    <3>1. ~turn
      BY <1>1, Fields DEF Answered, Commands, WorldOK
    <3>2. WorldOK(Meanwhile)
      BY <1>2, <2>2, <3>1, Fields, MeanwhileFields DEF Answered, WorldOK
    <3> QED BY <2>2, <3>2, Given
  <2> QED BY <2>1, <2>2 DEF RelaunchSucceeds
<1>5. b \in Stores /\ b.row = "bound" /\ b.visible = visible /\ b.budget = budget /\ b.obs = obs /\ b.cmd = cmd
  BY Given, Fields DEF Stores, Restored
<1> HIDE DEF b
<1>6. Core(b, Meanwhile)
  <2>1. Core(b, World)
    BY <1>5, Fields, CoreSame DEF Answered
  <2> QED BY <1>2, <1>4, <2>1, Fields, MeanwhileFields, CoreWorld
<1>7. s \in Stores /\ SameRow(b, s) /\ s.cmd = cmd /\ Core(s, Meanwhile) /\ (obs # None => s.obs # None)
  BY <1>5, <1>6, Given, PublishSpec, PublishKeeps DEF Watchable
<1> HIDE DEF s
<1>8. w \in Stores /\ w.row = "bound" /\ w.visible = visible /\ w.budget = s.budget /\ w.obs = s.obs /\ w.cmd = cmd
  <2>1. (~HoldsDown(s.visible)) \in BOOLEAN
    BY DEF HoldsDown
  <2> QED BY <1>5, <1>7, <2>1 DEF Stores, SameRow
<1> HIDE DEF w
<1>9. Core(w, Meanwhile)
  BY <1>5, <1>7, <1>8, CoreSame DEF SameRow
<1>10. /\ Changed(w) \in Stores /\ SameRow(w, Changed(w)) /\ Changed(w).obs = w.obs /\ Changed(w).cmd = cmd
       /\ Core(Changed(w), Meanwhile)
  BY <1>8, <1>9, ChangedSpec, CoreSame DEF SameRow
<1>11. found \in Stores /\ Core(found, Meanwhile) /\ found.row = "bound" /\ found.visible = visible /\ found.cmd = cmd /\ (obs # None => found.obs # None)
  BY <1>5, <1>7, <1>8, <1>10 DEF SameRow
<1>12. found = Found
  BY DEF Found, s, w, b
<1> HIDE DEF found
<1> QED BY <1>3, <1>4, <1>11, <1>12

LEMMA RelaunchSucceedsKeeps ==
  ASSUME Answered, RelaunchSucceeds
  PROVE  Answered'
<1>1. /\ cmd # None /\ cmd.step = "relaunch"
      /\ cmd.kind = "retry" => (cmd.live => obs # None) /\ (cmd.same /\ visible # None => visible.next <= now)
  BY Fields DEF Answered, Commands, RelaunchSucceeds
<1>2. UNCHANGED << now, turns, cancellation, unattended, stops, restarts >> /\ alive' = TRUE
  BY DEF RelaunchSucceeds, clock
<1>3. /\ WorldOK(Meanwhile) /\ native' \in Run \cup {None} /\ turn' \in BOOLEAN /\ pid' \in 1..MaxPids /\ stopped' \subseteq stopped
      /\ Found \in Stores /\ Core(Found, Meanwhile) /\ Found.row = "bound" /\ Found.visible = visible /\ Found.cmd = cmd
      /\ obs # None => Found.obs # None
      /\ IF cmd.kind = "retry" THEN Checked(Found, unattended /\ ~turn', FALSE) ELSE Become(Finish(Found)) /\ Unsent
  BY FoundSpec
<1>4. RowOK(Found, Meanwhile)
  BY <1>3 DEF RowOK
<1>5. CASE cmd.kind = "retry"
  <2>1. (unattended /\ ~turn') \in BOOLEAN /\ alive' \in BOOLEAN
    BY <1>2
  <2> QED BY <1>1, <1>2, <1>3, <1>4, <1>5, <2>1, CheckedKeeps
<1>6. CASE cmd.kind # "retry"
  <2>1. Become(Finish(Found)) /\ Unsent
    BY <1>3, <1>6
  <2>2. Good(Finish(Found), Meanwhile)
    BY <1>3, <1>4, FinishGood
  <2>3. World' = Meanwhile
    BY <2>1, MeanwhileFields DEF Unsent
  <2>4. Outer'
    BY <1>2, <1>3, <2>1, Given DEF Outer, Unsent
  <2> QED BY <1>3, <2>1, <2>2, <2>3, <2>4, Closes DEF Good
<1> QED BY <1>5, <1>6

LEMMA RelaunchFailsKeeps ==
  ASSUME Answered, RelaunchFails
  PROVE  Answered'
<1> DEFINE b == [Here EXCEPT !.row = "error"]
           s == IF row = "error" THEN Here ELSE Publish(b)
<1>1. /\ cmd # None /\ cmd.step = "relaunch" /\ ~alive
      /\ cmd.kind = "retry" => (cmd.live => obs # None) /\ (cmd.same /\ visible # None => visible.next <= now)
  BY Fields DEF Answered, Commands, RelaunchFails
<1>2. UNCHANGED << now, native, turns, turn, alive, pid, cancellation, unattended, stops, restarts, stopped >>
  BY DEF RelaunchFails, clock
<1>3. IF cmd.kind = "retry" THEN Checked(s, FALSE, TRUE) ELSE Become(Finish(s)) /\ Unsent
  BY DEF RelaunchFails
<1>4. Meanwhile = World
  BY <1>2 DEF Meanwhile, World
<1>5. b \in Stores /\ b.row = "error" /\ b.visible = visible /\ b.budget = budget /\ b.obs = obs /\ b.cmd = cmd /\ b.working = working
  BY Given, Fields DEF Stores
<1> HIDE DEF b
<1>6. Core(b, World)
  BY <1>5, Fields, CoreSame DEF Answered
<1>7. /\ Publish(b) \in Stores /\ SameRow(b, Publish(b)) /\ Publish(b).cmd # None /\ Publish(b).cmd.kind = cmd.kind
      /\ Publish(b).cmd.same = cmd.same /\ ~Publish(b).cmd.live /\ Core(Publish(b), World)
  <2>1. Publish(b) \in Stores /\ SameRow(b, Publish(b)) /\ Publish(b).cmd = Detached(b.cmd)
    BY <1>5, Given, PublishSpec DEF Watchable
  <2>2. b.cmd \in Command \cup {None}
    BY <1>5 DEF Stores
  <2> QED BY <1>1, <1>5, <1>6, <2>1, <2>2, Given, DetachedType, PublishKeeps
<1>8. /\ s \in Stores /\ Core(s, World) /\ s.visible = visible /\ s.cmd # None /\ s.cmd.kind = cmd.kind /\ s.cmd.same = cmd.same
      /\ cmd.kind = "retry" /\ s.cmd.live => s.obs # None
  BY <1>1, <1>5, <1>7, Given, Fields DEF SameRow, Answered
<1>9. RowOK(s, World)
  <2>1. ~working
    BY <1>1, Fields DEF Answered, RowOK, Commands
  <2>2. s.working = working
    BY <1>5, <1>7, Fields DEF SameRow
  <2> QED BY <1>1, <2>1, <2>2, Fields DEF RowOK
<1> HIDE DEF s
<1>10. CASE cmd.kind = "retry"
  <2>1. WorldOK(World)
    BY DEF Answered
  <2>2. /\ native' \in Run \cup {None} /\ turn' \in BOOLEAN /\ alive' \in BOOLEAN /\ pid' \in 1..MaxPids
        /\ stopped' \subseteq stopped
    BY <1>2, Given DEF Outer
  <2>3. Checked(s, FALSE, TRUE)
    BY <1>3, <1>10
  <2> QED BY <1>1, <1>2, <1>4, <1>8, <1>9, <1>10, <2>1, <2>2, <2>3, CheckedKeeps
<1>11. CASE cmd.kind # "retry"
  <2>1. Become(Finish(s)) /\ Unsent
    BY <1>3, <1>11
  <2>2. Good(Finish(s), World)
    BY <1>8, <1>9, FinishGood
  <2>3. World' = World
    BY <1>2, <2>1 DEF World, Unsent
  <2>4. Outer'
    BY <1>2, <2>1, Given DEF Outer, Unsent
  <2> QED BY <2>1, <2>2, <2>3, <2>4, Closes DEF Good, Answered
<1> QED BY <1>10, <1>11

LEMMA SubmitEndsKeeps ==
  ASSUME Answered, SubmitEnds
  PROVE  Answered'
<1>1. /\ cmd # None /\ cmd.step = "submit" /\ cmd.kind = "retry" /\ (cmd.live => obs # None)
      /\ cmd.same /\ visible # None =>
           visible.turn \notin stopped /\ (~cmd.sent => << visible.turn, visible.failedAt >> \notin prompted)
  BY Fields DEF Answered, Commands, SubmitEnds
<1>2. /\ UNCHANGED << clock, provider, cancellation, unattended, stops, restarts, history >> /\ unattended' \in BOOLEAN
  BY Given DEF SubmitEnds, Outer
<1>3. ASSUME NEW t \in Stores, Core(t, World), RowOK(t, World), Become(Finish(t))
      PROVE  Answered'
  BY <1>2, <1>3, FinishGood, ChainStep
<1>4. /\ Here \in Stores /\ Core(Here, World) /\ RowOK(Here, World) /\ now \in Nat /\ turn \in BOOLEAN /\ World.now = now
      /\ visible # None => visible \in Failure /\ visible = budget /\ visible.failedAt <= now
  BY Given, Fields DEF Answered, Core, FailureOK, Stores
<1>5. CASE cmd.sent /\ alive /\ Become(Finish(Submitted(Here)))
  <2> DEFINE told == [Here EXCEPT !.working = TRUE]
             timer == [kind |-> "ack", due |-> now + AckWait]
             armed == [told EXCEPT !.obs.timer = timer]
  <2>1. /\ Submitted(Here) = told \/ (obs # None /\ Submitted(Here) = armed)
    BY <1>1, Fields DEF Submitted
  <2>2. /\ told \in Stores /\ told.row = row /\ told.visible = visible /\ told.budget = budget /\ told.obs = obs /\ told.cmd = cmd
    BY <1>4, Fields DEF Stores
  <2>3. timer \in Timer
    BY <1>4, Bounds DEF Timer, Times
  <2> HIDE DEF told, timer
  <2>4. row = "bound"
    BY <1>4, <1>5, Fields DEF RowOK
  <2>5. Core(told, World) /\ RowOK(told, World)
    BY <1>4, <2>2, <2>4, Fields, CoreSame DEF RowOK
  <2>6. ASSUME obs # None PROVE armed \in Stores /\ Core(armed, World) /\ RowOK(armed, World)
    <3>1. armed \in Stores /\ SameRow(told, armed) /\ SameObs(told.obs, armed.obs)
      BY <2>2, <2>3, <2>6, TimerSet
    <3> HIDE DEF armed
    <3>2. Core(armed, World) /\ RowOK(armed, World)
      BY <2>5, <3>1 DEF Core, SameRow, SameObs, ExitOK, Answers, RowOK
    <3> QED BY <3>1, <3>2
  <2> QED BY <1>3, <1>5, <2>1, <2>2, <2>5, <2>6
<1>6. CASE ~cmd.sent /\ Become(Finish(Deferred(Here)))
  <2> DEFINE f == visible
             given == f.attempts - 1
             delay == Delays[IF given < Len(Delays) THEN given + 1 ELSE Len(Delays)]
             next == [f EXCEPT !.attempts = given, !.status = "scheduled", !.submitted = 0, !.next = now + delay]
             saved == Save(Here, next)
             current == cmd.live /\ cmd.same /\ f # None /\ f.status = "retrying"
  <2>1. Deferred(Here) = IF current THEN Schedule(saved, next) ELSE Here
    BY Fields DEF Deferred
  <2>2. CASE ~current
    BY <1>3, <1>4, <1>6, <2>1, <2>2
  <2>3. CASE current
    <3>1. f \in Failure /\ f # None /\ f = budget /\ f.failedAt <= now /\ f.attempts >= 1
      BY <1>4, <2>3, Fields DEF Core, FailureOK
    <3>2. given \in 0..Len(Delays) /\ given < Len(Delays)
      BY <3>1, LenType DEF Failure
    <3> HIDE DEF given
    <3>3. now + delay \in Nat /\ now + delay > now
      <4>1. given + 1 \in 1..Len(Delays)
        BY <3>2, LenType
      <4>2. delay = Delays[given + 1]
        BY <3>2
      <4> QED BY <1>4, <4>1, <4>2, DelayType
    <3> HIDE DEF delay
    <3>4. /\ next \in Failure /\ next.turn = f.turn /\ next.failedAt = f.failedAt /\ next.code = f.code
          /\ next.status = "scheduled" /\ next.attempts = given /\ next.next = now + delay
      BY <3>1, <3>2, <3>3 DEF Failure, Times
    <3> HIDE DEF next
    <3>5. next # None /\ About(next, budget)
      BY <3>1, <3>4, NoneAssumption DEF About
    <3>6. next.failedAt \in Nat
      BY <3>4 DEF Failure, Times
    <3>7. FailureOK(next, World)
      BY <1>4, <3>1, <3>2, <3>3, <3>4, <3>6, Fields DEF FailureOK, Core
    <3>8. NotAnswered(next, World)
      BY <1>1, <1>6, <2>3, <3>4, Fields DEF NotAnswered, Scheduled
    <3>9. Core(saved, World) /\ saved \in Stores /\ Rest(Here, saved) /\ saved.budget = next
      BY <1>4, <3>4, <3>5, <3>7, <3>8, Fields, SaveAgain, SaveRest, SaveSpec
    <3> HIDE DEF saved
    <3>10. About(next, saved.budget)
      BY <3>5, <3>9 DEF About
    <3>11. Schedule(saved, next) \in Stores /\ Core(Schedule(saved, next), World) /\ Rest(saved, Schedule(saved, next))
      BY <1>4, <3>4, <3>9, <3>10, ScheduleKeeps, ScheduleRest
    <3>12. RowOK(Schedule(saved, next), World)
      BY <1>4, <3>9, <3>11 DEF RowOK, Rest
    <3> QED BY <1>3, <1>6, <2>1, <2>3, <3>11, <3>12
  <2> QED BY <2>2, <2>3
<1>7. CASE Become(Finish(GivenUp(Here)))
  <2> DEFINE f == [visible EXCEPT !.status = "stopped", !.next = 0]
  <2>1. GivenUp(Here) = IF visible # None /\ visible.status # "stopped" THEN Save(Here, f) ELSE Here
    BY Fields DEF GivenUp
  <2>2. CASE ~(visible # None /\ visible.status # "stopped")
    BY <1>3, <1>4, <1>7, <2>1, <2>2
  <2>3. CASE visible # None /\ visible.status # "stopped"
    <3>1. f \in Failure /\ f.status = "stopped" /\ f.turn = visible.turn /\ f.failedAt = visible.failedAt /\ f.code = visible.code
      BY <1>4, <2>3 DEF Failure, Times
    <3> HIDE DEF f
    <3>2. About(f, budget)
      BY <1>4, <2>3, <3>1, NoneAssumption DEF About
    <3>3. Core(Save(Here, f), World) /\ Save(Here, f) \in Stores /\ Rest(Here, Save(Here, f))
      BY <1>4, <3>1, <3>2, Fields, StopKeeps, SaveRest
    <3>4. RowOK(Save(Here, f), World)
      BY <1>4, <3>3 DEF RowOK, Rest
    <3> QED BY <1>3, <1>7, <2>1, <2>3, <3>3, <3>4
  <2> QED BY <2>2, <2>3
<1> QED BY <1>5, <1>6, <1>7 DEF SubmitEnds

-----------------------------------------------------------------------------
(***************************************************************************)
(* The theorems.                                                           *)
(***************************************************************************)
LEMMA AnsweredStep ==
  ASSUME Answered, [Next]_vars
  PROVE  Answered'
<1>1. CASE UNCHANGED vars
  <2>1. Here' = Here /\ World' = World
    BY <1>1 DEF vars, clock, provider, durable, memory, history, Here, World
  <2>2. TypeOK'
    BY <1>1 DEF vars, clock, provider, durable, memory, history, Answered, TypeOK
  <2> QED BY <2>1, <2>2 DEF Answered
<1>2. CASE \E e \in Ends : TurnEnds(e[1], e[2])
  <2>1. PICK e \in Ends : TurnEnds(e[1], e[2])
    BY <1>2
  <2>2. /\ e[1] \in { "completed", "cancelled", "failed" } /\ e[2] \in { "none", "transient", "permanent" }
        /\ e[1] = "failed" => e[2] # "none"
    BY DEF Ends
  <2> QED BY <2>1, <2>2, TurnEndsKeeps
<1>3. CASE CommandStep
  BY <1>3, BeginRunKeeps, BeginLossKeeps, BeginReconcileKeeps, AdoptSurvivorKeeps, ReadEndsKeeps, ChecksEndKeeps,
     RelaunchSucceedsKeeps, RelaunchFailsKeeps, SubmitEndsKeeps DEF CommandStep
<1>4. CASE Tick \/ TurnStarts \/ ItemCompleted \/ ConnectionLost \/ Cancel \/ Permit \/ TimerFires \/ Reconcile \/ Restart
  BY <1>4, TickKeeps, TurnStartsKeeps, ItemCompletedKeeps, ConnectionLostKeeps, CancelKeeps, PermitKeeps, TimerFiresKeeps,
     ReconcileKeeps, RestartKeeps
<1> QED BY <1>1, <1>2, <1>3, <1>4 DEF Next

\* A prompt is only sent from the answer of canRetry on, for the failure the row announces.
LEMMA SendsWhenScheduled ==
  ASSUME Answered, [Next]_vars, Sends
  PROVE  visible # None /\ visible.status = "scheduled" /\ visible = budget
<1>1. spent \in Nat /\ spent' > spent
  BY Given DEF Outer, Sends
<1>2. ASSUME NEW s, s.visible = visible, NEW ready, NEW relaunchFailed, Checked(s, ready, relaunchFailed)
      PROVE  visible # None /\ visible.status = "scheduled"
  <2>1. ~Unsent
    BY <1>1 DEF Unsent
  <2>2. StillScheduled(s)
    BY <1>2, <2>1 DEF Checked
  <2> QED BY <1>2, <2>2 DEF StillScheduled
<1>3. ~(UNCHANGED spent) /\ spent' # 0
  BY <1>1
<1>4. ChecksEnd \/ RelaunchSucceeds \/ RelaunchFails
  <2>1. ~(\E e \in Ends : TurnEnds(e[1], e[2]))
    BY <1>3 DEF TurnEnds
  <2>2. ~(Tick \/ TurnStarts \/ ItemCompleted \/ ConnectionLost \/ Cancel \/ Permit \/ TimerFires \/ Reconcile \/ Restart)
    BY <1>3 DEF Tick, TurnStarts, ItemCompleted, ConnectionLost, Cancel, Permit, TimerFires, Reconcile, Restart, history
  <2>3. ~(BeginRun \/ BeginLoss \/ BeginReconcile \/ AdoptSurvivor \/ ReadEnds \/ SubmitEnds)
    BY <1>3 DEF BeginRun, BeginLoss, BeginReconcile, AdoptSurvivor, ReadEnds, SubmitEnds, history
  <2>4. ~(UNCHANGED vars)
    BY <1>3 DEF vars, history
  <2> QED BY <2>1, <2>2, <2>3, <2>4 DEF Next, CommandStep
<1>5. visible # None => visible = budget
  BY Fields DEF Answered, Core
<1>6. CASE ChecksEnd
  BY <1>2, <1>3, <1>5, <1>6, Fields DEF ChecksEnd, Unsent
<1>7. CASE RelaunchSucceeds
  <2>1. Found.visible = visible /\ (IF cmd.kind = "retry" THEN Checked(Found, unattended /\ ~turn', FALSE) ELSE Unsent)
    BY <1>7, FoundSpec
  <2> QED BY <1>2, <1>3, <1>5, <2>1 DEF Unsent
<1>8. CASE RelaunchFails
  <2> DEFINE b == [Here EXCEPT !.row = "error"]
             s == IF row = "error" THEN Here ELSE Publish(b)
  <2>1. b \in Stores /\ b.visible = visible
    BY Given, Fields DEF Stores
  <2>2. (IF cmd.kind = "retry" THEN Checked(s, FALSE, TRUE) ELSE Unsent)
    BY <1>8 DEF RelaunchFails
  <2> HIDE DEF b
  <2>3. s.visible = visible
    BY <2>1, Given, Fields, PublishSpec DEF SameRow
  <2> HIDE DEF s
  <2> QED BY <1>2, <1>3, <1>5, <2>2, <2>3 DEF Unsent
<1> QED BY <1>4, <1>6, <1>7, <1>8

\* The state of recovery has its type: attempts never pass the delays (RUN_RETRY_DELAYS_MS),
\* and a timer is only armed on an observation there is.
THEOREM TypeCorrect == Spec => []TypeOK
<1>1. Answered => TypeOK
  BY DEF Answered
<1> QED BY <1>1, InitAnswered, AnsweredStep, PTL DEF Spec

\* The failure in the meta table and the end of a process that the observation holds back agree
\* about what was answered, so a failure is answered by one prompt at most (retry() and refresh()).
THEOREM AnsweredOnce == Spec => OnePromptPerFailure
<1>1. Answered /\ [Next]_vars => [Sends => << visible.turn, visible.failedAt >> \notin prompted]_vars
  <2> SUFFICES ASSUME Answered, [Next]_vars, Sends
               PROVE  << visible.turn, visible.failedAt >> \notin prompted
    OBVIOUS
  <2>1. visible # None /\ visible.status = "scheduled" /\ visible = budget
    BY SendsWhenScheduled
  <2> QED BY <2>1, Fields DEF Answered, Core, NotAnswered, Scheduled
<1> QED BY <1>1, InitAnswered, AnsweredStep, PTL DEF Spec, OnePromptPerFailure

\* Recovery never continues a turn that had begun when the person pressed Stop (cancel(), and
\* `cancelled` in refresh()).
THEOREM StoppedStays == Spec => NothingForStoppedTurn
<1>1. Answered /\ [Next]_vars => [Sends => visible.turn \notin stopped]_vars
  <2> SUFFICES ASSUME Answered, [Next]_vars, Sends
               PROVE  visible.turn \notin stopped
    OBVIOUS
  <2>1. visible # None /\ visible.status = "scheduled" /\ visible = budget
    BY SendsWhenScheduled
  <2> QED BY <2>1, Fields DEF Answered, Core, NotAnswered, Scheduled
<1> QED BY <1>1, InitAnswered, AnsweredStep, PTL DEF Spec, NothingForStoppedTurn

-----------------------------------------------------------------------------
(***************************************************************************)
(* A retry the row announces has its timer, or something on the chain will *)
(* see to it: a refresh before the first run is known, the job of a timer  *)
(* that fired, the command in which the retry or the check is made.        *)
(***************************************************************************)
Live(f) == f # None /\ f.status \in { "scheduled", "retrying" }
Retrying(f) == f # None /\ f.status = "retrying"

\* A refresh is never dropped with its observation.
Jobs(s) == \A i \in DOMAIN s.queue : s.queue[i].kind = "refresh" => s.queue[i].live
HasLoss(s) == \E i \in DOMAIN s.queue : s.queue[i].kind = "loss"
Passes(s, t) == Jobs(t) /\ (HasLoss(t) => HasLoss(s))

LEMMA PassesTrans ==
  ASSUME NEW s, NEW t, NEW u, Passes(s, t), Passes(t, u)
  PROVE  Passes(s, u)
BY DEF Passes

LEMMA SameQueue ==
  ASSUME NEW s, NEW t, t.queue = s.queue
  PROVE  MoreJobs(s, t) /\ (Jobs(s) => Passes(s, t))
BY DEF MoreJobs, HasJob, Passes, Jobs, HasLoss

LEMMA ChangedJobs ==
  ASSUME NEW s \in Stores, Jobs(s)
  PROVE  /\ Passes(s, Changed(s)) /\ MoreJobs(s, Changed(s))
         /\ s.obs # None => HasJob(Changed(s), "refresh")
<1> DEFINE j == [kind |-> "refresh", live |-> TRUE]
           t == [s EXCEPT !.queue = Append(@, j)]
<1>1. j \in Job /\ s.queue \in Seq(Job) /\ j.kind = "refresh" /\ j.live
  BY DEF Job, Stores
<1>2. t.queue = Append(s.queue, j)
  BY DEF Stores
<1>3. CASE s.obs = None
  BY <1>3, SameQueue DEF Changed
<1>4. CASE s.obs # None /\ Waits(s, "refresh")
  <2>1. HasJob(s, "refresh")
    <3>1. DOMAIN s.queue = 1..Len(s.queue)
      BY <1>1
    <3> QED BY <1>4, <3>1 DEF Waits, HasJob, Jobs
  <2> QED BY <1>4, <2>1, SameQueue DEF Changed
<1>5. CASE s.obs # None /\ ~Waits(s, "refresh")
  <2>1. Changed(s) = t
    BY <1>5 DEF Changed
  <2> HIDE DEF j, t
  <2>2. /\ Len(s.queue) + 1 \in DOMAIN t.queue /\ t.queue[Len(s.queue) + 1] = j
        /\ \A i \in DOMAIN s.queue : i \in DOMAIN t.queue /\ t.queue[i] = s.queue[i]
        /\ \A i \in DOMAIN t.queue : (i \in DOMAIN s.queue /\ t.queue[i] = s.queue[i]) \/ t.queue[i] = j
    BY <1>1, <1>2, Appends
  <2>3. HasJob(t, "refresh") /\ MoreJobs(s, t)
    BY <1>1, <2>2 DEF HasJob, MoreJobs
  <2>4. Passes(s, t)
    BY <1>1, <2>2 DEF Passes, Jobs, HasLoss
  <2> QED BY <2>1, <2>3, <2>4
<1> QED BY <1>3, <1>4, <1>5

LEMMA StopWatchingJobs ==
  ASSUME NEW s \in Stores, Jobs(s)
  PROVE  Passes(s, StopWatching(s))
<1> DEFINE q == [i \in DOMAIN s.queue |-> [s.queue[i] EXCEPT !.live = @ /\ s.queue[i].kind \notin { "retry", "ack" }]]
<1>1. StopWatching(s).queue = q
  BY DEF StopWatching, Stores
<1>2. s.queue \in Seq(Job) /\ \A i \in DOMAIN s.queue : s.queue[i] \in Job
  BY DEF Stores
<1>3. \A i \in DOMAIN s.queue : q[i].kind = s.queue[i].kind /\ (s.queue[i].kind = "refresh" /\ s.queue[i].live => q[i].live)
  BY <1>2 DEF Job
<1>4. DOMAIN q = DOMAIN s.queue
  OBVIOUS
<1> HIDE DEF q
<1> QED BY <1>1, <1>3, <1>4 DEF Passes, Jobs, HasLoss

LEMMA PublishJobs ==
  ASSUME NEW s \in Stores, Jobs(s), now \in Nat
  PROVE  /\ Passes(s, Publish(s))
         /\ Watchable(s.row) => MoreJobs(s, Publish(s)) /\ (s.obs = None => HasJob(Publish(s), "refresh"))
<1>1. CASE Watchable(s.row) /\ s.obs # None
  <2>1. Publish(s) = s
    BY <1>1, PublishSpec
  <2> QED BY <1>1, <2>1, SameQueue
<1>2. CASE Watchable(s.row) /\ s.obs = None
  <2> DEFINE t == [s EXCEPT !.obs = First(s)]
  <2>1. Publish(s) = Changed(t)
    BY <1>2 DEF Publish, Watch, First
  <2>2. t \in Stores /\ t.queue = s.queue /\ t.obs # None
    BY FirstType DEF Stores
  <2> HIDE DEF t
  <2>3. Jobs(t) /\ MoreJobs(s, t) /\ Passes(s, t)
    BY <2>2, SameQueue DEF Passes
  <2>4. Passes(t, Changed(t)) /\ MoreJobs(t, Changed(t)) /\ HasJob(Changed(t), "refresh")
    BY <2>2, <2>3, ChangedJobs
  <2> QED BY <2>1, <2>3, <2>4, PassesTrans DEF MoreJobs
<1>3. CASE ~Watchable(s.row)
  BY <1>3, StopWatchingJobs DEF Publish
<1> QED BY <1>1, <1>2, <1>3

LEMMA SaveJobs ==
  ASSUME NEW s \in Stores, NEW f \in Failure \cup {None}, Jobs(s), now \in Nat, turn \in BOOLEAN
  PROVE  Passes(s, Save(s, f))
<1> DEFINE a == [s EXCEPT !.visible = f, !.budget = f, !.working = @ /\ ~HoldsDown(f)]
           b == IF s.row = "bound" THEN Synced(a) ELSE a
<1>1. a \in Stores /\ a.queue = s.queue
  <2>1. (s.working /\ ~HoldsDown(f)) \in BOOLEAN
    OBVIOUS
  <2> QED BY <2>1 DEF Stores
<1>2. Save(s, f) = Publish(b)
  <2>1. Save(s, f) = Publish(IF s.row = "bound" THEN Synced(a) ELSE a)
    BY DEF Save
  <2> QED BY <2>1
<1> HIDE DEF a
<1>3. b \in Stores /\ b.queue = s.queue
  BY <1>1, SyncedSpec
<1> HIDE DEF b
<1>4. Passes(s, b) /\ Jobs(b)
  BY <1>3, SameQueue DEF Passes
<1>5. Passes(b, Publish(b))
  BY <1>3, <1>4, PublishJobs
<1> QED BY <1>2, <1>4, <1>5, PassesTrans

LEMMA ScheduleJobs ==
  ASSUME NEW s \in Stores, NEW f \in Failure, Jobs(s), now \in Nat, turn \in BOOLEAN
  PROVE  Passes(s, Schedule(s, f))
<1>1. CASE Schedule(s, f) = Save(ClearTimer(s), Stopped(f))
  <2> DEFINE a == ClearTimer(s)
  <2>1. a \in Stores /\ a.queue = s.queue /\ Stopped(f) \in Failure \cup {None}
    BY ClearTimerSpec, StoppedType
  <2> HIDE DEF a
  <2>2. Passes(s, a) /\ Jobs(a)
    BY <2>1, SameQueue DEF Passes
  <2>3. Passes(a, Save(a, Stopped(f)))
    BY <2>1, <2>2, SaveJobs
  <2>4. Passes(s, Save(a, Stopped(f)))
    BY <2>2, <2>3, PassesTrans
  <2> QED BY <1>1, <2>4 DEF a
<1>2. CASE Schedule(s, f) = s
  BY <1>2, SameQueue
<1>3. ASSUME s.obs # None, NEW timer \in Timer, Schedule(s, f) = [s EXCEPT !.obs.timer = timer]
      PROVE  Passes(s, Schedule(s, f))
  <2> DEFINE t == [s EXCEPT !.obs.timer = timer]
  <2>1. t.queue = s.queue
    BY <1>3, TimerSet
  <2>2. Schedule(s, f) = t
    BY <1>3
  <2> HIDE DEF t
  <2> QED BY <2>1, <2>2, SameQueue
<1> QED BY <1>1, <1>2, <1>3, ScheduleCases

\* What the observation knows of the failure that is announced, and what the monitor will say.
Follows(o, f, e) == o # None =>
    /\ o.run # None => o.run.turn <= e.turns \/ o.run.turn > MaxTurns
    /\ Live(f) => e.native # None \/ o.exit # None
    /\ Live(f) /\ o.run # None =>
         /\ o.run.turn = f.turn /\ o.run.status = "failed"
         /\ o.run.turn > MaxTurns => o.exit = o.run
         /\ e.native # None /\ e.native.turn = o.run.turn => e.native = o.run

Known(f, e) == f # None => f.code = "process_exited" \/ e.native # None

Base(s, e) ==
    /\ Jobs(s) /\ Known(s.budget, e) /\ (s.row = "error" => s.obs = None)
    /\ Follows(s.obs, s.visible, e)

\* The timer that fits the failure.
Ticking(s) ==
    /\ s.obs.timer # None
    /\ Scheduled(s.visible) => s.obs.timer.kind = "retry" /\ s.obs.timer.due >= s.visible.next
    /\ Retrying(s.visible) => s.obs.timer.kind = "ack"
Calm(s) == s.obs # None /\ Live(s.visible) => Scheduled(s.visible) /\ Ticking(s)

LEMMA NotLive ==
  ASSUME NEW s, NEW e, ~Live(s.visible), Jobs(s), Known(s.budget, e), s.row = "error" => s.obs = None,
         s.obs # None /\ s.obs.run # None => s.obs.run.turn <= e.turns \/ s.obs.run.turn > MaxTurns
  PROVE  Base(s, e) /\ Calm(s)
BY DEF Base, Calm, Follows

LEMMA FirstFollows ==
  ASSUME NEW f \in Failure \cup {None}, NEW o \in Observation, NEW e, Known(f, e),
         o.exit = IF f # None /\ f.code = "process_exited" THEN ExitOf(f) ELSE None, o.run = None
  PROVE  Follows(o, f, e)
<1>1. f # None /\ f.code = "process_exited" => o.exit # None
  BY ExitType, NoneAssumption
<1> QED BY <1>1 DEF Follows, Known, Live

LEMMA SaveBase ==
  ASSUME NEW s \in Stores, NEW f \in Failure \cup {None}, NEW e, now \in Nat, turn \in BOOLEAN,
         Jobs(s), Known(f, e), s.row = "error" => s.obs = None, Follows(s.obs, f, e)
  PROVE  Base(Save(s, f), e) /\ Passes(s, Save(s, f))
<1>1. Passes(s, Save(s, f)) /\ Save(s, f).visible = f /\ Save(s, f).budget = f /\ Save(s, f).row = s.row
  BY SaveJobs, SaveSpec
<1>2. Follows(Save(s, f).obs, f, e)
  <2>1. CASE Watchable(s.row) /\ s.obs = None
    <3>1. Save(s, f).obs = [attached |-> now, run |-> None,
                            exit |-> IF f # None /\ f.code = "process_exited" THEN ExitOf(f) ELSE None, timer |-> None]
      BY <2>1, SaveSpec
    <3>2. /\ Save(s, f).obs.exit = IF f # None /\ f.code = "process_exited" THEN ExitOf(f) ELSE None
          /\ Save(s, f).obs.run = None
      BY <3>1
    <3>3. Save(s, f).obs \in Observation
      BY <2>1, SaveSpec DEF Stores
    <3> QED BY <3>2, <3>3, FirstFollows
  <2>2. CASE Watchable(s.row) /\ s.obs # None
    <3>1. Save(s, f).obs = s.obs
      BY <2>2, SaveSpec
    <3> QED BY <3>1
  <2>3. CASE ~Watchable(s.row)
    <3>1. Save(s, f).obs = None
      BY <2>3, SaveSpec
    <3> QED BY <3>1 DEF Follows
  <2> QED BY <2>1, <2>2, <2>3
<1>3. s.row = "error" => Save(s, f).obs = None
  BY SaveSpec DEF Watchable
<1> QED BY <1>1, <1>2, <1>3 DEF Base, Passes

LEMMA PublishBase ==
  ASSUME NEW s \in Stores, NEW e, now \in Nat, Base(s, e), s.visible \in { None, s.budget }
  PROVE  Base(Publish(s), e) /\ Passes(s, Publish(s))
<1>1. Passes(s, Publish(s)) /\ SameRow(s, Publish(s))
  BY PublishJobs, PublishSpec DEF Base
<1>2. Follows(Publish(s).obs, s.visible, e)
  <2>1. CASE Watchable(s.row) /\ s.obs = None
    <3>1. Publish(s).obs = First(s)
      BY <2>1, PublishSpec
    <3>2. Prior(s) = s.budget /\ s.budget \in Failure \cup {None}
      BY DEF Prior, Stores
    <3>3. /\ First(s).exit = IF s.budget # None /\ s.budget.code = "process_exited" THEN ExitOf(s.budget) ELSE None
          /\ First(s) \in Observation /\ First(s).run = None
      BY <3>2, FirstType
    <3>4. Follows(First(s), s.budget, e)
      BY <3>2, <3>3, FirstFollows DEF Base
    <3> QED BY <3>1, <3>3, <3>4 DEF Follows, Live
  <2>2. CASE Watchable(s.row) /\ s.obs # None
    <3>1. Publish(s) = s
      BY <2>2, PublishSpec
    <3> QED BY <3>1 DEF Base
  <2>3. CASE ~Watchable(s.row)
    <3>1. Publish(s).obs = None
      BY <2>3, PublishSpec
    <3> QED BY <3>1 DEF Follows
  <2> QED BY <2>1, <2>2, <2>3
<1>3. s.row = "error" => Publish(s).obs = None
  BY PublishSpec DEF Watchable
<1> QED BY <1>1, <1>2, <1>3 DEF Base, Passes, SameRow

LEMMA SaveStopped ==
  ASSUME NEW s \in Stores, NEW f \in Failure \cup {None}, ~Live(f), NEW e, now \in Nat, turn \in BOOLEAN,
         Jobs(s), Known(f, e), s.row = "error" => s.obs = None,
         s.obs # None /\ s.obs.run # None => s.obs.run.turn <= e.turns \/ s.obs.run.turn > MaxTurns
  PROVE  Base(Save(s, f), e) /\ Passes(s, Save(s, f)) /\ Calm(Save(s, f)) /\ ~Live(Save(s, f).budget)
<1>1. Follows(s.obs, f, e)
  BY DEF Follows
<1>2. Save(s, f).visible = f /\ Save(s, f).budget = f
  BY SaveSpec
<1> QED BY <1>1, <1>2, SaveBase DEF Calm

LEMMA ScheduleCalm ==
  ASSUME NEW s \in Stores, NEW f \in Failure, f.status = "scheduled", NEW e, now \in Nat, turn \in BOOLEAN,
         Base(s, e), s.visible \in { None, f }, s.budget = f
  PROVE  Base(Schedule(s, f), e) /\ Passes(s, Schedule(s, f)) /\ Calm(Schedule(s, f))
<1>1. CASE Schedule(s, f) = Save(ClearTimer(s), Stopped(f))
  <2> DEFINE a == ClearTimer(s)
  <2>1. a \in Stores /\ a.queue = s.queue /\ SameRow(s, a) /\ SameObs(s.obs, a.obs)
    BY ClearTimerSpec
  <2>2. Stopped(f) \in Failure /\ Stopped(f).status = "stopped" /\ Stopped(f).code = f.code
    BY StoppedType
  <2> HIDE DEF a
  <2>3. Passes(s, a) /\ Jobs(a)
    BY <2>1, SameQueue DEF Passes, Base
  <2>4. ~Live(Stopped(f)) /\ Known(Stopped(f), e)
    BY <2>2, NoneAssumption DEF Live, Known, Base
  <2>5. /\ a.row = "error" => a.obs = None
        /\ a.obs # None /\ a.obs.run # None => a.obs.run.turn <= e.turns \/ a.obs.run.turn > MaxTurns
    BY <2>1 DEF SameRow, SameObs, Base, Follows
  <2>6. Base(Save(a, Stopped(f)), e) /\ Passes(a, Save(a, Stopped(f))) /\ Calm(Save(a, Stopped(f)))
    BY <2>1, <2>2, <2>3, <2>4, <2>5, SaveStopped
  <2> QED BY <1>1, <2>3, <2>6, PassesTrans DEF a
<1>2. CASE Schedule(s, f) = s /\ s.obs = None
  BY <1>2, SameQueue DEF Calm, Base
<1>3. ASSUME s.obs # None, NEW timer \in Timer, timer.kind = "retry", timer.due >= f.next, Schedule(s, f) = [s EXCEPT !.obs.timer = timer]
      PROVE  Base(Schedule(s, f), e) /\ Passes(s, Schedule(s, f)) /\ Calm(Schedule(s, f))
  <2> DEFINE t == [s EXCEPT !.obs.timer = timer]
  <2>1. t.queue = s.queue /\ SameRow(s, t) /\ SameObs(s.obs, t.obs) /\ t.obs.timer = timer
    BY <1>3, TimerSet
  <2>2. Schedule(s, f) = t
    BY <1>3
  <2> HIDE DEF t
  <2>3. Passes(s, t) /\ Jobs(t)
    BY <2>1, SameQueue DEF Passes, Base
  <2>4. timer # None
    BY NoneAssumption
  <2>5. Base(t, e)
    BY <2>1, <2>3 DEF Base, SameRow, SameObs, Follows
  <2>6. Calm(t)
    BY <1>3, <2>1, <2>4 DEF Calm, Ticking, Scheduled, Retrying, Live, SameRow
  <2> QED BY <2>2, <2>3, <2>5, <2>6
<1> QED BY <1>1, <1>2, <1>3, ScheduleCases

-----------------------------------------------------------------------------
(***************************************************************************)
(* The second inductive invariant.                                         *)
(***************************************************************************)
At(s, step) == s.cmd # None /\ s.cmd.step = step

Queued(s, e) ==
    \/ s.obs.run = None /\ HasJob(s, "refresh")
    \/ Scheduled(s.visible) /\ s.visible.next <= e.now /\ HasJob(s, "retry")
    \/ Retrying(s.visible) /\ HasJob(s, "ack")

\* The command reads for the failure, is about to answer it, or answers it.
ReadsFor(s, e) ==
    /\ s.cmd.step = "read" /\ s.cmd.live
    /\ \/ s.obs.run = None
       \/ Scheduled(s.visible) /\ s.visible.next <= e.now /\ s.cmd.kind = "retry"
       \/ Retrying(s.visible) /\ s.cmd.kind = "ack"
Busy(s, e) == s.cmd # None /\ s.cmd.same /\
    (ReadsFor(s, e) \/ (s.cmd.step \in { "ask", "relaunch" } /\ s.cmd.kind = "retry") \/ s.cmd.step = "submit")

Announced(s, e) == s.obs # None /\ Live(s.visible) => Ticking(s) \/ Queued(s, e) \/ Busy(s, e)

\* A row that is being loaded, or whose load failed.
RowFits(s) ==
    /\ s.row = "starting" => At(s, "relaunch") \/ ~HasLoss(s)
    /\ s.row # "bound" /\ s.obs # None /\ Live(s.budget) => At(s, "relaunch")

\* What the command stands on between its awaits.
Doing(s) == s.cmd # None =>
    /\ ~s.cmd.live => s.row = "error"
    /\ ~s.cmd.same => ~Live(s.budget)
    /\ s.cmd.kind = "retry" => s.row # "error" /\ s.obs # None
    /\ s.cmd.step \in { "ask", "submit" } => s.row = "bound" /\ s.obs # None
    /\ s.cmd.step = "relaunch" /\ s.cmd.kind = "retry" => s.row = "starting"
    /\ s.cmd.step \in { "ask", "relaunch" } /\ s.cmd.kind = "retry" /\ s.cmd.same => Scheduled(s.visible)
    /\ s.cmd.step = "submit" /\ s.cmd.same => Retrying(s.visible)

Sound(s, e) == Base(s, e) /\ RowFits(s) /\ Doing(s) /\ Announced(s, e)

Accounted == Answered /\ Sound(Here, World)

\* What is left when no command is at work.
Idle(s, e) == s.obs # None /\ Live(s.visible) => Ticking(s) \/ Queued(s, e)

-----------------------------------------------------------------------------
(***************************************************************************)
(* What the small methods keep of it.                                      *)
(***************************************************************************)
LEMMA ClosesToo ==
  ASSUME Answered', NEW t \in Stores, Become(t), Sound(t, World')
  PROVE  Accounted'
BY BecomeType DEF Accounted

\* The newest run goes on, ends or is a new one.
Moves(e, d) ==
    /\ e.turns <= d.turns
    /\ \/ d.native = e.native
       \/ /\ d.native # None
          /\ \/ e.native # None /\ e.native.status = "running" /\ d.native.turn = e.native.turn
             \/ d.native.turn = e.turns + 1 /\ e.turns + 1 <= MaxTurns

LEMMA BaseWorld ==
  ASSUME NEW s \in Stores, NEW e, NEW d, Base(s, e), Moves(e, d), e.turns \in Nat, d.turns \in Nat, MaxTurns \in Nat
  PROVE  Base(s, d)
<1>1. Known(s.budget, d)
  BY DEF Base, Known, Moves
<1>3. s.obs # None => (s.obs.run # None => s.obs.run.turn <= d.turns \/ s.obs.run.turn > MaxTurns)
  <2>1. s.obs # None /\ s.obs.run # None => s.obs.run.turn \in Nat
    BY DEF Stores, Observation, Run, TurnIds
  <2> QED BY <2>1 DEF Base, Follows, Moves
<1>4. s.obs # None /\ Live(s.visible) => d.native # None \/ s.obs.exit # None
  BY DEF Base, Follows, Moves
<1>5. ASSUME s.obs # None, Live(s.visible), s.obs.run # None
      PROVE  /\ s.obs.run.turn = s.visible.turn /\ s.obs.run.status = "failed"
             /\ s.obs.run.turn > MaxTurns => s.obs.exit = s.obs.run
             /\ d.native # None /\ d.native.turn = s.obs.run.turn => d.native = s.obs.run
  <2>1. s.obs.run.turn \in Nat
    BY <1>5 DEF Stores, Observation, Run, TurnIds
  <2>2. e.native # None /\ e.native.turn = s.obs.run.turn => e.native = s.obs.run
    BY <1>5 DEF Base, Follows
  <2>3. s.obs.run.status = "failed" /\ (s.obs.run.turn <= e.turns \/ s.obs.run.turn > MaxTurns)
    BY <1>5 DEF Base, Follows
  <2>4. d.native # None /\ d.native.turn = s.obs.run.turn => d.native = s.obs.run
    BY <2>1, <2>2, <2>3 DEF Moves
  <2> QED BY <1>5, <2>4 DEF Base, Follows
<1> QED BY <1>1, <1>3, <1>4, <1>5 DEF Base, Follows

LEMMA AnnouncedWorld ==
  ASSUME NEW s \in Stores, NEW e, NEW d, e.now \in Nat, d.now \in Nat, e.now <= d.now
  PROVE  /\ Announced(s, e) => Announced(s, d)
         /\ Idle(s, e) => Idle(s, d)
<1>1. Scheduled(s.visible) => s.visible.next \in Nat
  BY DEF Scheduled, Stores, Failure, Times
<1>2. Scheduled(s.visible) /\ s.visible.next <= e.now => s.visible.next <= d.now
  BY <1>1
<1>3. Queued(s, e) => Queued(s, d)
  BY <1>2 DEF Queued
<1>4. Busy(s, e) => Busy(s, d)
  BY <1>2 DEF Busy, ReadsFor
<1> QED BY <1>3, <1>4 DEF Announced, Idle

LEMMA SoundWorld ==
  ASSUME NEW s \in Stores, NEW e, NEW d, Sound(s, e), Moves(e, d), e.turns \in Nat, d.turns \in Nat, MaxTurns \in Nat,
         e.now \in Nat, d.now \in Nat, e.now <= d.now
  PROVE  Sound(s, d)
BY BaseWorld, AnnouncedWorld DEF Sound

\* More in the queue.
LEMMA SoundQueue ==
  ASSUME NEW s \in Stores, NEW t \in Stores, NEW e, Sound(s, e), t.row = s.row, t.visible = s.visible, t.budget = s.budget,
         t.obs = s.obs, t.cmd = s.cmd, MoreJobs(s, t), Jobs(t), s.row = "bound" \/ (HasLoss(t) => HasLoss(s))
  PROVE  Sound(t, e)
<1>1. Base(t, e)
  BY DEF Sound, Base
<1>2. RowFits(t)
  BY DEF Sound, RowFits, At
<1>3. Doing(t)
  BY DEF Sound, Doing
<1>4. Queued(s, e) => Queued(t, e)
  BY DEF Queued, MoreJobs
<1>5. Announced(t, e)
  BY <1>4 DEF Sound, Announced, Ticking, Busy, ReadsFor
<1> QED BY <1>1, <1>2, <1>3, <1>5 DEF Sound

LEMMA SoundSame ==
  ASSUME NEW s \in Stores, NEW t \in Stores, NEW e, Sound(s, e), t.row = s.row, t.visible = s.visible, t.budget = s.budget,
         t.obs = s.obs, t.cmd = s.cmd, t.queue = s.queue
  PROVE  Sound(t, e)
BY SameQueue, SoundQueue DEF Sound, Base, Passes

LEMMA ChangedSound ==
  ASSUME NEW s \in Stores, NEW e, Sound(s, e)
  PROVE  Changed(s) \in Stores /\ Sound(Changed(s), e)
<1> DEFINE t == Changed(s)
<1>1. t \in Stores /\ SameRow(s, t) /\ t.obs = s.obs /\ t.cmd = s.cmd
  BY ChangedSpec
<1>2. MoreJobs(s, t) /\ Passes(s, t)
  BY ChangedJobs DEF Sound, Base
<1> HIDE DEF t
<1> QED BY <1>1, <1>2, SoundQueue DEF SameRow, Passes, t

\* A row that is bound is watched, or watched again: then the refresh will look.
LEMMA PublishSound ==
  ASSUME NEW s \in Stores, NEW e, now \in Nat, Sound(s, e), s.visible \in { None, s.budget }, s.row = "bound"
  PROVE  Publish(s) \in Stores /\ Sound(Publish(s), e)
<1> DEFINE t == Publish(s)
<1>1. /\ t \in Stores /\ SameRow(s, t) /\ t.cmd = s.cmd
      /\ t.obs = (IF s.obs = None THEN First(s) ELSE s.obs) /\ (s.obs # None => t = s)
  BY PublishSpec DEF Watchable
<1>2. Base(t, e) /\ Passes(s, t) /\ MoreJobs(s, t) /\ (s.obs = None => HasJob(t, "refresh"))
  BY PublishBase, PublishJobs DEF Watchable, Sound, Base
<1> HIDE DEF t
<1>3. CASE s.obs # None
  BY <1>1, <1>3 DEF t
<1>4. CASE s.obs = None
  <2>1. t.obs.run = None
    BY <1>1, <1>4, FirstType
  <2>2. Announced(t, e)
    BY <1>2, <1>4, <2>1 DEF Announced, Queued
  <2>3. RowFits(t)
    BY <1>1 DEF RowFits, SameRow
  <2>4. t.obs # None
    BY <1>1, <1>4, FirstType
  <2>5. Doing(t)
    BY <1>1, <2>4 DEF Sound, Doing, SameRow
  <2> QED BY <1>1, <1>2, <2>2, <2>3, <2>5 DEF Sound, t
<1> QED BY <1>3, <1>4

LEMMA FinishSound ==
  ASSUME NEW s \in Stores, NEW e, Base(s, e), Idle(s, e), s.row = "starting" => ~HasLoss(s),
         s.row # "bound" /\ s.obs # None => ~Live(s.budget)
  PROVE  Finish(s) \in Stores /\ Sound(Finish(s), e)
<1> DEFINE t == Finish(s)
<1>1. t \in Stores /\ SameRow(s, t) /\ t.obs = s.obs /\ t.cmd = None /\ t.queue = s.queue
  BY CmdSet DEF Finish
<1> HIDE DEF t
<1>2. Base(t, e)
  BY <1>1 DEF Base, SameRow, Jobs
<1>3. RowFits(t)
  BY <1>1 DEF RowFits, SameRow, HasLoss
<1>4. Announced(t, e)
  BY <1>1 DEF Announced, Idle, Ticking, Queued, SameRow, HasJob
<1> QED BY <1>1, <1>2, <1>3, <1>4 DEF Sound, Doing, t

-----------------------------------------------------------------------------
(***************************************************************************)
(* The second invariant: the provider, the network and the clock.          *)
(***************************************************************************)
LEMMA Facts ==
  ASSUME Accounted
  PROVE  /\ Here \in Stores /\ now \in Nat /\ turns \in Nat /\ turns <= MaxTurns /\ MaxTurns \in Nat /\ turn \in BOOLEAN
         /\ native \in Run \cup {None} /\ Core(Here, World) /\ visible \in { None, budget }
         /\ Sound(Here, World)
<1>1. turns \in 0..MaxTurns
  BY DEF Accounted, Answered, TypeOK
<1> QED BY <1>1, Given, Fields DEF Accounted, Answered, Core

LEMMA FactsNext ==
  ASSUME Answered'
  PROVE  now' \in Nat /\ turns' \in Nat /\ turns' <= MaxTurns
BY Bounds DEF Answered, TypeOK

\* What is outside goes on, and the store becomes t.
LEMMA Steps ==
  ASSUME Accounted, Answered', NEW t \in Stores, Become(t), Sound(t, World), Moves(World, World'), now <= now'
  PROVE  Accounted'
<1>1. Sound(t, World')
  BY Facts, FactsNext, Fields, NextFields, SoundWorld
<1> QED BY <1>1, ClosesToo

LEMMA InitAccounted == Init => Accounted
<1> SUFFICES ASSUME Init PROVE Accounted
  OBVIOUS
<1>1. Answered
  BY InitAnswered
<1>2. /\ Here.visible = None /\ Here.budget = None /\ Here.queue = << >> /\ Here.cmd = None /\ Here.row = "bound"
  BY Fields DEF Init
<1>3. Here.obs.run = None
  BY Fields DEF Init
<1>4. ~Live(Here.visible) /\ ~Live(Here.budget)
  BY <1>2 DEF Live
<1>5. Jobs(Here) /\ ~HasLoss(Here)
  BY <1>2 DEF Jobs, HasLoss
<1>6. Base(Here, World)
  BY <1>2, <1>3, <1>4, <1>5, NotLive DEF Known
<1>7. RowFits(Here) /\ Doing(Here) /\ Announced(Here, World)
  BY <1>2, <1>4 DEF RowFits, Doing, Announced
<1> QED BY <1>1, <1>6, <1>7 DEF Accounted, Sound

LEMMA StandsStill ==
  ASSUME Accounted, Answered', UNCHANGED << row, working, visible, budget, obs, queue, cmd >>, Moves(World, World'), now <= now'
  PROVE  Accounted'
BY Facts, Stands, Steps

LEMMA TickAccounted ==
  ASSUME Accounted, Answered', Tick
  PROVE  Accounted'
<1>1. UNCHANGED << row, working, visible, budget, obs, queue, cmd >> /\ now <= now'
  BY Facts DEF Tick, durable, memory
<1>2. Moves(World, World')
  BY Facts, Fields, NextFields DEF Moves, Tick, provider
<1> QED BY <1>1, <1>2, StandsStill

LEMMA PermitAccounted ==
  ASSUME Accounted, Answered', Permit
  PROVE  Accounted'
<1>1. UNCHANGED << row, working, visible, budget, obs, queue, cmd >> /\ now <= now'
  BY Facts DEF Permit, clock, memory
<1>2. Moves(World, World')
  BY Facts, Fields, NextFields DEF Moves, Permit, provider
<1> QED BY <1>1, <1>2, StandsStill

\* The row takes another value of isWorking, is published, and a refresh is asked for.
LEMMA AnnouncesSound ==
  ASSUME Accounted, NEW a \in Stores, a.row = "bound", a.visible = visible, a.budget = budget, a.obs = obs, a.cmd = cmd,
         a.queue = queue, row = "bound"
  PROVE  Changed(Publish(a)) \in Stores /\ Sound(Changed(Publish(a)), World)
<1>1. Sound(a, World)
  BY Facts, Fields, SoundSame
<1>2. Publish(a) \in Stores /\ Sound(Publish(a), World)
  BY <1>1, Facts, PublishSound
<1> QED BY <1>2, ChangedSound

LEMMA TurnStartsAccounted ==
  ASSUME Accounted, Answered', TurnStarts
  PROVE  Accounted'
<1> DEFINE a == [Here EXCEPT !.working = ~HoldsDown(visible)]
<1>1. row = "bound"
  BY Fields DEF Accounted, Answered, RowOK, TurnStarts
<1>2. a \in Stores /\ a.row = row /\ a.visible = visible /\ a.budget = budget /\ a.obs = obs /\ a.cmd = cmd /\ a.queue = queue
  <2>1. (~HoldsDown(visible)) \in BOOLEAN
    BY DEF HoldsDown
  <2> QED BY <2>1, Facts, Fields DEF Stores
<1>3. Become(Changed(Publish(a)))
  BY DEF TurnStarts
<1> HIDE DEF a
<1>4. Changed(Publish(a)) \in Stores /\ Sound(Changed(Publish(a)), World)
  BY <1>1, <1>2, AnnouncesSound
<1>5. /\ turns' = turns + 1 /\ turns < MaxTurns /\ now' = now
      /\ native' = [turn |-> turns', status |-> "running", at |-> now, started |-> now, progress |-> 0, code |-> "none"]
  BY DEF TurnStarts, clock
<1>6. native'.turn = turns + 1
  BY <1>5
<1>7. native' # None
  BY <1>5, FactsNext DEF Answered, WorldOK, World, TurnStarts
<1>8. Moves(World, World')
  BY <1>5, <1>6, <1>7, Facts, Fields, NextFields DEF Moves
<1> QED BY <1>3, <1>4, <1>5, <1>8, Steps, Facts

LEMMA RunsOn ==
  ASSUME Accounted, Answered', native' # None, turns' = turns, native # None, native.status = "running", native'.turn = native.turn
  PROVE  Moves(World, World')
BY Facts, Fields, NextFields DEF Moves

LEMMA TurnRuns ==
  ASSUME Accounted, turn
  PROVE  native \in Run /\ native # None /\ native.status = "running" /\ alive /\ row = "bound"
BY Facts, Fields DEF Accounted, Answered, WorldOK, RowOK

LEMMA ItemCompletedAccounted ==
  ASSUME Accounted, Answered', ItemCompleted
  PROVE  Accounted'
<1> DEFINE t == IF visible # None THEN Changed(Here) ELSE Here
<1>1. Become(t) /\ now' = now /\ turns' = turns /\ turn /\ turn' = turn /\ native' = [native EXCEPT !.progress = now]
  BY DEF ItemCompleted, clock
<1>2. t \in Stores /\ Sound(t, World)
  BY Facts, ChangedSound
<1> HIDE DEF t
<1>3. native' # None
  BY <1>1, NextFields DEF Answered, WorldOK
<1>4. native'.turn = native.turn
  BY <1>1, TurnRuns DEF Run
<1>5. Moves(World, World')
  BY <1>1, <1>3, <1>4, TurnRuns, RunsOn
<1> QED BY <1>1, <1>2, <1>5, Steps, Facts

LEMMA TurnEndsAccounted ==
  ASSUME Accounted, Answered', NEW status \in { "completed", "cancelled", "failed" }, NEW code \in { "none", "transient", "permanent" },
         TurnEnds(status, code)
  PROVE  Accounted'
<1> DEFINE a == [Here EXCEPT !.working = FALSE]
<1>1. Become(Changed(Publish(a))) /\ now' = now /\ turns' = turns /\ turn /\ native' = Ended(native, status, code)
  BY DEF TurnEnds, clock
<1>2. a \in Stores /\ a.row = row /\ a.visible = visible /\ a.budget = budget /\ a.obs = obs /\ a.cmd = cmd /\ a.queue = queue
  BY Facts, Fields DEF Stores
<1> HIDE DEF a
<1>3. Changed(Publish(a)) \in Stores /\ Sound(Changed(Publish(a)), World)
  BY <1>1, <1>2, AnnouncesSound, TurnRuns
<1>4. native' # None /\ native'.turn = native.turn
  BY <1>1, TurnRuns, EndedType, Facts
<1>5. Moves(World, World')
  BY <1>1, <1>4, TurnRuns, RunsOn
<1> QED BY <1>1, <1>3, <1>5, Steps, Facts

\* A step that leaves the provider alone.
LEMMA Moved ==
  ASSUME native' = native, turns' = turns, turns \in Nat
  PROVE  Moves(World, World')
BY Fields, NextFields DEF Moves

\* A job that is put at the end of the queue, seen from the variables.
LEMMA QueuesHere ==
  ASSUME Accounted, NEW kind \in { "retry", "ack", "loss", "reconcile" }
  PROVE  \A t : t = [Here EXCEPT !.queue = Append(@, [kind |-> kind, live |-> TRUE])] =>
           /\ t \in Stores /\ HasJob(t, kind) /\ MoreJobs(Here, t) /\ Jobs(t) /\ (HasLoss(t) => HasLoss(Here) \/ kind = "loss")
           /\ t.row = row /\ t.working = working /\ t.visible = visible /\ t.budget = budget /\ t.obs = obs /\ t.cmd = cmd
           /\ t.queue = Append(queue, [kind |-> kind, live |-> TRUE])
<1> DEFINE j == [kind |-> kind, live |-> TRUE]
<1> SUFFICES ASSUME NEW t, t = [Here EXCEPT !.queue = Append(@, j)]
             PROVE  /\ t \in Stores /\ HasJob(t, kind) /\ MoreJobs(Here, t) /\ Jobs(t) /\ (HasLoss(t) => HasLoss(Here) \/ kind = "loss")
                    /\ t.row = row /\ t.working = working /\ t.visible = visible /\ t.budget = budget /\ t.obs = obs /\ t.cmd = cmd
                    /\ t.queue = Append(queue, j)
  OBVIOUS
<1>1. Here \in Stores /\ Jobs(Here) /\ queue \in Seq(Job)
  BY Facts, Fields DEF Sound, Base, Stores
<1>2. j \in Job /\ j.kind = kind /\ j.live
  BY DEF Job
<1>3. t.queue = Append(queue, j)
  BY <1>1, Fields DEF Stores
<1>4. /\ t \in Stores /\ HasJob(t, kind) /\ MoreJobs(Here, t)
      /\ t.row = Here.row /\ t.working = Here.working /\ t.visible = Here.visible /\ t.budget = Here.budget
      /\ t.obs = Here.obs /\ t.cmd = Here.cmd
  <2>1. kind \in { "refresh", "retry", "ack", "loss", "reconcile" } /\ Here \in Stores
    BY <1>1
  <2>2. \A u : u = [Here EXCEPT !.queue = Append(@, j)] =>
           /\ u \in Stores /\ HasJob(u, kind) /\ MoreJobs(Here, u)
           /\ u.row = Here.row /\ u.working = Here.working /\ u.visible = Here.visible /\ u.budget = Here.budget
           /\ u.obs = Here.obs /\ u.cmd = Here.cmd
    BY <2>1, Queues
  <2> QED BY <2>2
<1> HIDE DEF j
<1>5. \A i \in DOMAIN t.queue : (i \in DOMAIN queue /\ t.queue[i] = queue[i]) \/ t.queue[i] = j
  BY <1>1, <1>2, <1>3, Appends
<1>6. Jobs(t)
  BY <1>1, <1>2, <1>5, Fields DEF Jobs
<1>7. HasLoss(t) => HasLoss(Here) \/ kind = "loss"
  BY <1>2, <1>5, Fields DEF HasLoss
<1> QED BY <1>3, <1>4, <1>6, <1>7, Fields

LEMMA ConnectionLostAccounted ==
  ASSUME Accounted, Answered', ConnectionLost
  PROVE  Accounted'
<1> DEFINE t == [Here EXCEPT !.queue = Append(@, [kind |-> "loss", live |-> TRUE])]
<1>1. row = "bound"
  BY Fields DEF Accounted, Answered, RowOK, ConnectionLost
<1>2. /\ t \in Stores /\ MoreJobs(Here, t) /\ Jobs(t) /\ t.row = row /\ t.working = working /\ t.visible = visible
      /\ t.budget = budget /\ t.obs = obs /\ t.cmd = cmd /\ t.queue = Append(queue, [kind |-> "loss", live |-> TRUE])
  BY QueuesHere
<1> HIDE DEF t
<1>3. Sound(t, World)
  BY <1>1, <1>2, Facts, Fields, SoundQueue
<1>4. Become(t)
  BY <1>2 DEF Become, ConnectionLost, durable
<1>5. Moves(World, World') /\ now' = now
  BY Facts, Fields, NextFields DEF Moves, ConnectionLost, clock
<1> QED BY <1>2, <1>3, <1>4, <1>5, Facts, Steps

LEMMA ReconcileAccounted ==
  ASSUME Accounted, Answered', Reconcile
  PROVE  Accounted'
<1> DEFINE t == [Here EXCEPT !.queue = Append(@, [kind |-> "reconcile", live |-> TRUE])]
<1>2. /\ t \in Stores /\ MoreJobs(Here, t) /\ Jobs(t) /\ t.row = row /\ t.working = working /\ t.visible = visible
      /\ t.budget = budget /\ t.obs = obs /\ t.cmd = cmd /\ t.queue = Append(queue, [kind |-> "reconcile", live |-> TRUE])
      /\ HasLoss(t) => HasLoss(Here)
  BY QueuesHere
<1> HIDE DEF t
<1>3. Sound(t, World)
  BY <1>2, Facts, Fields, SoundQueue
<1>4. Become(t)
  BY <1>2 DEF Become, Reconcile, durable
<1>5. Moves(World, World') /\ now' = now
  BY Facts, Fields, NextFields DEF Moves, Reconcile, clock, provider
<1> QED BY <1>2, <1>3, <1>4, <1>5, Facts, Steps

\* The timer's place is taken by its job.
LEMMA TimerFiresAccounted ==
  ASSUME Accounted, Answered', TimerFires
  PROVE  Accounted'
<1> DEFINE kind == obs.timer.kind
           a == [Here EXCEPT !.queue = Append(@, [kind |-> kind, live |-> TRUE])]
           t == [a EXCEPT !.obs.timer = None]
<1>1. obs # None /\ obs.timer # None /\ obs.timer.due <= now
  BY DEF TimerFires
<1>2. obs \in Observation /\ obs.timer \in Timer /\ kind \in { "retry", "ack" } /\ obs.timer.due \in Nat
  BY <1>1, Facts, Fields DEF Stores, Observation, Timer, Times
<1>3. /\ a \in Stores /\ HasJob(a, kind) /\ MoreJobs(Here, a) /\ Jobs(a) /\ (HasLoss(a) => HasLoss(Here))
      /\ a.row = row /\ a.working = working /\ a.visible = visible
      /\ a.budget = budget /\ a.obs = obs /\ a.cmd = cmd /\ a.queue = Append(queue, [kind |-> kind, live |-> TRUE])
  BY <1>2, QueuesHere
<1> HIDE DEF a
<1>4. /\ t \in Stores /\ SameRow(a, t) /\ SameObs(a.obs, t.obs) /\ t.cmd = a.cmd /\ t.obs.timer = None /\ t.queue = a.queue
  BY <1>1, <1>3, TimerSet
<1>5. t.obs = [obs EXCEPT !.timer = None]
  BY <1>3 DEF Stores
<1> HIDE DEF t, kind
<1>6. Become(t)
  BY <1>3, <1>4, <1>5 DEF Become, TimerFires, durable, SameRow, kind
<1>7. Sound(a, World)
  BY <1>3, Facts, Fields, SoundQueue
<1>8. Base(t, World) /\ RowFits(t) /\ Doing(t)
  BY <1>1, <1>3, <1>4, <1>7 DEF Sound, Base, RowFits, Doing, SameRow, SameObs, Jobs, HasLoss, Follows, At
<1>9. Announced(t, World)
  <2> SUFFICES ASSUME Live(visible) PROVE Queued(t, World) \/ Busy(t, World)
    BY <1>3, <1>4 DEF Announced, SameRow
  <2>1. \A k : HasJob(a, k) => HasJob(t, k)
    BY <1>4 DEF HasJob
  <2>2. CASE Queued(a, World)
    BY <1>1, <1>3, <1>4, <2>1, <2>2 DEF Queued, SameRow, SameObs
  <2>3. CASE Busy(a, World)
    BY <1>1, <1>3, <1>4, <2>3 DEF Busy, ReadsFor, SameRow, SameObs
  <2>4. CASE Ticking(a)
    <3>1. Scheduled(visible) => kind = "retry" /\ visible.next <= now
      <4>1. Scheduled(visible) => visible.next \in Nat
        BY Facts, Fields DEF Scheduled, Stores, Failure, Times
      <4> QED BY <1>1, <1>2, <1>3, <2>4, <4>1, Facts DEF Ticking, kind
    <3>2. Retrying(visible) => kind = "ack"
      BY <1>3, <2>4 DEF Ticking, kind
    <3>3. Scheduled(visible) \/ Retrying(visible)
      BY DEF Live, Scheduled, Retrying
    <3> QED BY <1>3, <1>4, <2>1, <3>1, <3>2, <3>3, Fields DEF Queued, SameRow
  <2>5. Ticking(a) \/ Queued(a, World) \/ Busy(a, World)
    BY <1>1, <1>3, <1>7 DEF Sound, Announced
  <2> QED BY <2>2, <2>3, <2>4, <2>5
<1>10. Moves(World, World') /\ now' = now
  BY Facts, Fields, NextFields DEF Moves, TimerFires, clock, provider
<1> QED BY <1>4, <1>6, <1>8, <1>9, <1>10, Facts, Steps DEF Sound

LEMMA RestartAccounted ==
  ASSUME Accounted, Answered', Restart
  PROVE  Accounted'
<1> DEFINE t == [Here EXCEPT !.obs = None, !.queue = << >>, !.cmd = None]
<1>1. /\ t \in Stores /\ SameRow(Here, t) /\ t.obs = None /\ t.cmd = None /\ t.queue = << >>
  <2>1. << >> \in Seq(Job)
    OBVIOUS
  <2> QED BY <2>1, Given, Fields DEF Stores, SameRow, Accounted
<1> HIDE DEF t
<1>2. Become(t)
  BY <1>1, Fields DEF Become, SameRow, Restart, durable
<1>3. Sound(t, World)
  <2>1. Base(t, World)
    BY <1>1, Facts DEF Sound, Base, SameRow, Jobs, Follows
  <2> QED BY <1>1, <2>1 DEF Sound, RowFits, Doing, Announced, HasLoss
<1>4. now' = now /\ turns' = turns
  BY DEF Restart, clock
<1>5. Moves(World, World')
  <2>1. CASE native' = native
    BY <1>4, <2>1, Facts, Fields, NextFields DEF Moves
  <2>2. CASE native' # native
    <3>1. turn /\ native' \in { Ended(native, "completed", "none"), Ended(native, "failed", "transient") }
      BY <2>2 DEF Restart, Leftovers
    <3> QED BY <1>4, <3>1, TurnRuns, EndedType, Facts, RunsOn
  <2> QED BY <2>1, <2>2
<1> QED BY <1>1, <1>2, <1>3, <1>4, <1>5, Facts, Steps

-----------------------------------------------------------------------------
(***************************************************************************)
(* The second invariant: Stop, and commands that begin.                    *)
(***************************************************************************)
\* Nothing is announced any more, and whatever runs stands for nothing.
LEMMA SilentSound ==
  ASSUME NEW s \in Stores, NEW t \in Stores, NEW e, Base(t, e), ~Live(t.budget), t.visible \in { None, t.budget },
         s.row = "starting" => At(s, "relaunch") \/ ~HasLoss(s), HasLoss(t) => HasLoss(s), Rest(s, t),
         s.cmd # None =>
           /\ s.cmd.kind = "retry" => s.row # "error" /\ s.obs # None
           /\ s.cmd.step \in { "ask", "submit" } => s.row = "bound" /\ s.obs # None
           /\ s.cmd.step = "relaunch" /\ s.cmd.kind = "retry" => s.row = "starting"
           /\ ~s.cmd.same /\ (~s.cmd.live => s.row = "error")
  PROVE  Sound(t, e)
<1>1. ~Live(t.visible)
  BY DEF Live
<1>2. RowFits(t)
  BY DEF RowFits, At, Rest
<1>3. Doing(t)
  <2>1. s.row \in { "bound", "starting", "error" }
    BY DEF Stores
  <2> QED BY <2>1 DEF Doing, Rest, Watchable
<1>4. Announced(t, e)
  BY <1>1 DEF Announced
<1> QED BY <1>2, <1>3, <1>4 DEF Sound

LEMMA CancelAccounted ==
  ASSUME Accounted, Answered', Cancel
  PROVE  Accounted'
<1> DEFINE c == IF cmd = None THEN None ELSE [cmd EXCEPT !.same = FALSE]
           a == [Here EXCEPT !.cmd = c]
           cleared == ClearTimer(a)
           prior == Prior(Here)
           t == IF prior # None /\ prior.status # "stopped" THEN Save(cleared, Stopped(prior)) ELSE cleared
<1>1. c \in Command \cup {None} /\ (c = None <=> cmd = None) /\ (c # None => ~c.same /\ c.kind = cmd.kind /\ c.live = cmd.live /\ c.step = cmd.step)
  <2>1. CASE cmd = None
    BY <2>1
  <2>2. CASE cmd # None
    <3>1. cmd \in Command
      BY <2>2, Facts, Fields DEF Stores
    <3>2. c \in Command /\ ~c.same /\ c.kind = cmd.kind /\ c.live = cmd.live /\ c.step = cmd.step
      BY <2>2, <3>1 DEF Command
    <3> QED BY <2>2, <3>2, NoneAssumption
  <2> QED BY <2>1, <2>2
<1>2. Become(t) /\ now' = now
  BY Fields DEF Cancel, clock
<1> HIDE DEF c
<1>3. a \in Stores /\ SameRow(Here, a) /\ a.obs = obs /\ a.cmd = c /\ a.queue = queue
  BY <1>1, Facts, Fields DEF Stores, SameRow
<1> HIDE DEF a
<1>4. /\ cleared \in Stores /\ SameRow(a, cleared) /\ SameObs(a.obs, cleared.obs) /\ cleared.cmd = c
      /\ cleared.queue = queue /\ Rest(a, cleared)
  BY <1>3, ClearTimerSpec, ClearTimerRest
<1> HIDE DEF cleared
<1>5. prior = budget /\ prior \in Failure \cup {None}
  BY Facts, PriorIs, Fields
<1>6. Base(cleared, World)
  BY <1>3, <1>4, Facts, Fields DEF Sound, Base, SameRow, SameObs, Jobs, Follows
<1>7. t \in Stores /\ Base(t, World) /\ Passes(cleared, t) /\ ~Live(t.budget) /\ t.visible \in { None, t.budget } /\ Rest(a, t)
  <2>1. CASE prior # None /\ prior.status # "stopped"
    <3> DEFINE f == Stopped(prior)
    <3>1. f \in Failure /\ f # None /\ ~Live(f) /\ f.code = budget.code
      BY <1>5, <2>1, StoppedType, NoneAssumption DEF Live
    <3>2. t = Save(cleared, f)
      BY <2>1
    <3> HIDE DEF f, t
    <3>3. Known(f, World)
      BY <1>3, <1>4, <1>5, <1>6, <2>1, <3>1, Fields DEF Base, Known, SameRow
    <3>4. Base(t, World) /\ Passes(cleared, t) /\ ~Live(t.budget)
      BY <1>4, <1>6, <3>1, <3>2, <3>3, Facts, SaveStopped DEF Base, Follows
    <3>5. t \in Stores /\ t.visible = f /\ t.budget = f /\ Rest(cleared, t)
      BY <1>4, <3>1, <3>2, Facts, SaveSpec, SaveRest
    <3> QED BY <1>3, <1>4, <3>4, <3>5, RestTrans
  <2>2. CASE ~(prior # None /\ prior.status # "stopped")
    <3>1. t = cleared /\ t.budget = prior /\ t.visible = visible
      BY <1>3, <1>4, <1>5, <2>2, Fields DEF SameRow
    <3> QED BY <1>4, <1>5, <1>6, <2>2, <3>1, SameQueue, Facts DEF Live, Base
  <2> QED BY <2>1, <2>2
<1> HIDE DEF t, prior
<1>8. Sound(t, World)
  <2>1. HasLoss(t) => HasLoss(a)
    BY <1>3, <1>4, <1>7 DEF Passes, HasLoss
  <2>2. a.row = "starting" => At(a, "relaunch") \/ ~HasLoss(a)
    BY <1>1, <1>3, Facts, Fields DEF Sound, RowFits, At, SameRow, HasLoss
  <2>3. a.cmd # None =>
           /\ a.cmd.kind = "retry" => a.row # "error" /\ a.obs # None
           /\ a.cmd.step \in { "ask", "submit" } => a.row = "bound" /\ a.obs # None
           /\ a.cmd.step = "relaunch" /\ a.cmd.kind = "retry" => a.row = "starting"
           /\ ~a.cmd.same /\ (~a.cmd.live => a.row = "error")
    BY <1>1, <1>3, Facts, Fields DEF Sound, Doing, SameRow
  <2> QED BY <1>3, <1>7, <2>1, <2>2, <2>3, SilentSound
<1>9. Moves(World, World')
  BY Facts, Fields, NextFields DEF Moves, Cancel, provider
<1> QED BY <1>2, <1>7, <1>8, <1>9, Facts, Steps

\* The queue without its head.
LEMMA RestHere ==
  ASSUME Accounted, queue # << >>, cmd = None
  PROVE  \A a : a = [Here EXCEPT !.queue = Tail(@)] =>
           /\ a \in Stores /\ SameRow(Here, a) /\ a.obs = obs /\ a.cmd = None /\ a.queue = Tail(queue)
           /\ Base(a, World) /\ RowFits(a) /\ Passes(Here, a) /\ Core(a, World)
           /\ \A kind : HasJob(Here, kind) => HasJob(a, kind) \/ (Head(queue).kind = kind /\ Head(queue).live)
           /\ Head(queue) \in Job /\ (Head(queue).kind = "refresh" => Head(queue).live)
           /\ Head(queue).kind = "loss" => row # "starting"
           /\ row # "bound" /\ obs # None => ~Live(budget)
<1> SUFFICES ASSUME NEW a, a = [Here EXCEPT !.queue = Tail(@)]
             PROVE  /\ a \in Stores /\ SameRow(Here, a) /\ a.obs = obs /\ a.cmd = None /\ a.queue = Tail(queue)
                    /\ Base(a, World) /\ RowFits(a) /\ Passes(Here, a) /\ Core(a, World)
                    /\ \A kind : HasJob(Here, kind) => HasJob(a, kind) \/ (Head(queue).kind = kind /\ Head(queue).live)
                    /\ Head(queue) \in Job /\ (Head(queue).kind = "refresh" => Head(queue).live)
                    /\ Head(queue).kind = "loss" => row # "starting"
                    /\ row # "bound" /\ obs # None => ~Live(budget)
  OBVIOUS
<1>1. queue \in Seq(Job) /\ Jobs(Here)
  BY Facts, Fields DEF Stores, Sound, Base
<1>2. /\ Tail(queue) \in Seq(Job) /\ Head(queue) \in Job /\ 1 \in DOMAIN queue /\ Head(queue) = queue[1]
      /\ \A i \in DOMAIN queue : i = 1 \/ (i - 1 \in DOMAIN Tail(queue) /\ Tail(queue)[i - 1] = queue[i])
      /\ \A i \in DOMAIN Tail(queue) : i + 1 \in DOMAIN queue /\ Tail(queue)[i] = queue[i + 1]
  BY <1>1, Drops
<1>3. a \in Stores /\ SameRow(Here, a) /\ a.obs = obs /\ a.cmd = cmd /\ a.queue = Tail(queue)
  BY <1>2, Facts, Fields DEF Stores, SameRow
<1>4. Jobs(a) /\ (HasLoss(a) => HasLoss(Here))
  BY <1>1, <1>2, <1>3, Fields DEF Jobs, HasLoss
<1>5. \A kind : HasJob(Here, kind) => HasJob(a, kind) \/ (Head(queue).kind = kind /\ Head(queue).live)
  <2> SUFFICES ASSUME NEW kind, NEW i \in DOMAIN queue, queue[i].kind = kind, queue[i].live
               PROVE  HasJob(a, kind) \/ (Head(queue).kind = kind /\ Head(queue).live)
    BY Fields DEF HasJob
  <2>1. CASE i = 1
    BY <1>2, <2>1
  <2>2. CASE i - 1 \in DOMAIN Tail(queue) /\ Tail(queue)[i - 1] = queue[i]
    <3> DEFINE k == i - 1
    <3>1. k \in DOMAIN a.queue /\ a.queue[k].kind = kind /\ a.queue[k].live
      BY <1>3, <2>2
    <3> QED BY <3>1 DEF HasJob
  <2> QED BY <1>2, <2>1, <2>2
<1>6. (Head(queue).kind = "refresh" => Head(queue).live) /\ (Head(queue).kind = "loss" => HasLoss(Here))
  BY <1>1, <1>2, Fields DEF Jobs, HasLoss
<1>7. Base(a, World)
  BY <1>3, <1>4, Facts, Fields DEF Sound, Base, SameRow
<1>8. RowFits(a) /\ (Head(queue).kind = "loss" => row # "starting") /\ (row # "bound" /\ obs # None => ~Live(budget))
  BY <1>3, <1>4, <1>6, Facts, Fields DEF Sound, RowFits, SameRow, At
<1>9. Core(a, World)
  BY <1>3, Facts, Fields, CoreSame DEF SameRow
<1> QED BY <1>2, <1>3, <1>4, <1>5, <1>6, <1>7, <1>8, <1>9 DEF Passes

LEMMA ReadingJobs ==
  ASSUME NEW s \in Stores, NEW kind \in { "refresh", "retry", "ack", "loss", "reconcile" }
  PROVE  Reading(s, kind).queue = s.queue
BY DEF Reading, Stores

LEMMA BeginRunAccounted ==
  ASSUME Accounted, Answered', BeginRun
  PROVE  Accounted'
<1> DEFINE a == [Here EXCEPT !.queue = Tail(@)]
           kind == Head(queue).kind
           b == Reading(a, kind)
           t == IF Head(queue).live /\ obs # None THEN b ELSE a
<1>1. Become(t) /\ cmd = None /\ queue # << >> /\ kind \in { "refresh", "retry", "ack" } /\ now' = now
      /\ native' = native /\ turns' = turns
  BY DEF BeginRun, clock, provider
<1>2. /\ a \in Stores /\ SameRow(Here, a) /\ a.obs = obs /\ a.cmd = None
      /\ Base(a, World) /\ RowFits(a)
      /\ \A k : HasJob(Here, k) => HasJob(a, k) \/ (kind = k /\ Head(queue).live)
      /\ row # "bound" /\ obs # None => ~Live(budget)
  BY <1>1, RestHere
<1>3. obs # None => row # "error"
  BY Facts, Fields DEF Sound, Base
<1>4. obs # None /\ Live(visible) => Ticking(Here) \/ Queued(Here, World)
  BY <1>1, Facts, Fields DEF Sound, Announced, Busy
<1> HIDE DEF a, kind
<1>5. /\ b \in Stores /\ SameRow(a, b) /\ b.obs = a.obs /\ b.queue = a.queue
      /\ b.cmd # None /\ b.cmd.kind = kind /\ b.cmd.live /\ b.cmd.same /\ b.cmd.step = "read"
  <2>1. kind \in { "refresh", "retry", "ack", "loss", "reconcile" } /\ a \in Stores
    BY <1>1, <1>2
  <2>2. Reading(a, kind).queue = a.queue
    BY <2>1, ReadingJobs
  <2> QED BY <2>1, <2>2, ReadingSpec
<1> HIDE DEF b
<1>6. CASE Head(queue).live /\ obs # None
  <2>1. Base(b, World) /\ RowFits(b)
    BY <1>2, <1>5, Fields DEF Base, RowFits, SameRow, Jobs, HasLoss, At
  <2>2. Doing(b)
    BY <1>2, <1>3, <1>5, <1>6, Fields DEF Doing, SameRow
  <2>3. Announced(b, World)
    <3> SUFFICES ASSUME Live(visible) PROVE Ticking(b) \/ Queued(b, World) \/ Busy(b, World)
      BY <1>2, <1>5, Fields DEF Announced, SameRow
    <3>1. CASE Ticking(Here)
      BY <1>2, <1>5, <3>1, Fields DEF Ticking, SameRow
    <3>2. CASE Queued(Here, World)
      <4>1. \A k : HasJob(Here, k) => HasJob(b, k) \/ (kind = k /\ Head(queue).live)
        BY <1>2, <1>5 DEF HasJob
      <4>2. b.obs = obs /\ b.visible = visible
        BY <1>2, <1>5, Fields DEF SameRow
      <4>3. CASE obs.run = None
        BY <1>5, <4>2, <4>3 DEF Busy, ReadsFor
      <4>4. CASE Scheduled(visible) /\ visible.next <= now /\ HasJob(Here, "retry")
        BY <1>5, <4>1, <4>2, <4>4, Fields DEF Busy, ReadsFor, Queued
      <4>5. CASE Retrying(visible) /\ HasJob(Here, "ack")
        BY <1>5, <4>1, <4>2, <4>5, Fields DEF Busy, ReadsFor, Queued
      <4> QED BY <3>2, <4>3, <4>4, <4>5, Fields DEF Queued
    <3> QED BY <1>4, <1>6, <3>1, <3>2
  <2> QED BY <1>1, <1>2, <1>5, <1>6, <2>1, <2>2, <2>3, Steps, Facts, Moved DEF Sound
<1>7. CASE ~(Head(queue).live /\ obs # None)
  <2>1. Announced(a, World)
    <3> SUFFICES ASSUME obs # None, Live(visible) PROVE Ticking(a) \/ Queued(a, World)
      BY <1>2, Fields DEF Announced, SameRow
    <3>1. \A k : HasJob(Here, k) => HasJob(a, k)
      BY <1>2, <1>7
    <3> QED BY <1>2, <1>4, <3>1, Fields DEF Ticking, Queued, SameRow
  <2>2. Doing(a)
    BY <1>2 DEF Doing
  <2> QED BY <1>1, <1>2, <1>7, <2>1, <2>2, Steps, Facts, Moved DEF Sound
<1> QED BY <1>6, <1>7

\* restoreStructuredSession begins: of a reconcile, or in the checks of a retry.
LEMMA RelaunchingSound ==
  ASSUME NEW s \in Stores, NEW e, now \in Nat, s.cmd # None, s.cmd.live, Base(s, e), s.visible \in { None, s.budget },
         s.cmd.same \/ ~Live(s.budget),
         s.cmd.kind = "retry" => s.row # "error" /\ s.obs # None /\ (s.cmd.same => Scheduled(s.visible)),
         s.cmd.kind # "retry" => Idle(s, e)
  PROVE  Relaunching(s) \in Stores /\ Sound(Relaunching(s), e)
<1> DEFINE a == [s EXCEPT !.row = "starting", !.working = FALSE]
           b == IF s.row = "error" THEN s ELSE Publish(a)
           t == Step(b, "relaunch")
<1>1. /\ a \in Stores /\ a.row = "starting" /\ a.visible = s.visible /\ a.budget = s.budget /\ a.obs = s.obs /\ a.cmd = s.cmd
      /\ a.queue = s.queue
  BY DEF Stores
<1>2. Relaunching(s) = t
  BY DEF Relaunching
<1> HIDE DEF a
<1>3. Base(a, e)
  BY <1>1 DEF Base, Jobs
<1>4. /\ b \in Stores /\ b.row \in { "starting", "error" } /\ (b.row = "error" <=> s.row = "error") /\ b.visible = s.visible
      /\ b.budget = s.budget /\ b.cmd = s.cmd /\ Base(b, e)
      /\ s.obs # None => b.obs # None
      /\ Idle(s, e) => Idle(b, e)
  <2>1. CASE s.row = "error"
    BY <2>1
  <2>2. CASE s.row # "error"
    <3> DEFINE p == Publish(a)
    <3>1. /\ p \in Stores /\ SameRow(a, p) /\ p.cmd = a.cmd /\ p.obs = (IF a.obs = None THEN First(a) ELSE a.obs)
          /\ a.obs # None => p = a
      BY <1>1, PublishSpec DEF Watchable
    <3>2. Base(p, e) /\ (a.obs = None => HasJob(p, "refresh"))
      BY <1>1, <1>3, PublishBase, PublishJobs DEF Watchable, Base
    <3>3. a.obs = None => p.obs # None /\ p.obs.run = None
      BY <1>1, <3>1, FirstType
    <3>4. p = b
      BY <2>2
    <3> HIDE DEF p, b
    <3>5. Idle(s, e) => Idle(p, e)
      <4>1. CASE a.obs = None
        BY <3>2, <3>3, <4>1 DEF Idle, Queued
      <4>2. CASE a.obs # None
        BY <1>1, <3>1, <4>2 DEF Idle, Ticking, Queued, HasJob
      <4> QED BY <4>1, <4>2
    <3> QED BY <1>1, <2>2, <3>1, <3>2, <3>3, <3>4, <3>5 DEF SameRow
  <2> QED BY <2>1, <2>2
<1> HIDE DEF b
<1>5. /\ t \in Stores /\ SameRow(b, t) /\ t.obs = b.obs /\ t.cmd # None /\ t.cmd.kind = s.cmd.kind /\ t.cmd.live
      /\ t.cmd.same = s.cmd.same /\ t.cmd.step = "relaunch" /\ t.queue = b.queue
  <2>1. t.queue = b.queue
    BY <1>4 DEF Step, Stores
  <2> QED BY <1>4, <2>1, StepSpec
<1> HIDE DEF t
<1>6. Base(t, e) /\ RowFits(t)
  BY <1>4, <1>5 DEF Base, RowFits, SameRow, Jobs, At
<1>7. Doing(t)
  BY <1>4, <1>5 DEF Doing, SameRow
<1>8. Announced(t, e)
  <2>1. CASE s.cmd.kind = "retry"
    BY <1>4, <1>5, <2>1 DEF Announced, Busy, Live, SameRow
  <2>2. CASE s.cmd.kind # "retry"
    BY <1>4, <1>5, <2>2 DEF Announced, Idle, Ticking, Queued, SameRow, HasJob
  <2> QED BY <2>1, <2>2
<1> QED BY <1>2, <1>5, <1>6, <1>7, <1>8 DEF Sound

LEMMA SettledSound ==
  ASSUME NEW s \in Stores, NEW e, now \in Nat, Base(s, e), s.visible \in { None, s.budget }, Idle(s, e)
  PROVE  Settled(s) \in Stores /\ Sound(Settled(s), e)
<1> DEFINE w == IF Watchable(s.row) /\ (s.visible # None \/ unattended) THEN Watch(s) ELSE s
           r == Reading(w, "reconcile")
<1>1. Settled(s) = IF s.row = "bound" THEN Finish(w) ELSE Relaunching(r)
  BY DEF Settled
<1>2. w \in Stores /\ Base(w, e) /\ Idle(w, e) /\ w.row = s.row /\ w.visible = s.visible /\ w.budget = s.budget
  <2>1. CASE w = s
    BY <2>1
  <2>2. CASE Watchable(s.row) /\ w = Publish(s)
    <3>1. /\ w \in Stores /\ SameRow(s, w) /\ w.obs = (IF s.obs = None THEN First(s) ELSE s.obs) /\ (s.obs # None => w = s)
      BY <2>2, PublishSpec
    <3>2. Base(w, e) /\ (s.obs = None => HasJob(w, "refresh"))
      BY <2>2, PublishBase, PublishJobs DEF Base
    <3>3. s.obs = None => w.obs.run = None
      BY <3>1, FirstType
    <3> HIDE DEF w
    <3>4. Idle(w, e)
      <4>1. CASE s.obs = None
        BY <3>2, <3>3, <4>1 DEF Idle, Queued
      <4>2. CASE s.obs # None
        BY <3>1, <4>2
      <4> QED BY <4>1, <4>2
    <3> QED BY <3>1, <3>2, <3>4 DEF SameRow
  <2> QED BY <2>1, <2>2 DEF Publish
<1> HIDE DEF w
<1>3. /\ r \in Stores /\ SameRow(w, r) /\ r.obs = w.obs /\ r.queue = w.queue /\ r.cmd # None /\ r.cmd.kind = "reconcile"
      /\ r.cmd.live /\ r.cmd.same
  BY <1>2, ReadingSpec, ReadingJobs
<1> HIDE DEF r
<1>4. Base(r, e) /\ Idle(r, e)
  BY <1>2, <1>3 DEF Base, Jobs, Idle, Ticking, Queued, HasJob, SameRow
<1>5. Relaunching(r) \in Stores /\ Sound(Relaunching(r), e)
  BY <1>2, <1>3, <1>4, RelaunchingSound DEF SameRow
<1>6. s.row = "bound" => Finish(w) \in Stores /\ Sound(Finish(w), e)
  BY <1>2, FinishSound
<1> QED BY <1>1, <1>5, <1>6

\* The head that begins is none that recovery counts on.
LEMMA RestSound ==
  ASSUME Accounted, queue # << >>, cmd = None, Head(queue).kind \in { "loss", "reconcile" }, NEW a \in Stores,
         a.row = row, a.visible = visible, a.budget = budget, a.obs = obs, a.cmd = None, a.queue = Tail(queue)
  PROVE  Sound(a, World) /\ Idle(a, World)
<1> DEFINE b == [Here EXCEPT !.queue = Tail(@)]
<1>1. /\ b \in Stores /\ SameRow(Here, b) /\ b.obs = obs /\ b.cmd = None /\ b.queue = Tail(queue)
      /\ Base(b, World) /\ RowFits(b)
      /\ \A k : HasJob(Here, k) => HasJob(b, k) \/ (Head(queue).kind = k /\ Head(queue).live)
  BY RestHere
<1> HIDE DEF b
<1>2. HasJob(Here, "refresh") => HasJob(b, "refresh")
  BY <1>1
<1>3. HasJob(Here, "retry") => HasJob(b, "retry")
  BY <1>1
<1>4. HasJob(Here, "ack") => HasJob(b, "ack")
  BY <1>1
<1>5. obs # None /\ Live(visible) => Ticking(Here) \/ Queued(Here, World)
  BY Facts, Fields DEF Sound, Announced, Busy
<1>6. Idle(b, World)
  BY <1>1, <1>2, <1>3, <1>4, <1>5, Fields DEF Idle, Ticking, Queued, SameRow
<1>7. Sound(b, World)
  BY <1>1, <1>6 DEF Sound, Doing, Announced, Idle
<1>8. a.row = b.row /\ a.visible = b.visible /\ a.budget = b.budget /\ a.obs = b.obs /\ a.cmd = b.cmd /\ a.queue = b.queue
  BY <1>1, Fields DEF SameRow
<1>9. Idle(a, World)
  BY <1>6, <1>8 DEF Idle, Ticking, Queued, HasJob
<1> QED BY <1>1, <1>7, <1>8, <1>9, SoundSame

LEMMA AdoptsMoves ==
  ASSUME Accounted, Answered', Adopts, turns' = turns
  PROVE  Moves(World, World')
<1>1. native \in Run /\ native # None /\ native.status = "running" /\ native' = [native EXCEPT !.at = now, !.started = now, !.progress = 0]
  BY Facts DEF Adopts
<1>2. native'.turn = native.turn
  BY <1>1 DEF Run
<1>3. native' # None
  BY NextFields DEF Adopts, Answered, WorldOK
<1> QED BY <1>1, <1>2, <1>3, RunsOn

LEMMA AdoptSurvivorAccounted ==
  ASSUME Accounted, Answered', AdoptSurvivor
  PROVE  Accounted'
<1> DEFINE a == [Here EXCEPT !.queue = Tail(@), !.row = "bound"]
<1>1. /\ cmd = None /\ queue # << >> /\ Head(queue).kind = "reconcile" /\ working /\ Adopts
      /\ Become(Changed(Publish(a))) /\ now' = now /\ turns' = turns
  BY DEF AdoptSurvivor, clock
<1>2. row = "bound"
  BY <1>1, Fields DEF Accounted, Answered, RowOK
<1>3. a \in Stores /\ a.row = row /\ a.visible = visible /\ a.budget = budget /\ a.obs = obs /\ a.cmd = None /\ a.queue = Tail(queue)
  <2>1. Tail(queue) \in Seq(Job)
    BY <1>1, Drops, Facts, Fields DEF Stores
  <2> QED BY <1>1, <1>2, <2>1, Facts, Fields DEF Stores
<1> HIDE DEF a
<1>4. Sound(a, World)
  BY <1>1, <1>3, RestSound
<1>5. Publish(a) \in Stores /\ Sound(Publish(a), World)
  BY <1>2, <1>3, <1>4, Facts, PublishSound
<1>6. Changed(Publish(a)) \in Stores /\ Sound(Changed(Publish(a)), World)
  BY <1>5, ChangedSound
<1>7. Moves(World, World')
  BY <1>1, AdoptsMoves
<1> QED BY <1>1, <1>6, <1>7, Facts, Steps

LEMMA BeginReconcileAccounted ==
  ASSUME Accounted, Answered', BeginReconcile
  PROVE  Accounted'
<1> DEFINE a == [Here EXCEPT !.queue = Tail(@)]
           b == [a EXCEPT !.row = "bound"]
<1>1. /\ cmd = None /\ queue # << >> /\ Head(queue).kind = "reconcile" /\ now' = now /\ native' = native /\ turns' = turns
      /\ Become(IF alive THEN Publish(b) ELSE Settled(a))
  BY DEF BeginReconcile, clock, provider
<1>2. /\ a \in Stores /\ SameRow(Here, a) /\ a.obs = obs /\ a.cmd = None /\ a.queue = Tail(queue)
  BY <1>1, RestHere
<1> HIDE DEF a
<1>3. b \in Stores /\ b.row = "bound" /\ b.visible = visible /\ b.budget = budget /\ b.obs = obs /\ b.cmd = None /\ b.queue = Tail(queue)
  BY <1>2, Fields DEF Stores, SameRow
<1> HIDE DEF b
<1>4. CASE alive
  <2>1. row = "bound"
    BY <1>4, Fields DEF Accounted, Answered, RowOK
  <2>2. Sound(b, World)
    BY <1>1, <1>3, <2>1, RestSound
  <2>3. Publish(b) \in Stores /\ Sound(Publish(b), World)
    BY <1>3, <2>2, Facts, PublishSound
  <2> QED BY <1>1, <1>4, <2>3, Facts, Steps, Moved
<1>5. CASE ~alive
  <2>1. Sound(a, World) /\ Idle(a, World)
    BY <1>1, <1>2, Fields, RestSound DEF SameRow
  <2>2. Settled(a) \in Stores /\ Sound(Settled(a), World)
    BY <1>2, <2>1, Facts, Fields, SettledSound DEF Sound, SameRow
  <2> QED BY <1>1, <1>5, <2>2, Facts, Steps, Moved
<1> QED BY <1>4, <1>5

LEMMA ExitSet ==
  ASSUME NEW s \in Stores, s.obs # None, NEW r \in Run
  PROVE  \A t : t = [s EXCEPT !.obs.exit = r] =>
           /\ t \in Stores /\ SameRow(s, t) /\ t.cmd = s.cmd /\ t.queue = s.queue /\ t.obs # None
           /\ t.obs.run = s.obs.run /\ t.obs.timer = s.obs.timer /\ t.obs.exit = r
<1> SUFFICES ASSUME NEW t, t = [s EXCEPT !.obs.exit = r]
             PROVE  /\ t \in Stores /\ SameRow(s, t) /\ t.cmd = s.cmd /\ t.queue = s.queue /\ t.obs # None
                    /\ t.obs.run = s.obs.run /\ t.obs.timer = s.obs.timer /\ t.obs.exit = r
  OBVIOUS
<1> DEFINE o == [s.obs EXCEPT !.exit = r]
<1>1. s.obs \in Observation
  BY DEF Stores
<1>2. o \in Observation /\ o.run = s.obs.run /\ o.timer = s.obs.timer /\ o.exit = r
  BY <1>1 DEF Observation
<1> DEFINE u == [s EXCEPT !.obs = o]
<1>3. t = u
  BY DEF Stores
<1> HIDE DEF o
<1>4. u \in Stores /\ SameRow(s, u) /\ u.cmd = s.cmd /\ u.queue = s.queue /\ u.obs = o /\ u.obs # None
  BY <1>2, ObsSet
<1> HIDE DEF u
<1> QED BY <1>2, <1>3, <1>4

LEMMA ProcessExitedSound ==
  ASSUME Accounted, NEW s \in Stores, s.obs # None, s.row = "bound", Sound(s, World), s.cmd = None, NEW kind \in { "loss", "reconcile" }
  PROVE  LET t == ProcessExited(s, kind) IN t \in Stores /\ Sound(t, World) /\ SameRow(s, t)
<1> DEFINE y == [s EXCEPT !.obs.exit = ExitRun]
           x == IF s.obs.exit = None THEN y ELSE s
           t == Reading(x, kind)
<1>1. ProcessExited(s, kind) \in { s, t }
  BY DEF ProcessExited
<1>2. /\ x \in Stores /\ SameRow(s, x) /\ x.queue = s.queue /\ x.obs # None /\ x.cmd = None
      /\ x.obs.run = s.obs.run /\ x.obs.timer = s.obs.timer /\ (s.obs.exit # None => x = s) /\ x.obs.exit # None
  <2>1. ExitRun \in Run /\ ExitRun # None
    BY ExitRunType DEF Accounted
  <2>5. y = [s EXCEPT !.obs.exit = ExitRun]
    OBVIOUS
  <2> HIDE DEF y
  <2>2. /\ y \in Stores /\ SameRow(s, y) /\ y.cmd = s.cmd /\ y.queue = s.queue /\ y.obs # None
        /\ y.obs.run = s.obs.run /\ y.obs.timer = s.obs.timer /\ y.obs.exit = ExitRun
    <3>1. PICK r \in Run : r = ExitRun
      BY <2>1
    <3>2. y = [s EXCEPT !.obs.exit = r]
      BY <2>5, <3>1
    <3>3. \A q : q = [s EXCEPT !.obs.exit = r] =>
            /\ q \in Stores /\ SameRow(s, q) /\ q.cmd = s.cmd /\ q.queue = s.queue /\ q.obs # None
            /\ q.obs.run = s.obs.run /\ q.obs.timer = s.obs.timer /\ q.obs.exit = r
      BY ExitSet
    <3> QED BY <3>1, <3>2, <3>3
  <2>3. CASE s.obs.exit = None
    BY <2>1, <2>2, <2>3
  <2>4. CASE s.obs.exit # None
    BY <2>4 DEF SameRow
  <2> QED BY <2>3, <2>4
<1> HIDE DEF x
<1>4. Base(x, World)
  BY <1>2 DEF Sound, Base, SameRow, Jobs, Follows
<1>5. Idle(x, World)
  BY <1>2 DEF Sound, Announced, Idle, Busy, Ticking, Queued, SameRow, HasJob
<1>6. /\ t \in Stores /\ SameRow(x, t) /\ t.obs = x.obs /\ t.queue = x.queue /\ t.cmd # None /\ t.cmd.kind = kind
      /\ t.cmd.live /\ t.cmd.same /\ t.cmd.step = "read"
  <2>1. kind \in { "refresh", "retry", "ack", "loss", "reconcile" } /\ x \in Stores
    BY <1>2
  <2>2. t.queue = x.queue
    BY <2>1, ReadingJobs
  <2> QED BY <2>1, <2>2, ReadingSpec
<1> HIDE DEF t
<1>7. Base(t, World) /\ RowFits(t) /\ Doing(t)
  BY <1>2, <1>4, <1>6 DEF Base, RowFits, Doing, SameRow, Jobs
<1>8. Announced(t, World)
  BY <1>5, <1>6 DEF Announced, Idle, Ticking, Queued, SameRow, HasJob
<1> QED BY <1>1, <1>2, <1>6, <1>7, <1>8 DEF Sound, SameRow

LEMMA BeginLossAccounted ==
  ASSUME Accounted, Answered', BeginLoss
  PROVE  Accounted'
<1> DEFINE a == [Here EXCEPT !.queue = Tail(@), !.working = FALSE]
           lost == Publish(a)
           kind == Head(queue).kind
           next == IF working /\ unattended THEN ProcessExited(lost, kind) ELSE lost
           t == IF kind = "reconcile" /\ next.cmd = None THEN Settled(next) ELSE next
<1>1. /\ cmd = None /\ queue # << >> /\ kind \in { "loss", "reconcile" } /\ (kind = "reconcile" => working)
      /\ Become(t) /\ now' = now /\ native' = native /\ turns' = turns
  BY DEF BeginLoss, clock, provider
<1>2. Tail(queue) \in Seq(Job)
  BY <1>1, Drops, Facts, Fields DEF Stores
<1>3. a \in Stores /\ a.row = row /\ a.visible = visible /\ a.budget = budget /\ a.obs = obs /\ a.cmd = None /\ a.queue = Tail(queue)
  BY <1>1, <1>2, Facts, Fields DEF Stores
<1> HIDE DEF a
<1>4. Sound(a, World)
  BY <1>1, <1>3, RestSound
<1>5. working => row = "bound"
  BY Fields DEF Accounted, Answered, RowOK
<1>6. row \in { "bound", "error" }
  <2>1. kind = "loss" => row # "starting"
    BY <1>1, RestHere
  <2>2. row \in { "bound", "starting", "error" }
    BY Facts, Fields DEF Stores
  <2> QED BY <1>1, <1>5, <2>1, <2>2
<1>7. /\ lost \in Stores /\ Sound(lost, World) /\ SameRow(a, lost) /\ lost.cmd = None
      /\ row = "bound" => lost.obs # None
  <2>1. CASE row = "bound"
    <3>1. lost \in Stores /\ Sound(lost, World)
      BY <1>3, <1>4, <2>1, Facts, PublishSound
    <3>2. SameRow(a, lost) /\ lost.cmd = None /\ lost.obs # None
      BY <1>3, <2>1, Facts, PublishSpec, FirstType DEF Watchable
    <3> QED BY <3>1, <3>2
  <2>2. CASE row = "error"
    <3>1. lost \in Stores /\ SameRow(a, lost) /\ lost.cmd = None /\ lost.obs = None
      BY <1>3, <2>2, Facts, PublishSpec DEF Watchable, Detached
    <3>2. Base(lost, World)
      BY <1>3, <1>4, Facts, PublishBase DEF Sound
    <3> QED BY <1>3, <2>2, <3>1, <3>2 DEF Sound, RowFits, Doing, Announced, SameRow
  <2> QED BY <1>6, <2>1, <2>2
<1> HIDE DEF lost, kind
<1>8. next \in Stores /\ Sound(next, World) /\ SameRow(lost, next)
  <2>1. CASE working /\ unattended
    BY <1>1, <1>3, <1>5, <1>7, <2>1, ProcessExitedSound DEF SameRow
  <2>2. CASE ~(working /\ unattended)
    BY <1>7, <2>2 DEF SameRow
  <2> QED BY <2>1, <2>2
<1> HIDE DEF next
<1>9. next.cmd = None => Settled(next) \in Stores /\ Sound(Settled(next), World)
  <2>1. next.cmd = None => Idle(next, World)
    BY <1>8 DEF Sound, Announced, Idle, Busy
  <2>2. next.visible \in { None, next.budget }
    BY <1>3, <1>7, <1>8, Facts DEF SameRow
  <2> QED BY <1>8, <2>1, <2>2, Facts, SettledSound DEF Sound
<1> QED BY <1>1, <1>8, <1>9, Facts, Steps, Moved

-----------------------------------------------------------------------------
(***************************************************************************)
(* refresh(): once the newest run was looked at, the timer fits the        *)
(* failure, or nothing is announced.                                       *)
(***************************************************************************)
Reads(s, t) == Base(t, World) /\ Passes(s, t) /\ Calm(t)

LEMMA ReadsTrans ==
  ASSUME NEW s, NEW t, NEW u, Passes(s, t), Reads(t, u)
  PROVE  Reads(s, u)
BY PassesTrans DEF Reads

\* The run that is seen is the end of a process, which the observation keeps, or the newest run.
LEMMA SeenFollows ==
  ASSUME TypeOK, WorldOK(World), NEW o \in Observation, NEW r \in Run, Seen(o, r), o.run = r, ExitOK(o, World), NEW f,
         Live(f) => f.turn = r.turn /\ r.status = "failed"
  PROVE  Follows(o, f, World)
<1>1. turns <= MaxTurns /\ turns \in Nat /\ MaxTurns \in Nat
  BY Bounds DEF TypeOK
<1>2. native # None => native.turn <= turns /\ native.turn <= MaxTurns
  BY <1>1, Fields DEF WorldOK
<1>3. o.exit # None => o.exit.turn > MaxTurns
  BY NoneAssumption DEF ExitOK
<1>4. r.turn \in Nat
  BY <1>1, Bounds DEF Run, TurnIds
<1>5. CASE o.exit # None
  <2>1. r = o.exit
    BY <1>5 DEF Seen
  <2>2. native # None => native.turn # r.turn
    BY <1>1, <1>2, <1>3, <1>4, <1>5, <2>1 DEF TypeOK, Run, TurnIds
  <2> QED BY <1>3, <1>5, <2>1, <2>2, Fields DEF Follows
<1>6. CASE o.exit = None
  <2>1. r = native /\ native # None
    BY <1>6 DEF Seen
  <2> QED BY <1>1, <1>2, <1>4, <1>6, <2>1, Fields DEF Follows
<1> QED BY <1>5, <1>6

LEMMA FailedCalm ==
  ASSUME TypeOK, NEW s \in Stores, s.obs # None, Core(s, World), WorldOK(World), Jobs(s), Known(s.budget, World),
         s.row = "bound", NEW r \in Run, Seen(s.obs, r), s.obs.run = r, r.status = "failed", NEW initial \in BOOLEAN,
         initial \/ ~(Retrying(s.visible) /\ s.visible.turn = r.turn)
  PROVE  Reads(s, Failed(s, r, initial))
<1>1. now \in Nat /\ turn \in BOOLEAN
  BY DEF TypeOK
<1>2. Prior(s) = s.budget /\ s.budget \in Failure \cup {None} /\ s.visible \in { None, s.budget } /\ s.obs \in Observation
  BY PriorIs DEF Core, Stores
<1>3. ASSUME NEW f, Live(f) => f.turn = r.turn
      PROVE  Follows(s.obs, f, World)
  BY <1>2, <1>3, SeenFollows DEF Core
<1>4. CASE s.budget # None /\ s.budget.turn = r.turn
  <2> DEFINE f == s.budget
             g == [f EXCEPT !.status = "stopped"]
  <2>1. f \in Failure /\ Failed(s, r, initial) = KnownFailure(s, f, initial)
    BY <1>2, <1>4 DEF Failed
  <2>2. g \in Failure /\ g.status = "stopped" /\ g.turn = f.turn /\ g.code = f.code
    BY <2>1 DEF Failure
  <2>3. ~Live(g) /\ Known(g, World)
    BY <1>4, <2>2 DEF Live, Known
  <2>4. KnownFailure(s, f, initial) = IF f.status = "scheduled" THEN Schedule(s, f)
                                      ELSE IF initial /\ f.status = "retrying" THEN Save(s, g) ELSE s
    BY DEF KnownFailure
  <2>5. Live(s.visible) => s.visible = f
    BY <1>2 DEF Live
  <2>6. Base(s, World)
    BY <1>3, <1>4, <2>5 DEF Base
  <2>7. Passes(s, s)
    BY DEF Passes
  <2> HIDE DEF g
  <2>8. f.status = "scheduled" => Reads(s, Schedule(s, f))
    BY <1>1, <1>2, <2>1, <2>6, ScheduleCalm DEF Reads
  <2>9. Reads(s, Save(s, g))
    BY <1>1, <1>3, <2>2, <2>3, SaveStopped DEF Reads, Follows
  <2>10. f.status # "scheduled" /\ ~(initial /\ f.status = "retrying") => Reads(s, s)
    BY <1>4, <2>5, <2>6, <2>7 DEF Reads, Calm, Live, Retrying
  <2> QED BY <2>1, <2>4, <2>8, <2>9, <2>10
<1>5. CASE ~(s.budget # None /\ s.budget.turn = r.turn)
  <2> DEFINE f == NewFailure(s, r, Prior(s))
             t == Save(s, f)
  <2>1. r.code # "none" /\ (r.code = "process_exited" \/ native # None)
    BY Fields DEF Seen, Core, ExitOK, WorldOK
  <2>2. f \in Failure /\ f.turn = r.turn /\ f.code = r.code /\ f.status \in { "scheduled", "stopped" }
    BY <1>1, <1>2, <2>1, NewFailureType
  <2>3. Failed(s, r, initial) = IF f.status = "scheduled" THEN Schedule(t, f) ELSE t
    BY <1>2, <1>5 DEF Failed
  <2> HIDE DEF f
  <2>4. Known(f, World) /\ Follows(s.obs, f, World)
    BY <1>3, <2>1, <2>2, Fields DEF Known
  <2>5. Base(t, World) /\ Passes(s, t)
    BY <1>1, <2>2, <2>4, SaveBase
  <2>6. t \in Stores /\ t.visible = f /\ t.budget = f
    BY <1>1, <2>2, SaveSpec
  <2> HIDE DEF t
  <2>7. f.status = "scheduled" => Reads(t, Schedule(t, f))
    BY <1>1, <2>2, <2>5, <2>6, ScheduleCalm DEF Reads
  <2>8. f.status = "stopped" => Reads(s, t)
    BY <2>2, <2>5, <2>6 DEF Reads, Calm, Live
  <2> QED BY <2>2, <2>3, <2>5, <2>7, <2>8, ReadsTrans
<1> QED BY <1>4, <1>5

LEMMA LivesCalm ==
  ASSUME TypeOK, NEW s \in Stores, s.obs # None, Core(s, World), WorldOK(World), Jobs(s), Known(s.budget, World),
         s.row = "bound", NEW r \in Run, Seen(s.obs, r), s.obs.run = r, r.status # "failed"
  PROVE  Reads(s, Lives(s, r))
<1>1. now \in Nat /\ turn \in BOOLEAN
  BY DEF TypeOK
<1>2. Prior(s) = s.budget /\ s.budget \in Failure \cup {None} /\ s.visible \in { None, s.budget } /\ s.obs \in Observation
  BY PriorIs DEF Core, Stores
<1>3. ASSUME NEW f, ~Live(f)
      PROVE  Follows(s.obs, f, World)
  BY <1>2, <1>3, SeenFollows DEF Core
<1>4. ~Live(None)
  BY DEF Live
<1>5. Reads(s, Save(s, None))
  BY <1>1, <1>3, <1>4, SaveStopped DEF Reads, Known, Follows
<1>6. s.visible = None => Reads(s, s)
  BY <1>3, <1>4 DEF Reads, Base, Passes, Calm
<1> DEFINE a == [s EXCEPT !.budget = s.budget, !.visible = None]
           b == Synced(a)
<1>7. a \in Stores /\ a.row = s.row /\ a.visible = None /\ a.budget = s.budget /\ a.obs = s.obs /\ a.cmd = s.cmd /\ a.queue = s.queue
  BY DEF Stores
<1> HIDE DEF a
<1>8. /\ b \in Stores /\ b.row = s.row /\ b.visible = None /\ b.budget = s.budget /\ b.obs = s.obs /\ b.queue = s.queue
  BY <1>1, <1>7, SyncedSpec
<1> HIDE DEF b
<1>9. Base(b, World) /\ Passes(s, b)
  BY <1>3, <1>4, <1>8, SameQueue DEF Base, Jobs
<1>10. Reads(s, Publish(b))
  <2>1. Base(Publish(b), World) /\ Passes(b, Publish(b))
    BY <1>1, <1>8, <1>9, PublishBase
  <2>2. Publish(b).visible = None
    BY <1>1, <1>8, PublishSpec DEF SameRow
  <2> QED BY <1>4, <1>9, <2>1, <2>2, PassesTrans DEF Reads, Calm
<1>11. \/ Lives(s, r) = Save(s, None)
       \/ Lives(s, r) = s /\ s.visible = None
       \/ Lives(s, r) = Publish(b)
  BY <1>2 DEF Lives, Acknowledge, a, b
<1> QED BY <1>5, <1>6, <1>10, <1>11

\* After refresh() everything is in order, or nothing changed because the newest run was known.
LEMMA RefreshSound ==
  ASSUME Accounted, cmd # None, cmd.step = "read"
  PROVE  \A t : t = Refreshed(Here) =>
           /\ t \in Stores /\ Core(t, World) /\ Rest(Here, t) /\ Base(t, World) /\ Passes(Here, t)
           /\ \/ Calm(t)
              \/ /\ t.visible = visible /\ t.budget = budget /\ (t.obs = None <=> obs = None) /\ MoreJobs(Here, t)
                 /\ obs # None => t.obs.run = obs.run /\ t.obs.timer = obs.timer
                 /\ obs # None /\ Live(visible) => obs.run # None
           /\ row # "bound" /\ t.obs # None => ~Live(t.budget)
           /\ obs # None => t.cmd = cmd
<1> SUFFICES ASSUME NEW t, t = Refreshed(Here)
    PROVE  /\ t \in Stores /\ Core(t, World) /\ Rest(Here, t) /\ Base(t, World) /\ Passes(Here, t)
           /\ \/ Calm(t)
              \/ /\ t.visible = visible /\ t.budget = budget /\ (t.obs = None <=> obs = None) /\ MoreJobs(Here, t)
                 /\ obs # None => t.obs.run = obs.run /\ t.obs.timer = obs.timer
                 /\ obs # None /\ Live(visible) => obs.run # None
           /\ row # "bound" /\ t.obs # None => ~Live(t.budget)
           /\ obs # None => t.cmd = cmd
  OBVIOUS
<1>1. /\ Here \in Stores /\ TypeOK /\ Core(Here, World) /\ WorldOK(World) /\ now \in Nat /\ turn \in BOOLEAN /\ native \in Run \cup {None}
      /\ Base(Here, World) /\ visible \in { None, budget }
  BY Facts DEF Accounted, Answered, Sound
<1>2. t \in Stores /\ Core(t, World) /\ Rest(Here, t)
  BY <1>1, RefreshKeeps DEF Fine
<1>3. row # "bound" /\ obs # None => ~Live(budget) /\ ~Live(visible)
  BY <1>1, Facts, Fields DEF Sound, RowFits, At, Live
<1>4. row = "error" => obs = None
  BY <1>1, Fields DEF Base
<1>5. ~cmd.live => row = "error"
  BY Facts, Fields DEF Sound, Doing
<1>6. ~cmd.same => ~Live(visible)
  BY <1>1, Facts, Fields DEF Sound, Doing, Live
<1>7. obs # None => t.cmd = cmd
  BY <1>1, <1>2, <1>4, Fields DEF Rest, Watchable, Stores
<1>8. CASE obs = None
  <2>1. t = Here
    BY <1>8, Fields DEF Refreshed
  <2> QED BY <1>1, <1>2, <1>7, <1>8, <2>1, SameQueue, Fields DEF Base
<1>9. CASE obs # None
  <2> DEFINE kept == [Here EXCEPT !.obs.exit = ExitStands(Here)]
             r == Latest(Here)
  <2>1. cmd.live /\ Here.obs # None /\ obs \in Observation
    BY <1>1, <1>4, <1>5, <1>9, Fields DEF Stores
  <2>2. /\ kept \in Stores /\ Core(kept, World) /\ Rest(Here, kept) /\ kept.obs # None
        /\ SameRow(Here, kept) /\ kept.queue = Here.queue /\ kept.cmd = Here.cmd
        /\ kept.obs.run = obs.run /\ kept.obs.timer = obs.timer /\ kept.obs.exit = ExitStands(Here)
        /\ r # None => Seen(kept.obs, r) /\ r \in Run
    BY <1>1, <2>1, KeptSpec, Fields
  <2>3. t = IF Current /\ r # None /\ r # obs.run THEN Observe(kept, r) ELSE kept
    BY <2>1, Fields DEF Refreshed, Unseen
  <2>4. /\ ExitStands(Here) \in { None, obs.exit } /\ (ExitStands(Here) = None /\ obs.exit # None => native # None)
        /\ r = (IF ExitStands(Here) # None THEN ExitStands(Here) ELSE native)
    BY Fields DEF ExitStands, Latest
  <2> HIDE DEF kept, r
  <2>5. Passes(Here, kept) /\ MoreJobs(Here, kept) /\ Jobs(kept) /\ Known(kept.budget, World)
    BY <1>1, <2>2, SameQueue DEF Base, SameRow, Passes
  <2>6. CASE ~(Current /\ r # None /\ r # obs.run)
    <3>1. t = kept
      BY <2>3, <2>6
    <3>2. Live(visible) => Current /\ obs.run # None /\ r = obs.run
      <4>1. Live(visible) => native # None \/ obs.exit # None
        BY <1>1, <1>9, Fields DEF Base, Follows
      <4>2. Live(visible) => r # None
        BY <2>4, <4>1
      <4>3. Live(visible) => Current
        BY <1>6, <1>9, <2>1, Fields DEF Current
      <4> QED BY <2>6, <4>2, <4>3
    <3>3. Base(kept, World)
      <4>1. CASE Live(visible)
        <5>1. r \in Run /\ Seen(kept.obs, r) /\ kept.obs.run = r /\ kept.obs \in Observation
          BY <2>2, <3>2, <4>1 DEF Stores
        <5>2. r.turn = visible.turn /\ r.status = "failed"
          BY <1>1, <1>9, <3>2, <4>1, Fields DEF Base, Follows
        <5>3. Follows(kept.obs, visible, World)
          BY <1>1, <2>2, <5>1, <5>2, SeenFollows DEF Core
        <5> QED BY <1>4, <1>9, <2>2, <2>5, <5>3, Fields DEF Base, SameRow
      <4>2. CASE ~Live(visible)
        <5>1. kept.obs.run # None => kept.obs.run.turn <= turns \/ kept.obs.run.turn > MaxTurns
          BY <1>1, <1>9, <2>2, Fields DEF Base, Follows
        <5> QED BY <1>4, <1>9, <2>2, <2>5, <4>2, <5>1, NotLive, Fields DEF SameRow
      <4> QED BY <4>1, <4>2
    <3> QED BY <1>2, <1>3, <1>7, <1>9, <2>2, <2>5, <3>1, <3>2, <3>3, Fields DEF SameRow
  <2>7. CASE Current /\ r # None /\ r # obs.run
    <3> DEFINE seen == [kept EXCEPT !.obs.run = r]
               a == Synced(seen)
               base == ClearTimer(a)
               initial == kept.obs.run = None
    <3>1. t = Observe(kept, r) /\ r \in Run /\ Seen(kept.obs, r)
      BY <2>2, <2>3, <2>7
    <3>2. Observe(kept, r) = IF seen.row # "bound" THEN seen
                             ELSE IF r.status = "failed" THEN Failed(base, r, initial) ELSE Lives(base, r)
      BY DEF Observe
    <3>3. /\ seen \in Stores /\ Core(seen, World) /\ seen.obs # None /\ Seen(seen.obs, r)
          /\ SameRow(kept, seen) /\ seen.queue = kept.queue /\ seen.obs.run = r /\ seen.obs.exit = kept.obs.exit
      BY <1>1, <2>2, <3>1, SeenSpec
    <3> HIDE DEF seen
    <3>4. /\ a \in Stores /\ a.row = seen.row /\ a.visible = seen.visible /\ a.budget = seen.budget /\ a.obs = seen.obs /\ a.queue = seen.queue
      BY <1>1, <3>3, SyncedSpec
    <3> HIDE DEF a
    <3>5. /\ base \in Stores /\ SameRow(a, base) /\ SameObs(a.obs, base.obs) /\ base.queue = a.queue
      BY <3>4, ClearTimerSpec
    <3>6. Core(base, World)
      BY <3>3, <3>4, ClearTimerKeeps DEF Core
    <3> HIDE DEF base, initial
    <3>7. /\ base.row = row /\ base.visible = visible /\ base.budget = budget /\ base.obs # None /\ base.obs.run = r
          /\ Seen(base.obs, r) /\ base.queue = Here.queue
      BY <2>2, <3>3, <3>4, <3>5, Fields DEF SameRow, SameObs, Seen
    <3>8. Jobs(base) /\ Known(base.budget, World) /\ Passes(Here, base)
      BY <1>1, <3>7, SameQueue, Fields DEF Base, Passes
    <3>9. CASE row # "bound"
      <4>1. t = seen /\ seen.visible = visible /\ seen.budget = budget /\ seen.row = row /\ seen.queue = Here.queue
        BY <2>2, <3>1, <3>2, <3>3, <3>9, Fields DEF SameRow
      <4>2. ~Live(seen.visible) /\ ~Live(seen.budget)
        BY <1>3, <1>9, <3>9, <4>1
      <4>3. Follows(seen.obs, seen.visible, World)
        BY <1>1, <3>1, <3>3, <4>2, SeenFollows DEF Core, Stores
      <4>4. Jobs(seen) /\ Passes(Here, seen)
        BY <1>1, <4>1, SameQueue DEF Base, Jobs
      <4>5. Base(seen, World)
        BY <1>1, <1>4, <1>9, <4>1, <4>3, <4>4, Fields DEF Base
      <4> QED BY <1>2, <1>7, <4>1, <4>2, <4>4, <4>5 DEF Calm
    <3>10. CASE row = "bound"
      <4>1. ASSUME r.status = "failed"
            PROVE  Reads(base, Failed(base, r, initial))
        <5>1. initial \/ ~(Retrying(base.visible) /\ base.visible.turn = r.turn)
          <6> SUFFICES ASSUME obs.run # None, Retrying(visible), visible.turn = r.turn PROVE FALSE
            BY <2>2, <3>7 DEF initial
          <6>1. Live(visible)
            BY DEF Live, Retrying
          <6>2. /\ obs.run.turn = r.turn
                /\ obs.run.turn > MaxTurns => obs.exit = obs.run
                /\ native # None /\ native.turn = obs.run.turn => native = obs.run
            BY <1>1, <1>9, <6>1, Fields DEF Base, Follows
          <6>3. CASE ExitStands(Here) # None
            <7>1. r = obs.exit /\ obs.exit # None
              BY <2>4, <6>3
            <7>2. r.turn > MaxTurns
              BY <1>1, <1>9, <7>1, Fields DEF Core, ExitOK
            <7> QED BY <2>7, <6>2, <7>1, <7>2
          <6>4. CASE ExitStands(Here) = None
            BY <2>4, <2>7, <6>2, <6>4
          <6> QED BY <6>3, <6>4
        <5>2. initial \in BOOLEAN
          BY DEF initial
        <5> QED BY <1>1, <3>1, <3>5, <3>6, <3>7, <3>8, <3>10, <4>1, <5>1, <5>2, FailedCalm
      <4>2. ASSUME r.status # "failed"
            PROVE  Reads(base, Lives(base, r))
        BY <1>1, <3>1, <3>5, <3>6, <3>7, <3>8, <3>10, <4>2, LivesCalm
      <4>3. seen.row = "bound"
        BY <3>4, <3>5, <3>7, <3>10 DEF SameRow
      <4>4. Reads(base, t)
        BY <3>1, <3>2, <4>1, <4>2, <4>3
      <4>5. Reads(Here, t)
        BY <3>8, <4>4, ReadsTrans
      <4> QED BY <1>2, <1>7, <3>10, <4>5 DEF Reads
    <3> QED BY <3>9, <3>10
  <2> QED BY <2>6, <2>7
<1> QED BY <1>8, <1>9

-----------------------------------------------------------------------------
(***************************************************************************)
(* What follows a refresh.                                                 *)
(***************************************************************************)

\* The refresh leaves everything in order, or the command is the one recovery waits for.
LEMMA ReadIdle ==
  ASSUME Accounted, cmd # None, cmd.step = "read"
  PROVE  \A s : s = Refreshed(Here) =>
           \/ Idle(s, World)
           \/ cmd.kind = "retry" /\ cmd.same /\ Scheduled(s.visible) /\ s.visible.next <= now
           \/ cmd.kind = "ack" /\ Retrying(s.visible) /\ s.obs # None /\ s.obs.run # None
<1> SUFFICES ASSUME NEW s, s = Refreshed(Here), ~Idle(s, World)
    PROVE  \/ cmd.kind = "retry" /\ cmd.same /\ Scheduled(s.visible) /\ s.visible.next <= now
           \/ cmd.kind = "ack" /\ Retrying(s.visible) /\ s.obs # None /\ s.obs.run # None
  OBVIOUS
<1>1. /\ s.visible = visible /\ (s.obs = None <=> obs = None) /\ MoreJobs(Here, s)
      /\ obs # None => s.obs.run = obs.run /\ s.obs.timer = obs.timer
      /\ obs # None /\ Live(visible) => obs.run # None
  <2>1. ~Calm(s)
    BY DEF Calm, Idle
  <2> QED BY <2>1, RefreshSound
<1>2. obs # None /\ Live(visible) /\ obs.run # None /\ s.obs # None /\ s.obs.run = obs.run /\ s.obs.timer = obs.timer
  BY <1>1 DEF Idle
<1>3. ~Ticking(Here)
  BY <1>1, <1>2, Fields DEF Idle, Ticking
<1>4. ~Queued(Here, World)
  BY <1>1, <1>2, Fields DEF Idle, Queued, MoreJobs
<1>5. Busy(Here, World)
  BY <1>2, <1>3, <1>4, Facts, Fields DEF Sound, Announced
<1> QED BY <1>1, <1>2, <1>5, Fields DEF Busy, ReadsFor

\* A row that is not at a relaunch: the command may end.
LEMMA EndsSound ==
  ASSUME Accounted, cmd # None, cmd.step # "relaunch", NEW s \in Stores, Base(s, World), Idle(s, World),
         s.row = row, Passes(Here, s), row # "bound" /\ s.obs # None => ~Live(s.budget)
  PROVE  Finish(s) \in Stores /\ Sound(Finish(s), World)
<1>1. row = "starting" => ~HasLoss(Here)
  BY Facts, Fields DEF Sound, RowFits, At
<1> QED BY <1>1, FinishSound DEF Passes

LEMMA StatusSet ==
  ASSUME NEW f \in Failure
  PROVE  \A g : g = [f EXCEPT !.status = "stopped"] =>
           g \in Failure /\ g # None /\ g.code = f.code /\ g.turn = f.turn /\ ~Live(g)
<1> SUFFICES ASSUME NEW g, g = [f EXCEPT !.status = "stopped"]
    PROVE  g \in Failure /\ g # None /\ g.code = f.code /\ g.turn = f.turn /\ ~Live(g)
  OBVIOUS
<1>1. g \in Failure /\ g.status = "stopped" /\ g.code = f.code /\ g.turn = f.turn
  BY DEF Failure
<1> QED BY <1>1, NoneAssumption DEF Live

LEMMA ReadEndsAccounted ==
  ASSUME Accounted, Answered', ReadEnds
  PROVE  Accounted'
<1>1. cmd # None /\ cmd.step = "read" /\ cmd \in Command /\ now' = now /\ native' = native /\ turns' = turns
  BY Facts, Fields DEF ReadEnds, clock, provider, Stores
<1> DEFINE s == Refreshed(Here)
           g == [s.visible EXCEPT !.status = "stopped"]
<1>2. /\ s \in Stores /\ Core(s, World) /\ Rest(Here, s) /\ Base(s, World) /\ Passes(Here, s)
      /\ row # "bound" /\ s.obs # None => ~Live(s.budget)
      /\ obs # None => s.cmd = cmd
  BY <1>1, RefreshSound
<1>3. \/ Idle(s, World)
      \/ cmd.kind = "retry" /\ cmd.same /\ Scheduled(s.visible) /\ s.visible.next <= now
      \/ cmd.kind = "ack" /\ Retrying(s.visible) /\ s.obs # None /\ s.obs.run # None
  BY <1>1, ReadIdle
<1>4. /\ cmd.kind \in { "refresh", "loss" } => Become(Finish(s))
      /\ cmd.kind = "reconcile" => Become(Settled(s))
      /\ cmd.kind = "retry" => IF Due(s) THEN Become(Step(s, "ask")) ELSE Become(Finish(s))
      /\ cmd.kind = "ack" => IF Unacknowledged(s) THEN Become(Finish(Save(s, g))) ELSE Become(Finish(s))
  BY DEF ReadEnds
<1>5. cmd.kind \in { "refresh", "retry", "ack", "loss", "reconcile" }
  BY <1>1 DEF Command
<1> HIDE DEF s, g
<1>6. s.row = row /\ s.visible \in { None, s.budget }
  BY <1>2, Fields DEF Rest, Core
<1>7. Idle(s, World) => Finish(s) \in Stores /\ Sound(Finish(s), World)
  BY <1>1, <1>2, <1>6, EndsSound
<1>8. ASSUME NEW t \in Stores, Become(t), Sound(t, World)
      PROVE  Accounted'
  BY <1>1, <1>8, Facts, Steps, Moved
<1>9. CASE cmd.kind \in { "refresh", "loss" }
  BY <1>3, <1>4, <1>7, <1>8, <1>9
<1>10. CASE cmd.kind = "reconcile"
  <2>1. Settled(s) \in Stores /\ Sound(Settled(s), World)
    BY <1>2, <1>3, <1>6, <1>10, Facts, SettledSound
  <2> QED BY <1>4, <1>8, <1>10, <2>1
<1>11. CASE cmd.kind = "retry"
  <2>1. row # "error" /\ obs # None
    BY <1>1, <1>11, Facts, Fields DEF Sound, Doing
  <2>2. CASE Due(s)
    <3> DEFINE t == Step(s, "ask")
    <3>1. s.cmd = cmd /\ s.obs # None /\ row \in { "bound", "starting", "error" }
      BY <1>1, <1>2, <1>6, <2>1, Fields DEF Rest, Watchable, Stores
    <3>2. Scheduled(s.visible) /\ cmd.same /\ s.budget = s.visible
      BY <1>6, <2>2 DEF Due, Scheduled
    <3>3. row = "bound"
      BY <1>2, <3>1, <3>2 DEF Scheduled, Live
    <3>4. cmd.live
      BY <1>1, <2>1, Facts, Fields DEF Sound, Doing
    <3>5. /\ t \in Stores /\ SameRow(s, t) /\ t.obs = s.obs /\ t.cmd # None /\ t.cmd.kind = "retry" /\ t.cmd.live
          /\ t.cmd.same /\ t.cmd.step = "ask"
      BY <1>1, <1>2, <1>11, <3>1, <3>2, <3>4, StepSpec
    <3>6. t.queue = s.queue
      BY <1>2 DEF Step, Stores
    <3> HIDE DEF t
    <3>7. Base(t, World) /\ RowFits(t)
      BY <1>2, <1>6, <3>3, <3>5, <3>6 DEF Base, RowFits, SameRow, Jobs
    <3>8. Doing(t)
      BY <1>6, <3>1, <3>2, <3>3, <3>5 DEF Doing, SameRow
    <3>9. Announced(t, World)
      BY <3>5 DEF Announced, Busy
    <3> QED BY <1>4, <1>8, <1>11, <2>2, <3>5, <3>7, <3>8, <3>9 DEF Sound, t
  <2>3. CASE ~Due(s)
    BY <1>3, <1>4, <1>7, <1>8, <1>11, <2>3 DEF Due, Scheduled
  <2> QED BY <2>2, <2>3
<1>12. CASE cmd.kind = "ack"
  <2>1. CASE Unacknowledged(s)
    <3> DEFINE t == Save(s, g)
    <3>1. s.visible \in Failure /\ s.visible = s.budget /\ s.visible # None
      BY <1>2, <1>6, <2>1 DEF Unacknowledged, Stores
    <3>2. g \in Failure /\ g # None /\ g.code = s.budget.code /\ ~Live(g)
      BY <3>1, StatusSet DEF g
    <3>3. Known(g, World)
      BY <1>2, <3>1, <3>2 DEF Base, Known
    <3>4. Base(t, World) /\ Passes(s, t) /\ Calm(t) /\ ~Live(t.budget)
      BY <1>2, <3>2, <3>3, Facts, SaveStopped DEF Base, Follows
    <3>5. t \in Stores /\ t.row = s.row
      BY <1>2, <3>2, Facts, SaveSpec
    <3> HIDE DEF t
    <3>6. Idle(t, World) /\ Passes(Here, t)
      BY <1>2, <3>4, PassesTrans DEF Calm, Idle
    <3>7. Finish(t) \in Stores /\ Sound(Finish(t), World)
      BY <1>1, <1>6, <3>4, <3>5, <3>6, EndsSound
    <3> QED BY <1>4, <1>8, <1>12, <2>1, <3>7 DEF t
  <2>2. CASE ~Unacknowledged(s)
    <3>1. ~(Retrying(s.visible) /\ s.obs # None /\ s.obs.run # None)
      BY <1>2, <2>2 DEF Unacknowledged, Base, Follows, Live, Retrying
    <3> QED BY <1>3, <1>4, <1>7, <1>8, <1>12, <2>2, <3>1
  <2> QED BY <2>1, <2>2
<1> QED BY <1>5, <1>9, <1>10, <1>11, <1>12

-----------------------------------------------------------------------------
(***************************************************************************)
(* The second invariant: the checks, the relaunch and the answer.          *)
(***************************************************************************)
LEMMA BlockedCalm ==
  ASSUME NEW s \in Stores, NEW e, Core(s, e), Base(s, e), e.now = now, now \in Nat, turn \in BOOLEAN,
         NEW relaunchFailed \in BOOLEAN, s.visible # None, s.visible.status = "scheduled"
  PROVE  \A t : t = Blocked(s, relaunchFailed) => t \in Stores /\ t.row = s.row /\ Base(t, e) /\ Passes(s, t) /\ Calm(t)
<1> DEFINE f == s.visible
           attempts == f.attempts + 1
           next == [f EXCEPT !.attempts = attempts, !.next = now + Delays[attempts + 1]]
           tried == [f EXCEPT !.attempts = attempts]
           saved == Save(s, next)
           t == Blocked(s, relaunchFailed)
<1>1. f \in Failure /\ f # None /\ f = s.budget /\ f.status = "scheduled"
  BY DEF Stores, Core
<1>2. attempts \in 0..Len(Delays)
  BY <1>1, LenType DEF Core, FailureOK, Failure
<1>3. \/ attempts < Len(Delays) /\ t = Schedule(saved, next)
      \/ t = Save(s, Stopped(tried))
      \/ t = Save(s, Stopped(f))
  BY DEF Blocked
<1>4. tried \in Failure /\ tried.code = f.code
  BY <1>1, <1>2 DEF Failure
<1>5. t \in Stores /\ t.row = s.row
  BY BlockedKeeps DEF Rest
<1>6. ASSUME NEW g \in Failure, g.code = f.code
      PROVE  Base(Save(s, Stopped(g)), e) /\ Passes(s, Save(s, Stopped(g))) /\ Calm(Save(s, Stopped(g)))
  <2>1. Stopped(g) \in Failure /\ ~Live(Stopped(g)) /\ Stopped(g).code = f.code
    BY <1>6, StoppedType DEF Live
  <2>2. Known(Stopped(g), e)
    BY <1>1, <2>1 DEF Known, Base
  <2> QED BY <2>1, <2>2, SaveStopped DEF Base, Follows
<1>7. ASSUME attempts < Len(Delays)
      PROVE  Base(Schedule(saved, next), e) /\ Passes(s, Schedule(saved, next)) /\ Calm(Schedule(saved, next))
  <2>1. now + Delays[attempts + 1] \in Nat
    <3>1. attempts + 1 \in 1..Len(Delays)
      BY <1>2, <1>7, LenType
    <3> QED BY <3>1, DelayType
  <2>2. next \in Failure /\ next.turn = f.turn /\ next.code = f.code /\ next.status = "scheduled"
    BY <1>1, <1>2, <2>1 DEF Failure, Times
  <2> HIDE DEF next, attempts
  <2>3. Known(next, e) /\ Follows(s.obs, next, e)
    BY <1>1, <2>2 DEF Known, Base, Follows, Live
  <2>4. Jobs(s) /\ (s.row = "error" => s.obs = None)
    BY DEF Base
  <2>5. Base(saved, e) /\ Passes(s, saved)
    BY <2>2, <2>3, <2>4, SaveBase
  <2>6. saved \in Stores /\ saved.visible = next /\ saved.budget = next
    BY <2>2, SaveSpec
  <2> HIDE DEF saved
  <2>7. Base(Schedule(saved, next), e) /\ Passes(saved, Schedule(saved, next)) /\ Calm(Schedule(saved, next))
    BY <2>2, <2>5, <2>6, ScheduleCalm
  <2> QED BY <2>5, <2>7, PassesTrans
<1> HIDE DEF next, saved, tried, t
<1>8. Base(t, e) /\ Passes(s, t) /\ Calm(t)
  BY <1>1, <1>3, <1>4, <1>6, <1>7
<1> QED BY <1>5, <1>8 DEF t

LEMMA SubmittingSound ==
  ASSUME NEW s \in Stores, NEW e, Core(s, e), Base(s, e), e.now = now, now \in Nat, turn \in BOOLEAN, NEW sent \in BOOLEAN,
         s.cmd # None, s.cmd.kind = "retry", s.cmd.live, s.cmd.same, s.row = "bound", s.obs # None,
         s.visible # None, s.visible.status = "scheduled"
  PROVE  \A t : t = Submitting(s, sent) => t \in Stores /\ Sound(t, e)
<1> DEFINE f == s.visible
           n == f.attempts + 1
           g == [f EXCEPT !.attempts = n, !.status = "retrying", !.next = 0, !.submitted = now]
           saved == Save(s, g)
           a == Step(saved, "submit")
           t == Submitting(s, sent)
<1>1. f \in Failure /\ f # None /\ f = s.budget /\ f.status = "scheduled"
  BY DEF Stores, Core
<1>2. n \in 0..Len(Delays)
  BY <1>1, LenType DEF Core, FailureOK, Failure
<1>3. t = [a EXCEPT !.cmd.sent = sent]
  BY DEF Submitting
<1> HIDE DEF n
<1>4. g \in Failure /\ g.turn = f.turn /\ g.code = f.code /\ g.status = "retrying"
  BY <1>1, <1>2 DEF Failure, Times
<1>5. g # None
  BY <1>4, NoneAssumption
<1> HIDE DEF g
<1>6. Known(g, e) /\ Follows(s.obs, g, e)
  BY <1>1, <1>4 DEF Known, Base, Follows, Live
<1>7. /\ Base(saved, e) /\ Passes(s, saved) /\ saved \in Stores /\ saved.row = s.row /\ saved.visible = g /\ saved.budget = g
      /\ saved.cmd = s.cmd /\ saved.obs = s.obs
  BY <1>4, <1>6, SaveBase, SaveSpec DEF Base, Watchable
<1> HIDE DEF saved
<1>8. a \in Stores /\ SameRow(saved, a) /\ a.obs = saved.obs /\ a.queue = saved.queue
  <2>1. a.queue = saved.queue
    BY <1>7 DEF Step, Stores
  <2> QED BY <1>7, <2>1, StepSpec
<1> HIDE DEF a
<1> DEFINE c == [a.cmd EXCEPT !.sent = sent]
           b == [a EXCEPT !.cmd = c]
<1>9. c \in Command /\ c # None /\ c.kind = "retry" /\ c.live /\ c.same /\ c.step = "submit"
  <2>1. a.cmd = [saved.cmd EXCEPT !.step = "submit"]
    BY <1>7 DEF Step, Stores, a
  <2>2. saved.cmd \in Command
    BY <1>7 DEF Stores
  <2>3. a.cmd \in Command /\ a.cmd.kind = "retry" /\ a.cmd.live /\ a.cmd.same /\ a.cmd.step = "submit"
    BY <1>7, <2>1, <2>2 DEF Command
  <2>4. c \in Command /\ c.kind = "retry" /\ c.live /\ c.same /\ c.step = "submit"
    BY <2>3 DEF Command
  <2> QED BY <2>4, NoneAssumption
<1>10. t = b
  BY <1>3, <1>8 DEF Stores
<1> HIDE DEF c, t
<1>11. /\ t \in Stores /\ t.row = "bound" /\ t.obs = s.obs /\ t.queue = saved.queue /\ t.visible = g /\ t.budget = g
       /\ t.cmd # None /\ t.cmd.kind = "retry" /\ t.cmd.same /\ t.cmd.step = "submit" /\ t.cmd.live
  <2>1. b \in Stores /\ SameRow(a, b) /\ b.obs = a.obs /\ b.cmd = c /\ b.queue = a.queue
    BY <1>8, <1>9, CmdSet
  <2> QED BY <1>7, <1>8, <1>9, <1>10, <2>1 DEF SameRow
<1>12. Base(t, e)
  BY <1>7, <1>11 DEF Base, Jobs
<1>13. RowFits(t) /\ Doing(t) /\ Announced(t, e)
  BY <1>4, <1>5, <1>11 DEF RowFits, Doing, Announced, Busy, Retrying
<1> QED BY <1>11, <1>12, <1>13 DEF Sound, t

LEMMA CheckedSound ==
  ASSUME Accounted, Answered', NEW s \in Stores, Core(s, Meanwhile), Base(s, Meanwhile), s.cmd # None, s.cmd.kind = "retry",
         s.row \in { "bound", "error" }, s.row = "bound" => s.obs # None /\ s.cmd.live, NEW ready \in BOOLEAN,
         s.row = "error" => ~ready, ~s.cmd.same => ~Live(s.budget), s.cmd.same /\ s.row = "bound" => Scheduled(s.visible),
         NEW relaunchFailed \in BOOLEAN, Checked(s, ready, relaunchFailed), now' = now
  PROVE  Accounted'
<1>1. now \in Nat /\ turn \in BOOLEAN /\ Meanwhile.now = now
  BY Facts, MeanwhileFields
<1>2. ASSUME NEW t \in Stores, Become(t), Sound(t, Meanwhile)
      PROVE  Accounted'
  <2>1. Moves(Meanwhile, World')
    BY FactsNext, NextFields, MeanwhileFields DEF Moves
  <2>2. Sound(t, World')
    BY <1>2, <2>1, FactsNext, NextFields, MeanwhileFields, Facts, SoundWorld
  <2> QED BY <1>2, <2>2, ClosesToo
<1>3. ASSUME NEW t \in Stores, t.row = s.row, Base(t, Meanwhile), Idle(t, Meanwhile), Become(Finish(t))
      PROVE  Accounted'
  <2>1. t.row # "bound" => t.obs = None
    BY <1>3 DEF Base
  <2>2. Finish(t) \in Stores /\ Sound(Finish(t), Meanwhile)
    BY <1>3, <2>1, FinishSound
  <2> QED BY <1>2, <1>3, <2>2
<1>4. CASE ~StillScheduled(s)
  <2>1. s.row = "bound" => ~Live(s.visible)
    BY <1>4 DEF StillScheduled, Scheduled, Live, Core
  <2>2. Idle(s, Meanwhile)
    BY <2>1 DEF Idle, Base
  <2> QED BY <1>3, <1>4, <2>2 DEF Checked
<1>5. CASE StillScheduled(s)
  <2>1. s.visible # None /\ s.visible.status = "scheduled" /\ s.cmd.live /\ s.cmd.same
    BY <1>5 DEF StillScheduled
  <2>2. ASSUME Become(Finish(Blocked(s, relaunchFailed)))
        PROVE  Accounted'
    <3> DEFINE t == Blocked(s, relaunchFailed)
    <3>1. t \in Stores /\ t.row = s.row /\ Base(t, Meanwhile) /\ Calm(t)
      BY <1>1, <2>1, BlockedCalm
    <3> HIDE DEF t
    <3>2. Idle(t, Meanwhile)
      BY <3>1 DEF Calm, Idle
    <3> QED BY <1>3, <2>2, <3>1, <3>2 DEF t
  <2>3. ASSUME ready, NEW sent \in BOOLEAN, Become(Submitting(s, sent))
        PROVE  Accounted'
    <3> DEFINE t == Submitting(s, sent)
    <3>1. s.row = "bound"
      BY <2>3
    <3>2. t \in Stores /\ Sound(t, Meanwhile)
      BY <1>1, <2>1, <3>1, SubmittingSound
    <3> HIDE DEF t
    <3> QED BY <1>2, <2>3, <3>2 DEF t
  <2> QED BY <1>5, <2>2, <2>3 DEF Checked
<1> QED BY <1>4, <1>5

LEMMA ChecksEndAccounted ==
  ASSUME Accounted, Answered', ChecksEnd
  PROVE  Accounted'
<1>1. /\ cmd # None /\ cmd.step = "ask" /\ cmd.kind = "retry" /\ row = "bound" /\ obs # None /\ cmd.live
      /\ ~cmd.same => ~Live(budget)
      /\ cmd.same => Scheduled(visible)
  BY Facts, Fields DEF Accounted, Answered, Commands, ChecksEnd, Sound, Doing
<1>2. UNCHANGED << now, native, turns, turn, alive, stopped, cancellation >>
  BY DEF ChecksEnd, clock
<1>3. Meanwhile = World
  BY <1>2 DEF Meanwhile, World
<1>4. ASSUME NEW ready \in BOOLEAN, Checked(Here, ready, FALSE)
      PROVE  Accounted'
  BY <1>1, <1>2, <1>3, <1>4, Facts, Fields, CheckedSound DEF Sound
<1>5. ASSUME Become(Relaunching(Here))
      PROVE  Accounted'
  <2>1. Relaunching(Here) \in Stores /\ Sound(Relaunching(Here), World)
    BY <1>1, Facts, Fields, RelaunchingSound DEF Sound
  <2> QED BY <1>2, <1>5, <2>1, Facts, Steps, Moved
<1>6. (~turn) \in BOOLEAN
  OBVIOUS
<1>7. (\E ready \in BOOLEAN : Checked(Here, ready, FALSE)) \/ Become(Relaunching(Here))
  BY <1>6 DEF ChecksEnd
<1> QED BY <1>4, <1>5, <1>7

LEMMA FoundSound ==
  ASSUME Accounted, Answered', RelaunchSucceeds
  PROVE  Base(Found, Meanwhile) /\ (cmd.kind # "retry" => Idle(Found, Meanwhile)) /\ Found.budget = budget
<1> DEFINE b == Restored
           s == Publish(b)
           w == [s EXCEPT !.working = ~HoldsDown(s.visible)]
<1>1. b \in Stores /\ b.row = "bound" /\ b.visible = visible /\ b.budget = budget /\ b.obs = obs /\ b.cmd = cmd /\ b.queue = queue
  BY Facts, Fields DEF Stores, Restored
<1>2. cmd # None /\ cmd.step = "relaunch" /\ now' = now /\ turns' = turns
  BY DEF RelaunchSucceeds, clock
<1>3. Moves(World, Meanwhile)
  <2>1. CASE Adopts
    BY <1>2, <2>1, AdoptsMoves, Facts, Fields, MeanwhileFields, NextFields DEF Moves
  <2>2. CASE native' = native
    BY <1>2, <2>2, Facts, Fields, MeanwhileFields DEF Moves
  <2> QED BY <2>1, <2>2 DEF RelaunchSucceeds
<1> HIDE DEF b
<1>4. Base(b, World) /\ b.visible \in { None, b.budget }
  BY <1>1, Facts, Fields DEF Sound, Base, Jobs
<1>5. cmd.kind # "retry" => Idle(b, World)
  <2>1. ~Busy(Here, World) \/ cmd.kind = "retry"
    BY <1>2, Fields DEF Busy, ReadsFor
  <2> QED BY <1>1, <2>1, Facts, Fields DEF Sound, Announced, Idle, Ticking, Queued, HasJob
<1>6. /\ s \in Stores /\ SameRow(b, s) /\ Base(s, World) /\ MoreJobs(b, s) /\ (b.obs = None => HasJob(s, "refresh"))
      /\ s.obs = (IF b.obs = None THEN First(b) ELSE b.obs)
  BY <1>1, <1>4, Facts, PublishSpec, PublishBase, PublishJobs DEF Watchable, Base
<1>7. b.obs = None => s.obs.run = None
  BY <1>1, <1>6, Facts, FirstType
<1> HIDE DEF s
<1>8. cmd.kind # "retry" => Idle(s, World)
  BY <1>5, <1>6, <1>7 DEF Idle, Ticking, Queued, SameRow, MoreJobs
<1>9. w \in Stores /\ w.row = s.row /\ w.visible = s.visible /\ w.budget = s.budget /\ w.obs = s.obs /\ w.queue = s.queue
  <2>1. (~HoldsDown(s.visible)) \in BOOLEAN
    BY DEF HoldsDown
  <2> QED BY <1>6, <2>1 DEF Stores
<1> DEFINE c == Changed(w)
<1>10. Found = IF turn' THEN c ELSE s
  BY DEF Found, w, s, b
<1> HIDE DEF w
<1>11. Base(w, World) /\ (cmd.kind # "retry" => Idle(w, World))
  BY <1>6, <1>8, <1>9 DEF Base, Jobs, Idle, Ticking, Queued, HasJob
<1>12. c \in Stores /\ SameRow(w, c) /\ c.obs = w.obs /\ MoreJobs(w, c) /\ Passes(w, c)
  BY <1>9, <1>11, ChangedSpec, ChangedJobs DEF Base
<1> HIDE DEF c
<1>13. Base(c, World) /\ (cmd.kind # "retry" => Idle(c, World))
  BY <1>11, <1>12 DEF Base, Passes, SameRow, Idle, Ticking, Queued, MoreJobs
<1>14. /\ Found \in Stores /\ Base(Found, World) /\ (cmd.kind # "retry" => Idle(Found, World))
       /\ Found.budget = budget
  BY <1>1, <1>6, <1>8, <1>9, <1>10, <1>12, <1>13 DEF SameRow
<1>15. Base(Found, Meanwhile)
  BY <1>3, <1>14, Facts, FactsNext, Fields, MeanwhileFields, BaseWorld
<1>16. Idle(Found, World) => Idle(Found, Meanwhile)
  BY <1>2, <1>14, Facts, Fields, MeanwhileFields, AnnouncedWorld
<1> QED BY <1>14, <1>15, <1>16

LEMMA RelaunchSucceedsAccounted ==
  ASSUME Accounted, Answered', RelaunchSucceeds
  PROVE  Accounted'
<1>1. /\ Found \in Stores /\ Core(Found, Meanwhile) /\ Found.row = "bound" /\ Found.visible = visible /\ Found.cmd = cmd
      /\ turn' \in BOOLEAN /\ obs # None => Found.obs # None
      /\ IF cmd.kind = "retry" THEN Checked(Found, unattended /\ ~turn', FALSE) ELSE Become(Finish(Found)) /\ Unsent
  BY FoundSpec DEF Accounted
<1>2. Base(Found, Meanwhile) /\ (cmd.kind # "retry" => Idle(Found, Meanwhile)) /\ Found.budget = budget
  BY FoundSound
<1>3. cmd # None /\ cmd.step = "relaunch" /\ now' = now
  BY DEF RelaunchSucceeds, clock
<1>4. CASE cmd.kind = "retry"
  <2>1. /\ obs # None /\ cmd.live /\ (~cmd.same => ~Live(budget))
        /\ cmd.same => Scheduled(visible)
    BY <1>3, <1>4, Facts, Fields DEF Sound, Doing
  <2>2. (unattended /\ ~turn') \in BOOLEAN
    BY <1>1, Given DEF Outer, Accounted
  <2>3. Checked(Found, unattended /\ ~turn', FALSE)
    BY <1>1, <1>4
  <2>4. Found.obs # None
    BY <2>1, FoundSpec DEF Accounted
  <2> QED BY <1>1, <1>2, <1>3, <1>4, <2>1, <2>2, <2>3, <2>4, CheckedSound
<1>5. CASE cmd.kind # "retry"
  <2>1. Finish(Found) \in Stores /\ Sound(Finish(Found), Meanwhile)
    BY <1>1, <1>2, <1>5, FinishSound
  <2>2. Become(Finish(Found)) /\ Unsent
    BY <1>1, <1>5
  <2>3. World' = Meanwhile
    BY <2>2, MeanwhileFields DEF Unsent
  <2> QED BY <2>1, <2>2, <2>3, ClosesToo
<1> QED BY <1>4, <1>5

LEMMA RelaunchFailsAccounted ==
  ASSUME Accounted, Answered', RelaunchFails
  PROVE  Accounted'
<1> DEFINE b == [Here EXCEPT !.row = "error"]
           s == IF row = "error" THEN Here ELSE Publish(b)
<1>1. /\ cmd # None /\ cmd.step = "relaunch"
      /\ cmd.kind = "retry" => row = "starting"
      /\ ~cmd.same => ~Live(budget)
  BY Facts, Fields DEF Sound, Doing, RelaunchFails
<1>2. UNCHANGED << now, native, turns, turn, alive, cancellation, stopped >>
  BY DEF RelaunchFails, clock
<1>3. Meanwhile = World
  BY <1>2 DEF Meanwhile, World
<1>4. IF cmd.kind = "retry" THEN Checked(s, FALSE, TRUE) ELSE Become(Finish(s)) /\ Unsent
  BY DEF RelaunchFails
<1>5. /\ b \in Stores /\ b.row = "error" /\ b.visible = visible /\ b.budget = budget /\ b.obs = obs /\ b.cmd = cmd /\ b.queue = queue
      /\ b.cmd \in Command \cup {None}
  BY Facts, Fields DEF Stores
<1> HIDE DEF b
<1>6. Jobs(b) /\ Core(b, World)
  BY <1>5, Facts, Fields, CoreSame DEF Sound, Base, Jobs
<1>7. /\ Publish(b) \in Stores /\ Core(Publish(b), World) /\ SameRow(b, Publish(b)) /\ Publish(b).obs = None
      /\ Publish(b).cmd = Detached(cmd) /\ Jobs(Publish(b))
  BY <1>5, <1>6, Facts, PublishSpec, PublishKeeps, PublishJobs DEF Watchable, Passes
<1>8. Detached(cmd) # None /\ Detached(cmd).kind = cmd.kind /\ Detached(cmd).same = cmd.same
  BY <1>1, <1>5, DetachedType
<1>9. /\ s \in Stores /\ Core(s, World) /\ s.row = "error" /\ s.obs = None /\ s.budget = budget /\ Jobs(s)
      /\ s.cmd # None /\ s.cmd.kind = cmd.kind /\ s.cmd.same = cmd.same
  BY <1>1, <1>5, <1>7, <1>8, Facts, Fields DEF SameRow, Sound, Base
<1> HIDE DEF s
<1>10. Base(s, World)
  BY <1>9, Facts, Fields DEF Sound, Base, Follows
<1>11. CASE cmd.kind = "retry"
  <2>1. Checked(s, FALSE, TRUE)
    BY <1>4, <1>11
  <2> QED BY <1>1, <1>2, <1>3, <1>9, <1>10, <1>11, <2>1, CheckedSound
<1>12. CASE cmd.kind # "retry"
  <2>1. Finish(s) \in Stores /\ Sound(Finish(s), World)
    BY <1>9, <1>10, FinishSound DEF Idle
  <2> QED BY <1>2, <1>4, <1>12, <2>1, Facts, Steps, Moved
<1> QED BY <1>11, <1>12

LEMMA SubmitEndsAccounted ==
  ASSUME Accounted, Answered', SubmitEnds
  PROVE  Accounted'
<1>1. /\ cmd # None /\ cmd.step = "submit" /\ row = "bound" /\ obs # None /\ cmd.live
      /\ ~cmd.same => ~Live(budget) /\ ~Live(visible)
      /\ cmd.same => Retrying(visible)
  BY Facts, Fields DEF Sound, Doing, SubmitEnds, Live
<1>2. now' = now /\ native' = native /\ turns' = turns
  BY DEF SubmitEnds, clock, provider
<1>3. ASSUME NEW t \in Stores, t.row = row, Base(t, World), Idle(t, World), Become(Finish(t))
      PROVE  Accounted'
  <2>1. Finish(t) \in Stores /\ Sound(Finish(t), World)
    BY <1>1, <1>3, FinishSound
  <2> QED BY <1>2, <1>3, <2>1, Facts, Steps, Moved
<1>4. /\ Here \in Stores /\ Base(Here, World) /\ Core(Here, World) /\ now \in Nat /\ turn \in BOOLEAN
      /\ visible # None => visible \in Failure /\ visible = budget
  BY Facts, Fields DEF Sound, Stores
<1>5. ~Live(visible) => Idle(Here, World)
  BY Fields DEF Idle
<1>6. CASE Become(Finish(Submitted(Here)))
  <2> DEFINE told == [Here EXCEPT !.working = TRUE]
             timer == [kind |-> "ack", due |-> now + AckWait]
             armed == [told EXCEPT !.obs.timer = timer]
  <2>1. Submitted(Here) = IF cmd.same /\ Retrying(visible) THEN armed ELSE told
    BY <1>1, Fields DEF Submitted, Retrying
  <2>2. /\ told \in Stores /\ told.row = row /\ told.visible = visible /\ told.budget = budget /\ told.obs = obs /\ told.queue = queue
    BY <1>4, Fields DEF Stores
  <2>3. timer \in Timer /\ timer.kind = "ack"
    BY <1>4, Bounds DEF Timer, Times
  <2>4. timer # None
    BY <2>3, NoneAssumption
  <2> HIDE DEF told, timer
  <2>5. Base(told, World)
    BY <1>4, <2>2, Fields DEF Base, Jobs
  <2>6. CASE cmd.same
    <3>1. armed \in Stores /\ SameRow(told, armed) /\ SameObs(told.obs, armed.obs) /\ armed.obs.timer = timer /\ armed.queue = told.queue
      BY <1>1, <2>2, <2>3, TimerSet
    <3> HIDE DEF armed
    <3>2. Base(armed, World)
      BY <2>5, <3>1 DEF Base, Jobs, SameRow, SameObs, Follows
    <3>3. Idle(armed, World)
      BY <1>1, <2>2, <2>3, <2>4, <2>6, <3>1 DEF Idle, Ticking, SameRow, Scheduled, Retrying
    <3> QED BY <1>1, <1>3, <1>6, <2>1, <2>2, <2>6, <3>1, <3>2, <3>3 DEF SameRow
  <2>7. CASE ~cmd.same
    <3>1. Idle(told, World)
      BY <1>1, <2>2, <2>7 DEF Idle
    <3> QED BY <1>3, <1>6, <2>1, <2>2, <2>5, <2>7, <3>1
  <2> QED BY <2>6, <2>7
<1>7. CASE Become(Finish(Deferred(Here)))
  <2> DEFINE f == visible
             given == f.attempts - 1
             delay == Delays[IF given < Len(Delays) THEN given + 1 ELSE Len(Delays)]
             next == [f EXCEPT !.attempts = given, !.status = "scheduled", !.submitted = 0, !.next = now + delay]
             saved == Save(Here, next)
             t == Schedule(saved, next)
  <2>1. Deferred(Here) = IF cmd.same /\ Retrying(visible) THEN t ELSE Here
    BY <1>1, Fields DEF Deferred, Retrying
  <2>2. CASE ~cmd.same
    BY <1>1, <1>3, <1>4, <1>5, <1>7, <2>1, <2>2, Fields
  <2>3. CASE cmd.same
    <3>1. f \in Failure /\ f # None /\ f = budget /\ f.attempts >= 1 /\ f.status = "retrying"
      BY <1>1, <1>4, <2>3, Fields DEF Core, FailureOK, Retrying
    <3>2. given \in 0..Len(Delays) /\ given < Len(Delays)
      BY <3>1, LenType DEF Failure
    <3> HIDE DEF given
    <3>3. now + delay \in Nat
      <4>1. given + 1 \in 1..Len(Delays)
        BY <3>2, LenType
      <4>2. delay = Delays[given + 1]
        BY <3>2
      <4> QED BY <1>4, <4>1, <4>2, DelayType
    <3> HIDE DEF delay
    <3>4. next \in Failure /\ next.turn = f.turn /\ next.code = f.code /\ next.status = "scheduled"
      BY <3>1, <3>2, <3>3 DEF Failure, Times
    <3> HIDE DEF next
    <3>5. Known(next, World) /\ Follows(obs, next, World)
      BY <1>4, <3>1, <3>4, Fields DEF Base, Known, Follows, Live
    <3>6. Base(saved, World) /\ saved \in Stores /\ saved.visible = next /\ saved.budget = next /\ saved.row = row
      BY <1>1, <1>4, <3>4, <3>5, Fields, SaveBase, SaveSpec DEF Base
    <3> HIDE DEF saved
    <3>7. Base(t, World) /\ Calm(t)
      BY <1>4, <3>4, <3>6, ScheduleCalm
    <3>8. t \in Stores /\ t.row = row
      BY <1>4, <3>4, <3>6, ScheduleRest DEF Rest
    <3> HIDE DEF t
    <3>9. Idle(t, World)
      BY <3>7 DEF Calm, Idle
    <3> QED BY <1>1, <1>3, <1>7, <2>1, <2>3, <3>7, <3>8, <3>9
  <2> QED BY <2>2, <2>3
<1>8. CASE Become(Finish(GivenUp(Here)))
  <2> DEFINE f == [visible EXCEPT !.status = "stopped", !.next = 0]
             t == Save(Here, f)
  <2>1. GivenUp(Here) = IF visible # None /\ visible.status # "stopped" THEN t ELSE Here
    BY Fields DEF GivenUp
  <2>2. CASE ~(visible # None /\ visible.status # "stopped")
    <3>1. ~Live(visible)
      BY <2>2 DEF Live
    <3> QED BY <1>3, <1>4, <1>5, <1>8, <2>1, <2>2, <3>1, Fields
  <2>3. CASE visible # None /\ visible.status # "stopped"
    <3>1. f \in Failure /\ f.status = "stopped" /\ f.code = visible.code
      BY <1>4, <2>3 DEF Failure, Times
    <3> HIDE DEF f
    <3>2. ~Live(f) /\ Known(f, World)
      BY <1>4, <2>3, <3>1, Fields DEF Live, Known, Base
    <3>3. /\ Jobs(Here) /\ (Here.row = "error" => Here.obs = None)
          /\ Here.obs # None /\ Here.obs.run # None => Here.obs.run.turn <= World.turns \/ Here.obs.run.turn > MaxTurns
      BY <1>4 DEF Base, Follows
    <3>4. Base(t, World) /\ Calm(t)
      BY <1>4, <3>1, <3>2, <3>3, SaveStopped
    <3>5. t \in Stores /\ t.row = row
      BY <1>4, <3>1, Fields, SaveSpec
    <3> HIDE DEF t
    <3>6. Idle(t, World)
      BY <3>4 DEF Calm, Idle
    <3> QED BY <1>3, <1>8, <2>1, <2>3, <3>4, <3>5, <3>6
  <2> QED BY <2>2, <2>3
<1> QED BY <1>6, <1>7, <1>8 DEF SubmitEnds

LEMMA AccountedStep ==
  ASSUME Accounted, [Next]_vars
  PROVE  Accounted'
<1>1. Answered'
  BY AnsweredStep DEF Accounted
<1>2. CASE UNCHANGED vars
  <2>1. Here' = Here /\ World' = World
    BY <1>2 DEF vars, clock, provider, durable, memory, history, Here, World
  <2> QED BY <1>1, <2>1 DEF Accounted
<1>3. CASE \E e \in Ends : TurnEnds(e[1], e[2])
  <2>1. PICK e \in Ends : TurnEnds(e[1], e[2])
    BY <1>3
  <2>2. e[1] \in { "completed", "cancelled", "failed" } /\ e[2] \in { "none", "transient", "permanent" }
    BY DEF Ends
  <2> QED BY <1>1, <2>1, <2>2, TurnEndsAccounted
<1>4. CASE CommandStep
  BY <1>1, <1>4, BeginRunAccounted, BeginLossAccounted, BeginReconcileAccounted, AdoptSurvivorAccounted, ReadEndsAccounted,
     ChecksEndAccounted, RelaunchSucceedsAccounted, RelaunchFailsAccounted, SubmitEndsAccounted DEF CommandStep
<1>5. CASE Tick \/ TurnStarts \/ ItemCompleted \/ ConnectionLost \/ Cancel \/ Permit \/ TimerFires \/ Reconcile \/ Restart
  BY <1>1, <1>5, TickAccounted, TurnStartsAccounted, ItemCompletedAccounted, ConnectionLostAccounted, CancelAccounted,
     PermitAccounted, TimerFiresAccounted, ReconcileAccounted, RestartAccounted
<1> QED BY <1>2, <1>3, <1>4, <1>5 DEF Next

\* Once the command chain is empty, a retry the row announces has the timer that makes it, and a
\* submitted one the timer that checks its acknowledgment (refresh(), schedule() and submit()).
THEOREM RetryIsKept == Spec => []AnnouncedRetryHasTimer
<1>1. Accounted => AnnouncedRetryHasTimer
  <2> SUFFICES ASSUME Accounted, AtRest, Status \in { "scheduled", "retrying" }, obs # None
               PROVE  obs.timer # None
    BY DEF AnnouncedRetryHasTimer
  <2>1. Live(visible)
    BY DEF Status, Live
  <2>2. ~Busy(Here, World)
    BY Fields DEF AtRest, Busy
  <2>3. ~Queued(Here, World)
    BY Fields DEF AtRest, Queued, HasJob
  <2> QED BY <2>1, <2>2, <2>3, Facts, Fields DEF Sound, Announced, Ticking
<1> QED BY <1>1, InitAccounted, AccountedStep, PTL DEF Spec

=============================================================================
