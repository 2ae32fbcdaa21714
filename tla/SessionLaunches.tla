-------------------------- MODULE SessionLaunches --------------------------
(***************************************************************************)
(* Sessions that an agent starts, restarts and closes under a grant of the *)
(* person (grants/session-launches.ts), with the part of the session       *)
(* manager that carries the requests out (bindConversation,                *)
(* restartGrantedSession, closeGrantedSession).                            *)
(*                                                                         *)
(* A request is a row on disk.  One drain at a time lists the rows that    *)
(* are queued or starting and takes them in turn, awaiting the project,    *)
(* the start or the reload of the provider session and the delivery of its *)
(* opening task.  Meanwhile the grant is revoked, the requester finishes   *)
(* or cancels, the person speaks to the session, pauses or releases it, and *)
(* the backend dies: the next one goes by the request row, the session row *)
(* and the load epoch it finds.                                            *)
(***************************************************************************)
EXTENDS Integers, FiniteSets

CONSTANTS Launches,    \* launch requests; each reserves the session of its name
          Restarts,    \* restart requests
          Closes,      \* close requests
          NoReq,
          MaxEpoch,    \* bound: loads of one session
          MaxFaults    \* bound: deaths of the backend, lost connections

Reqs     == Launches \cup Restarts \cup Closes
Sessions == Launches

ASSUME RequestAssumption ==
    /\ NoReq \notin Reqs
    /\ Launches \cap Restarts = {} /\ Launches \cap Closes = {} /\ Restarts \cap Closes = {}
ASSUME BoundAssumption == MaxEpoch \in Nat /\ MaxFaults \in Nat

VARIABLES
  req,        \* status of each request
  at,         \* the session a request is about
  since,      \* the load epoch a restart was asked in (previousEpoch)
  granted,    \* the grant is active
  finished,   \* the requesting assignment is finished
  row,        \* status of each session row
  adopted,    \* the row has its native conversation
  epoch,      \* structured-epoch of the session; 0: none
  loads,      \* loads so far: no epoch comes twice
  loaded,     \* the session is loaded in this backend
  turn,       \* it runs a turn
  resting,    \* reconciliation passes the row over: asleep, suspended, idle past its window or finished
  paused,     \* human input is queued, or wakes and the session are paused
  listed,     \* the rows the drain has yet to take, with the status it read
  pc,         \* the await the drain stands in
  cur,        \* the request it carries out, and the status it believes the row has
  reached,    \* the opening task got to the provider
  was,        \* the status the row of a session had before its close
  prompts,    \* history: opening tasks of a request that may have reached the provider
  cut,        \* history: requests the backend died over
  void,       \* history: requests that were queued when their grant ended
  faults

requests == << req, at, since >>
sessions == << row, adopted, epoch, loads, loaded, turn, resting >>
drain    == << listed, pc, cur, reached, was >>
history  == << prompts, cut, void >>
vars == << requests, granted, finished, sessions, paused, drain, history, faults >>

Statuses == { "none", "asking", "queued", "starting", "completed", "failed", "cancelled" }
Rows     == { "none", "starting", "bound", "error", "failed", "releasing", "over" }
Idle     == [ r |-> NoReq, seen |-> "none" ]

TypeOK ==
    /\ req \in [ Reqs -> Statuses ] /\ at \in [ Reqs -> Sessions ] /\ since \in [ Reqs -> Nat ]
    /\ granted \in BOOLEAN /\ finished \in BOOLEAN
    /\ row \in [ Sessions -> Rows ] /\ adopted \in [ Sessions -> BOOLEAN ]
    /\ epoch \in [ Sessions -> Nat ] /\ loads \in Nat
    /\ loaded \in [ Sessions -> BOOLEAN ] /\ turn \in [ Sessions -> BOOLEAN ] /\ paused \in [ Sessions -> BOOLEAN ]
    /\ resting \in [ Sessions -> BOOLEAN ] /\ was \in [ Sessions -> Rows ]
    /\ listed \in [ Reqs -> Statuses ]
    /\ pc \in { "idle", "next", "checking", "starting", "adopting", "prompting", "unloading", "restoring",
                "loading", "verifying", "reading", "releasing" }
    /\ cur \in [ r : Reqs \cup {NoReq}, seen : Statuses ] /\ reached \in BOOLEAN
    /\ prompts \in [ Reqs -> Nat ] /\ cut \subseteq Reqs /\ void \subseteq Reqs /\ faults \in Nat

Init ==
    /\ req = [ r \in Reqs |-> "none" ]
    /\ at \in { a \in [ Reqs -> Sessions ] : \A l \in Launches : a[l] = l }
    /\ since = [ r \in Reqs |-> 0 ]
    /\ granted = TRUE /\ finished = FALSE
    /\ row = [ s \in Sessions |-> "none" ] /\ adopted = [ s \in Sessions |-> FALSE ]
    /\ epoch = [ s \in Sessions |-> 0 ] /\ loads = 0
    /\ loaded = [ s \in Sessions |-> FALSE ] /\ turn = [ s \in Sessions |-> FALSE ]
    /\ paused = [ s \in Sessions |-> FALSE ] /\ resting = [ s \in Sessions |-> FALSE ]
    /\ listed = [ r \in Reqs |-> "none" ]
    /\ pc = "idle" /\ cur = Idle /\ reached = FALSE /\ was = [ s \in Sessions |-> "none" ]
    /\ prompts = [ r \in Reqs |-> 0 ] /\ cut = {} /\ void = {}
    /\ faults = 0

-----------------------------------------------------------------------------
(* Session rows.                                                           *)

\* shouldRestore: the row is not released, and no start of it failed for good.
Restorable(s) == row[s] \in { "starting", "bound", "error" }

\* The command chain of a session: the drain holds it from its first step on the session to the last.
InChain(s) == pc \notin { "idle", "next", "checking" } /\ at[cur.r] = s

\* attach(): a load is a new epoch.
Load(s) ==
    /\ loaded' = [ loaded EXCEPT ![s] = TRUE ]
    /\ loads' = loads + 1
    /\ epoch' = [ epoch EXCEPT ![s] = loads + 1 ]

SetRow(s, status) == row' = [ row EXCEPT ![s] = status ]

\* ensureLoaded(): the session is loaded unless it is; its row is bound and no longer asleep.
Wake(s) ==
    /\ IF loaded[s] THEN UNCHANGED << loaded, loads, epoch >> ELSE loads < MaxEpoch /\ Load(s)
    /\ SetRow(s, "bound")
    /\ resting' = [ resting EXCEPT ![s] = FALSE ]

\* release(): epoch and load are gone before anything can fail.
Forget(s) ==
    /\ epoch' = [ epoch EXCEPT ![s] = 0 ]
    /\ loaded' = [ loaded EXCEPT ![s] = FALSE ]
    /\ turn' = [ turn EXCEPT ![s] = FALSE ]

\* Nothing of the session is left but its row: ended, or in error after a first start that failed
\* (no one restores either).
GivenUp(s, status) ==
    /\ SetRow(s, status)
    /\ Forget(s)
    /\ resting' = [ resting EXCEPT ![s] = FALSE ]

-----------------------------------------------------------------------------
(* Requests.                                                               *)

\* Mutant: a status is written whatever the row says by now.
UpdateAnyway(r, expected, status) == req' = [ req EXCEPT ![r] = status ]

\* update(): a status is written only over the one the writer believes the row has.
Update(r, expected, status) ==
    req' = IF req[r] = expected THEN [ req EXCEPT ![r] = status ] ELSE req

\* request(): a restart notes the epoch, then awaits the project and the model.
Ask(r) ==
    /\ req[r] = "none" /\ ~finished
    /\ r \in Restarts => Restorable(at[r])
    /\ r \in Closes => row[at[r]] # "none" /\ granted
    /\ req' = [ req EXCEPT ![r] = IF r \in Closes THEN "queued" ELSE "asking" ]
    /\ since' = [ since EXCEPT ![r] = IF r \in Restarts THEN epoch[at[r]] ELSE 0 ]
    /\ UNCHANGED << at, granted, finished, sessions, paused, drain, history, faults >>

\* enqueue(), or the answer that a grant is required.
Enqueue(r) ==
    /\ req[r] = "asking"
    /\ req' = [ req EXCEPT ![r] = IF granted THEN "queued" ELSE "none" ]
    /\ UNCHANGED << at, since, granted, finished, sessions, paused, drain, history, faults >>

\* cancel(): only what is queued.
Cancel(r) ==
    /\ req[r] = "queued"
    /\ Update(r, "queued", "cancelled")
    /\ UNCHANGED << at, since, granted, finished, sessions, paused, drain, history, faults >>

\* revoke(), or the expiry of the grant.
Revoke ==
    /\ granted
    /\ granted' = FALSE
    /\ void' = void \cup { r \in Reqs : req[r] = "queued" }
    /\ UNCHANGED << requests, finished, sessions, paused, drain, prompts, cut, faults >>

\* finish() of the requester.
RequesterFinishes ==
    /\ ~finished
    /\ finished' = TRUE
    /\ UNCHANGED << requests, granted, sessions, paused, drain, history, faults >>

-----------------------------------------------------------------------------
(* The person and the provider.                                            *)

\* A message is queued, or Stop or a suspension pauses the session; at once, before the chain.
PersonPauses(s) ==
    /\ row[s] # "none" /\ ~paused[s]
    /\ paused' = [ paused EXCEPT ![s] = TRUE ]
    /\ UNCHANGED << requests, granted, finished, sessions, drain, history, faults >>

\* The message is delivered, under the chain; a bound session is loaded for it, one in error or
\* starting is left to reconciliation.
PersonSpeaks(s) ==
    /\ row[s] = "bound" /\ adopted[s] /\ ~InChain(s) /\ ~turn[s]
    /\ Wake(s)
    /\ turn' = [ turn EXCEPT ![s] = TRUE ]
    /\ paused' = [ paused EXCEPT ![s] = FALSE ]
    /\ UNCHANGED << requests, granted, finished, adopted, drain, history, faults >>

\* resumeSession(): an opened conversation is loaded, whatever put it to rest.
PersonOpens(s) ==
    /\ Restorable(s) /\ adopted[s] /\ ~InChain(s)
    /\ \/ Wake(s)
       \/ ~loaded[s] /\ SetRow(s, "error") /\ UNCHANGED << loaded, loads, epoch, resting >>
    /\ \/ UNCHANGED paused
       \/ paused' = [ paused EXCEPT ![s] = FALSE ]
    /\ UNCHANGED << requests, granted, finished, adopted, turn, drain, history, faults >>

\* It cannot be loaded: recordRestoreFailure().
RestoreFails(s) ==
    /\ row[s] = "bound" /\ adopted[s] /\ ~InChain(s) /\ ~loaded[s]
    /\ SetRow(s, "error")
    /\ UNCHANGED << requests, granted, finished, adopted, epoch, loads, loaded, turn, resting, paused, drain, history, faults >>

\* suspendIdleSession(), suspendSession(), suspendPressureIdleSession(): only a bound row is put to
\* sleep.  One that is not loaded rests in any status: its work is finished, it was asleep before,
\* or it is idle past its window, so that the reaper takes it from reconciliation and declines it.
Rests(s) ==
    /\ Restorable(s) /\ adopted[s] /\ ~InChain(s) /\ ~turn[s] /\ ~resting[s]
    /\ row[s] = "bound" \/ ~loaded[s]
    /\ resting' = [ resting EXCEPT ![s] = TRUE ]
    /\ loaded' = [ loaded EXCEPT ![s] = FALSE ]
    /\ UNCHANGED << requests, granted, finished, row, adopted, epoch, loads, turn, paused, drain, history, faults >>

\* releaseSession(): the binding ends, or is retained when a loaded session cannot be closed.
PersonReleases(s) ==
    /\ Restorable(s) /\ ~InChain(s)
    /\ GivenUp(s, "over") \/ (loaded[s] /\ Forget(s) /\ UNCHANGED << row, resting >>)
    /\ paused' = [ paused EXCEPT ![s] = TRUE ]
    /\ UNCHANGED << requests, granted, finished, adopted, loads, drain, history, faults >>

TurnEnds(s) ==
    /\ turn[s]
    /\ turn' = [ turn EXCEPT ![s] = FALSE ]
    /\ UNCHANGED << requests, granted, finished, row, adopted, epoch, loads, loaded, resting, paused, drain, history, faults >>

ConnectionLost(s) ==
    /\ loaded[s] /\ faults < MaxFaults
    /\ faults' = faults + 1
    /\ loaded' = [ loaded EXCEPT ![s] = FALSE ] /\ turn' = [ turn EXCEPT ![s] = FALSE ]
    /\ UNCHANGED << requests, granted, finished, row, adopted, epoch, loads, resting, paused, drain, history >>

\* Mutant: a row that was cut off while starting is left alone.
ReconcileErrors(s) ==
    /\ row[s] = "error" /\ ~InChain(s) /\ (resting[s] => paused[s])
    /\ \/ adopted[s] /\ Wake(s)
       \/ ~adopted[s] /\ SetRow(s, "over") /\ UNCHANGED << loaded, loads, epoch, resting >>
    /\ UNCHANGED << requests, granted, finished, adopted, turn, paused, drain, history, faults >>

\* reconcileSessions(): a row that was cut off while starting, or failed to restore, is loaded
\* again; one that never got a native conversation is ended.  A row at rest is passed over, unless
\* a message waits for it.
Reconcile(s) ==
    /\ row[s] \in { "starting", "error" } \/ (row[s] = "bound" /\ ~adopted[s])
    /\ ~InChain(s) /\ (resting[s] => paused[s])
    /\ IF ~adopted[s]
         THEN SetRow(s, "over") /\ UNCHANGED << loaded, loads, epoch, resting >>
         ELSE \/ Wake(s)
              \/ ~loaded[s] /\ SetRow(s, "error") /\ UNCHANGED << loaded, loads, epoch, resting >>
    /\ UNCHANGED << requests, granted, finished, adopted, turn, paused, drain, history, faults >>

-----------------------------------------------------------------------------
(* The drain.                                                              *)

\* drain(): woken by every request, decision and release, and every five seconds.
BeginDrain ==
    /\ pc = "idle"
    /\ \E r \in Reqs : req[r] \in { "queued", "starting" }
    /\ listed' = [ r \in Reqs |-> IF req[r] \in { "queued", "starting" } THEN req[r] ELSE "none" ]
    /\ pc' = "next"
    /\ UNCHANGED << requests, granted, finished, sessions, paused, cur, reached, was, history, faults >>

EndDrain ==
    /\ pc = "next" /\ \A r \in Reqs : listed[r] = "none"
    /\ pc' = "idle"
    /\ UNCHANGED << requests, granted, finished, sessions, paused, listed, cur, reached, was, history, faults >>

\* process() has come to its end.
Done == pc' = "next" /\ cur' = Idle /\ reached' = FALSE

Carry(r, seen, await) == pc' = await /\ cur' = [ r |-> r, seen |-> seen ] /\ UNCHANGED reached

\* What a queued launch or restart meets before the first await.
Admit(r, believed) ==
    IF finished \/ ~granted
      THEN Update(r, believed, "cancelled") /\ Done
      ELSE UNCHANGED req /\ Carry(r, believed, "checking")

\* Mutant: a restart found starting is begun again.
ResumeRestarting(r) ==
    LET s == at[r]
    IN  CASE row[s] = "bound" /\ r \in Launches -> Update(r, "starting", "completed") /\ Done
          [] row[s] = "starting" -> UNCHANGED req /\ Done
          [] row[s] \in { "error", "failed", "releasing", "over" } -> Update(r, "starting", "failed") /\ Done
          [] OTHER -> IF finished \/ ~granted
                        THEN req' = [ req EXCEPT ![r] = "cancelled" ] /\ Done
                        ELSE req' = [ req EXCEPT ![r] = "queued" ] /\ Carry(r, "queued", "checking")

\* A request that was starting when the backend died.  A new launch row or a new epoch proves
\* that it was carried out; a row that failed or ended, that it was not; no row or the same epoch,
\* that nothing was begun.
Resume(r) ==
    LET s == at[r]
        begun == row[s] = "bound" /\ (r \in Launches \/ epoch[s] # since[r])
    IN  CASE begun -> Update(r, "starting", "completed") /\ Done
          [] row[s] = "starting" -> UNCHANGED req /\ Done
          [] row[s] \in { "error", "failed", "releasing", "over" } -> Update(r, "starting", "failed") /\ Done
          [] OTHER -> IF finished \/ ~granted
                        THEN req' = [ req EXCEPT ![r] = "cancelled" ] /\ Done
                        ELSE req' = [ req EXCEPT ![r] = "queued" ] /\ Carry(r, "queued", "checking")

\* A close needs its requester and its grant, and takes the chain of the session.
Close(r, seen) ==
    IF finished \/ ~granted \/ req[r] # seen
      THEN Update(r, seen, "cancelled") /\ Done
      ELSE /\ Update(r, seen, "starting")
           /\ Carry(r, "starting", "reading")

Take(r) ==
    /\ pc = "next" /\ listed[r] # "none"
    /\ listed' = [ listed EXCEPT ![r] = "none" ]
    /\ IF r \in Closes THEN Close(r, listed[r])
       ELSE IF listed[r] = "starting" THEN Resume(r)
       ELSE Admit(r, listed[r])
    /\ UNCHANGED << at, since, granted, finished, sessions, paused, was, history, faults >>

\* The project, the model and the memory answered: not any more, not yet, or go.  From the
\* write of "starting" to the first step of the session nothing is awaited.
Checked ==
    /\ pc = "checking"
    /\ LET r == cur.r
           s == at[r]
       IN  \/ /\ \E status \in { "failed", "cancelled", "queued" } : Update(r, cur.seen, status)
              /\ Done /\ UNCHANGED << row, loads >>
           \/ /\ req[r] # cur.seen
              /\ Done /\ UNCHANGED << req, row, loads >>
           \/ /\ req[r] = cur.seen /\ ~granted
              /\ Update(r, cur.seen, "cancelled")
              /\ Done /\ UNCHANGED << row, loads >>
           \/ /\ req[r] = cur.seen /\ granted /\ r \in Launches
              /\ Update(r, cur.seen, "starting")
              /\ SetRow(s, "starting")
              /\ Carry(r, "starting", "starting") /\ UNCHANGED loads
           \/ /\ req[r] = cur.seen /\ granted /\ r \in Restarts
              /\ Update(r, cur.seen, "starting")
              /\ Carry(r, "starting", "unloading") /\ UNCHANGED << row, loads >>
    /\ UNCHANGED << at, since, granted, finished, adopted, epoch, loaded, turn, resting, paused, listed, was, history, faults >>

Ends(status) == Update(cur.r, "starting", status) /\ Done

\* bindConversationInternal(): the provider started the session; the row is bound.
Started ==
    /\ pc = "starting"
    /\ LET s == at[cur.r]
       IN  \/ /\ GivenUp(s, "failed") /\ Ends("failed") /\ UNCHANGED << loads >>
           \/ /\ loads < MaxEpoch /\ Load(s)
              /\ SetRow(s, "bound")
              /\ pc' = "adopting" /\ UNCHANGED << req, cur, reached, turn, resting >>
    /\ UNCHANGED << at, since, granted, finished, adopted, paused, listed, was, history, faults >>

\* The process is verified, the conversation adopted, and the opening task is sent.
Adopted ==
    /\ pc = "adopting"
    /\ LET s == at[cur.r]
       IN  IF ~loaded[s]
             THEN /\ adopted' = [ adopted EXCEPT ![s] = TRUE ]
                  /\ GivenUp(s, "failed") /\ Ends("failed") /\ UNCHANGED prompts
             ELSE /\ adopted' = [ adopted EXCEPT ![s] = TRUE ]
                  /\ pc' = "prompting"
                  /\ reached' \in BOOLEAN
                  /\ prompts' = IF reached' THEN [ prompts EXCEPT ![cur.r] = @ + 1 ] ELSE prompts
                  /\ UNCHANGED << req, row, epoch, loaded, turn, resting, cur >>
    /\ UNCHANGED << at, since, granted, finished, loads, paused, listed, was, cut, void, faults >>

\* The opening task was taken, or its delivery failed or is in doubt.
Prompted ==
    /\ pc = "prompting"
    /\ LET s == at[cur.r]
       IN  \/ /\ reached
              /\ turn' = [ turn EXCEPT ![s] = loaded[s] ]
              /\ Ends("completed") /\ UNCHANGED << row, epoch, loaded, resting >>
           \/ /\ Ends("failed")
              /\ IF cur.r \in Launches THEN GivenUp(s, "failed")
                 ELSE SetRow(s, "error") /\ UNCHANGED << epoch, loaded, turn, resting >>
    /\ UNCHANGED << at, since, granted, finished, adopted, loads, paused, listed, was, history, faults >>

\* requireRestartAuthority(): asked before the session is touched, after it was unloaded and
\* right before its row changes.
MayRestart(s) == Restorable(s) /\ granted /\ ~paused[s]

\* What a restart without authority comes to: over without a grant, put off by the person.
PutOff(s) == Ends(IF granted /\ Restorable(s) THEN "queued" ELSE "failed")

\* A session that is suspended when the restart gets to it is not waited for.
Refuses(s) == paused[s] /\ Ends("failed")

\* restartGrantedSession() has the chain: nothing in progress is stopped for it.
Unload ==
    /\ pc = "unloading"
    /\ LET s == at[cur.r]
       IN  IF ~MayRestart(s) \/ turn[s]
             THEN (PutOff(s) \/ Refuses(s)) /\ UNCHANGED loaded
             ELSE /\ loaded' = [ loaded EXCEPT ![s] = FALSE ]
                  /\ pc' = "restoring" /\ UNCHANGED << req, cur, reached >>
    /\ UNCHANGED << at, since, granted, finished, row, adopted, epoch, loads, turn, resting, paused, listed, was, history, faults >>

\* restoreSession(): the unload and the project answered; the row starts again.
Restoring ==
    /\ pc = "restoring"
    /\ LET s == at[cur.r]
       IN  IF ~MayRestart(s)
             THEN PutOff(s) /\ UNCHANGED row
             ELSE \/ SetRow(s, "error") /\ Ends("failed")
                  \/ /\ IF row[s] = "error" THEN UNCHANGED row ELSE SetRow(s, "starting")
                     /\ pc' = "loading" /\ UNCHANGED << req, cur, reached >>
    /\ UNCHANGED << at, since, granted, finished, adopted, epoch, loads, loaded, turn, resting, paused, listed, was, history, faults >>

\* ensureLoaded(): the conversation is loaded in a new epoch, or the row is in error.
Loading ==
    /\ pc = "loading"
    /\ LET s == at[cur.r]
       IN  \/ SetRow(s, "error") /\ Ends("failed") /\ UNCHANGED << loads, loaded, epoch, resting >>
           \/ /\ loads < MaxEpoch /\ Load(s)
              /\ SetRow(s, "bound")
              /\ resting' = [ resting EXCEPT ![s] = FALSE ]
              /\ pc' = "verifying" /\ UNCHANGED << req, cur, reached >>
    /\ UNCHANGED << at, since, granted, finished, adopted, turn, paused, listed, was, history, faults >>

\* deliverAutomatic(): refused when the session is gone again, else on its way.
Verified ==
    /\ pc = "verifying"
    /\ LET s == at[cur.r]
       IN  IF ~loaded[s]
             THEN SetRow(s, "error") /\ Ends("failed") /\ UNCHANGED prompts
             ELSE /\ pc' = "prompting"
                  /\ reached' \in BOOLEAN
                  /\ prompts' = IF reached' THEN [ prompts EXCEPT ![cur.r] = @ + 1 ] ELSE prompts
                  /\ UNCHANGED << req, cur, row >>
    /\ UNCHANGED << at, since, granted, finished, adopted, epoch, loads, loaded, turn, resting, paused, listed, was, cut, void, faults >>

\* closeGrantedSession(): what is over is over; else the transcript must be readable and the grant stand.
Read ==
    /\ pc = "reading"
    /\ LET s == at[cur.r]
       IN  \/ row[s] = "over" /\ granted /\ Ends("completed") /\ UNCHANGED << row, paused, was >>
           \/ row[s] # "over" /\ granted /\ Ends("queued") /\ UNCHANGED << row, paused, was >>
           \/ ~granted /\ Ends("failed") /\ UNCHANGED << row, paused, was >>
           \/ /\ row[s] # "over" /\ granted
              /\ SetRow(s, "releasing")
              /\ was' = [ was EXCEPT ![s] = IF row[s] = "releasing" THEN "bound" ELSE row[s] ]
              /\ paused' = [ paused EXCEPT ![s] = TRUE ]
              /\ pc' = "releasing" /\ UNCHANGED << req, cur, reached >>
    /\ UNCHANGED << at, since, granted, finished, adopted, epoch, loads, loaded, turn, resting, listed, history, faults >>

\* releaseSessionInternal(): the binding ends; when the session is loaded and cannot be closed it is
\* retained as it was, but for the epoch and the load.
Released ==
    /\ pc = "releasing"
    /\ LET s == at[cur.r]
       IN  \/ GivenUp(s, "over") /\ Ends("completed")
           \/ loaded[s] /\ SetRow(s, was[s]) /\ Forget(s) /\ Ends("failed") /\ UNCHANGED resting
    /\ was' = [ was EXCEPT ![at[cur.r]] = "none" ]
    /\ UNCHANGED << at, since, granted, finished, adopted, loads, paused, listed, history, faults >>

-----------------------------------------------------------------------------
\* The backend dies; what was asked for and not yet written is forgotten.
Crash ==
    /\ faults < MaxFaults
    /\ faults' = faults + 1
    /\ cut' = cut \cup { r \in Reqs : req[r] = "starting" }
    /\ req' = [ r \in Reqs |-> IF req[r] = "asking" THEN "none" ELSE req[r] ]
    /\ loaded' = [ s \in Sessions |-> FALSE ] /\ turn' = [ s \in Sessions |-> FALSE ]
    /\ listed' = [ r \in Reqs |-> "none" ] /\ pc' = "idle" /\ cur' = Idle /\ reached' = FALSE
    /\ was' = [ s \in Sessions |-> "none" ]
    /\ UNCHANGED << at, since, granted, finished, row, adopted, epoch, loads, resting, paused, prompts, void >>

Process ==
    \/ \E r \in Reqs : Take(r)
    \/ Checked \/ Started \/ Adopted \/ Prompted \/ Unload \/ Restoring \/ Loading \/ Verified
    \/ Read \/ Released

Next ==
    \/ \E r \in Reqs : Ask(r) \/ Enqueue(r) \/ Cancel(r)
    \/ Revoke \/ RequesterFinishes
    \/ \E s \in Sessions :
         PersonPauses(s) \/ PersonSpeaks(s) \/ PersonOpens(s) \/ RestoreFails(s) \/ Rests(s) \/ PersonReleases(s)
           \/ TurnEnds(s) \/ ConnectionLost(s) \/ Reconcile(s)
    \/ BeginDrain \/ EndDrain \/ Process
    \/ Crash

Spec == Init /\ [][Next]_vars

\* The drain is woken every five seconds and what it awaits answers in bounded time; reconciliation
\* runs on a timer and takes every row that is starting and not at rest, when its turn comes in the
\* chain of the session, which is a queue.
FairSpec ==
    Spec /\ WF_vars(BeginDrain \/ EndDrain \/ Process)
         /\ \A s \in Sessions : SF_vars(Reconcile(s) /\ row[s] = "starting" /\ ~resting[s])

-----------------------------------------------------------------------------
(* Properties.                                                             *)

\* A later epoch tells the next backend that the request was carried out.  Nothing tells it of a
\* restart that was asked while the session had no epoch (its release had failed) and that the
\* backend died over.
Dated(r) == r \in Restarts /\ r \in cut => since[r] # 0

\* The opening task of a launch or restart reaches its session at most once, whatever dies,
\* is put off or is asked for again between; never when the grant ended while the request was
\* queued; and a completed request did what it says, unless the backend died over it.
TaskOnce ==
    /\ \A r \in Reqs : Dated(r) => prompts[r] <= 1
    /\ \A r \in void : req[r] # "completed" /\ (Dated(r) => prompts[r] = 0)
    /\ \A r \in Launches \cup Restarts : (req[r] = "completed" /\ r \notin cut) => prompts[r] = 1
    /\ \A r \in Closes : req[r] = "completed" => row[at[r]] = "over"

\* What the requester is told is final: a request that was cancelled, completed or failed is never
\* taken up again, though the drain goes by what it listed before its awaits.
OutcomeIsFinal ==
    [][ \A r \in Reqs : req[r] \in { "cancelled", "completed", "failed" }
                          => req'[r] = req[r] /\ prompts'[r] = prompts[r] ]_vars

\* The backend died while the row was starting, and the row is at rest.
PassedOver(s) == row[s] = "starting" /\ resting[s]

\* No launch or restart stays "starting": the drain, or reconciliation and the drain of the next
\* backend, bring it to an outcome or back into the queue, unless reconciliation passes its session
\* over.  (A close has no start to wait for: the drain that finds it starting begins it again.)
StartingEnds ==
    \A r \in Launches \cup Restarts : req[r] = "starting" ~> (req[r] # "starting" \/ PassedOver(at[r]))
=============================================================================
