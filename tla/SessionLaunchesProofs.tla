------------------------ MODULE SessionLaunchesProofs -----------------------
(***************************************************************************)
(* Proofs about SessionLaunches, for any requests and any number of loads, *)
(* revocations, cancellations and deaths of the backend: types, that the   *)
(* outcome of a request is final, and that its opening task is sent at     *)
(* most once.                                                              *)
(***************************************************************************)
EXTENDS SessionLaunches, TLAPS

-----------------------------------------------------------------------------
(* The invariants.                                                         *)

\* The awaits on a session: of a launch, a restart, a close, and of the first two.
Begins  == { "starting", "adopting" }
Reloads == { "unloading", "restoring", "loading", "verifying" }
Closing == { "reading", "releasing" }
Chain   == Begins \cup Reloads \cup Closing \cup { "prompting" }

\* The drain: it carries out a request whose status nobody else writes, and what it listed as
\* starting is starting still.
DrainInv ==
  /\ pc \in { "idle", "next" } <=> cur.r = NoReq
  /\ \A r \in Reqs :
       /\ listed[r] \in { "none", "queued", "starting" }
       /\ listed[r] # "none" => (listed[r] = "starting" <=> req[r] = "starting")
       /\ req[r] = "starting" /\ cur.r # r => r \in cut
  /\ pc \notin { "idle", "next" } => listed[cur.r] = "none"
  /\ pc = "checking" => cur.seen = "queued" /\ cur.r \notin Closes /\ req[cur.r] # "starting"
  /\ pc \in Chain => req[cur.r] = "starting"
  /\ pc \in Begins => cur.r \in Launches
  /\ pc \in Reloads => cur.r \in Restarts
  /\ pc \in Closing => cur.r \in Closes
  /\ pc = "prompting" => cur.r \notin Closes

\* The chain: while the drain is between two steps on a session, its row stays as it left it.
ChainInv ==
  /\ pc = "starting" => row[at[cur.r]] = "starting"
  /\ pc \in { "adopting", "verifying", "prompting" } => row[at[cur.r]] = "bound"
  /\ pc = "loading" => row[at[cur.r]] \in { "starting", "error" }
  /\ pc = "releasing" => row[at[cur.r]] = "releasing" /\ was[at[cur.r]] \notin { "none", "over" }
  /\ pc = "prompting" /\ Dated(cur.r) => prompts[cur.r] = IF reached THEN 1 ELSE 0
  /\ pc \in Chain \ { "prompting" } /\ Dated(cur.r) => prompts[cur.r] = 0
  /\ pc \in { "verifying", "prompting" } /\ cur.r \in Restarts => epoch[at[cur.r]] > since[cur.r]

EpochInv ==
  /\ \A s \in Sessions : epoch[s] <= loads
  /\ \A r \in Reqs : since[r] <= loads

\* A row is written once: by its launch.
RowInv ==
  /\ \A l \in Launches : at[l] = l
  /\ \A l \in Launches : req[l] \in { "none", "asking", "queued", "cancelled" } => row[l] = "none"
  /\ \A r \in Restarts \cup Closes : req[r] # "none" => row[at[r]] # "none"

\* A task is sent once, and a request that waits has not sent it.
SentInv ==
  /\ \A r \in Reqs : Dated(r) => prompts[r] <= 1
  /\ \A r \in Reqs : req[r] \in { "none", "asking" } => prompts[r] = 0
  /\ \A r \in Reqs : Dated(r) /\ req[r] = "queued" => prompts[r] = 0
  /\ \A r \in Closes : prompts[r] = 0

\* A task that was sent leaves its mark on the session: a row, or another epoch (a newer one, or none).
MarkInv ==
  /\ \A l \in Launches : prompts[l] > 0 => row[l] # "none"
  /\ \A r \in Restarts : prompts[r] > 0 =>
        /\ row[at[r]] # "none"
        /\ row[at[r]] = "over" \/ since[r] = 0 \/ epoch[at[r]] = 0 \/ epoch[at[r]] > since[r]

\* What a request whose grant ended in the queue has come to, and what a completed one has done.
OutcomeInv ==
  /\ \A r \in void : ~granted /\ (Dated(r) => prompts[r] = 0) /\ req[r] \in { "queued", "cancelled", "failed" }
  /\ \A r \in Launches \cup Restarts : (req[r] = "completed" /\ r \notin cut) => prompts[r] = 1
  /\ \A r \in Closes : req[r] = "completed" => row[at[r]] = "over"

TaskInv == SentInv /\ MarkInv /\ OutcomeInv

IInv == TypeOK /\ DrainInv /\ ChainInv /\ EpochInv /\ RowInv /\ TaskInv

-----------------------------------------------------------------------------
(* The steps, by who takes them.                                           *)

Requester(r) == Ask(r) \/ Enqueue(r) \/ Cancel(r)
Around(s) == PersonPauses(s) \/ PersonSpeaks(s) \/ PersonOpens(s) \/ RestoreFails(s) \/ Rests(s)
               \/ PersonReleases(s) \/ TurnEnds(s) \/ ConnectionLost(s) \/ Reconcile(s)
Answers == Checked \/ Started \/ Adopted \/ Prompted \/ Unload \/ Restoring \/ Loading \/ Verified
             \/ Read \/ Released

LEMMA Steps ==
  Next <=> \/ \E r \in Reqs : Requester(r)
           \/ Revoke \/ RequesterFinishes
           \/ \E s \in Sessions : Around(s)
           \/ BeginDrain \/ EndDrain \/ (\E r \in Reqs : Take(r)) \/ Answers
           \/ Crash
BY DEF Next, Process, Requester, Around, Answers

-----------------------------------------------------------------------------
(* Types.                                                                  *)

LEMMA Requests ==
  /\ Launches \subseteq Reqs /\ Restarts \subseteq Reqs /\ Closes \subseteq Reqs /\ Sessions = Launches
  /\ \A r \in Reqs : r # NoReq
  /\ \A r \in Reqs : r \in Launches => r \notin Restarts /\ r \notin Closes
  /\ \A r \in Reqs : r \in Restarts => r \notin Closes
  /\ \A r \in Reqs : r \in Launches \/ r \in Restarts \/ r \in Closes
BY RequestAssumption DEF Reqs, Sessions

Awaits == { "idle", "next", "checking", "starting", "adopting", "prompting", "unloading", "restoring",
            "loading", "verifying", "reading", "releasing" }
Current == [ r : Reqs \cup {NoReq}, seen : Statuses ]

LEMMA IdleType == Idle \in Current /\ Idle.r = NoReq /\ Idle.seen = "none"
BY DEF Idle, Current, Statuses

LEMMA UpdateType ==
  ASSUME TypeOK, NEW r, NEW seen, NEW status \in Statuses, Update(r, seen, status)
  PROVE  req' \in [ Reqs -> Statuses ]
BY DEF TypeOK, Update

LEMMA DoneType ==
  ASSUME Done
  PROVE  pc' \in Awaits /\ cur' \in Current /\ reached' \in BOOLEAN
BY IdleType DEF Done, Awaits

LEMMA CarryType ==
  ASSUME TypeOK, NEW r \in Reqs \cup {NoReq}, NEW seen \in Statuses, NEW await \in Awaits, Carry(r, seen, await)
  PROVE  pc' \in Awaits /\ cur' \in Current /\ reached' \in BOOLEAN
BY DEF Carry, TypeOK, Current

LEMMA EndsType ==
  ASSUME TypeOK, NEW status \in Statuses, Ends(status)
  PROVE  req' \in [ Reqs -> Statuses ] /\ pc' \in Awaits /\ cur' \in Current /\ reached' \in BOOLEAN
BY UpdateType, DoneType DEF Ends

LEMMA ForgetType ==
  ASSUME TypeOK, NEW s, Forget(s)
  PROVE  epoch' \in [ Sessions -> Nat ] /\ loaded' \in [ Sessions -> BOOLEAN ] /\ turn' \in [ Sessions -> BOOLEAN ]
BY DEF TypeOK, Forget

LEMMA GivenUpType ==
  ASSUME TypeOK, NEW s, NEW status \in Rows, GivenUp(s, status)
  PROVE  /\ row' \in [ Sessions -> Rows ] /\ epoch' \in [ Sessions -> Nat ]
         /\ loaded' \in [ Sessions -> BOOLEAN ] /\ turn' \in [ Sessions -> BOOLEAN ]
         /\ resting' \in [ Sessions -> BOOLEAN ]
BY ForgetType DEF TypeOK, GivenUp, SetRow

LEMMA SetRowType ==
  ASSUME TypeOK, NEW s, NEW status \in Rows, SetRow(s, status)
  PROVE  row' \in [ Sessions -> Rows ]
BY DEF TypeOK, SetRow

LEMMA LoadType ==
  ASSUME TypeOK, NEW s, Load(s)
  PROVE  loads' \in Nat /\ epoch' \in [ Sessions -> Nat ] /\ loaded' \in [ Sessions -> BOOLEAN ]
<1>1. loads + 1 \in Nat
  BY DEF TypeOK
<1> QED BY <1>1 DEF TypeOK, Load

LEMMA WakeType ==
  ASSUME TypeOK, NEW s, Wake(s)
  PROVE  /\ loads' \in Nat /\ epoch' \in [ Sessions -> Nat ] /\ loaded' \in [ Sessions -> BOOLEAN ]
         /\ row' \in [ Sessions -> Rows ] /\ resting' \in [ Sessions -> BOOLEAN ]
<1>1. loads' \in Nat /\ epoch' \in [ Sessions -> Nat ] /\ loaded' \in [ Sessions -> BOOLEAN ]
  BY LoadType DEF Wake, TypeOK
<1>2. row' \in [ Sessions -> Rows ]
  BY SetRowType DEF Wake, Rows
<1>3. resting' \in [ Sessions -> BOOLEAN ]
  BY DEF Wake, TypeOK
<1> QED BY <1>1, <1>2, <1>3

LEMMA TypeAgain ==
  ASSUME req' \in [ Reqs -> Statuses ], at' \in [ Reqs -> Sessions ], since' \in [ Reqs -> Nat ],
         granted' \in BOOLEAN, finished' \in BOOLEAN,
         row' \in [ Sessions -> Rows ], adopted' \in [ Sessions -> BOOLEAN ],
         epoch' \in [ Sessions -> Nat ], loads' \in Nat, loaded' \in [ Sessions -> BOOLEAN ],
         turn' \in [ Sessions -> BOOLEAN ], paused' \in [ Sessions -> BOOLEAN ],
         resting' \in [ Sessions -> BOOLEAN ], was' \in [ Sessions -> Rows ],
         listed' \in [ Reqs -> Statuses ], pc' \in Awaits, cur' \in Current, reached' \in BOOLEAN,
         prompts' \in [ Reqs -> Nat ], cut' \subseteq Reqs, void' \subseteq Reqs, faults' \in Nat
  PROVE  TypeOK'
BY DEF TypeOK, Awaits, Current

LEMMA TypeNow ==
  ASSUME TypeOK
  PROVE  pc \in Awaits /\ cur \in Current
BY DEF TypeOK, Awaits, Current

LEMMA InitTypes == Init => TypeOK
<1> SUFFICES ASSUME Init PROVE TypeOK
  OBVIOUS
<1>1. "none" \in Statuses /\ "none" \in Rows /\ 0 \in Nat
  BY DEF Statuses, Rows
<1>2. at \in [ Reqs -> Sessions ]
  BY DEF Init
<1>3. cur \in [ r : Reqs \cup {NoReq}, seen : Statuses ]
  BY IdleType DEF Init, Current
<1> QED BY <1>1, <1>2, <1>3 DEF Init, TypeOK

LEMMA RequesterTypes ==
  ASSUME TypeOK, NEW r \in Reqs, Requester(r)
  PROVE  TypeOK'
<1> USE TypeNow, TypeAgain DEF requests, sessions, drain, history
<1>1. CASE Ask(r)
  <2>1. since' \in [ Reqs -> Nat ]
    BY <1>1 DEF Ask, TypeOK
  <2>2. req' \in [ Reqs -> Statuses ]
    BY <1>1 DEF Ask, TypeOK, Statuses
  <2> QED BY <1>1, <2>1, <2>2 DEF Ask, TypeOK
<1>2. CASE Enqueue(r)
  <2>1. req' \in [ Reqs -> Statuses ]
    BY <1>2 DEF Enqueue, TypeOK, Statuses
  <2> QED BY <1>2, <2>1 DEF Enqueue, TypeOK
<1>3. CASE Cancel(r)
  <2>1. "cancelled" \in Statuses
    BY DEF Statuses
  <2> QED BY <1>3, <2>1, UpdateType DEF Cancel, TypeOK
<1> QED BY <1>1, <1>2, <1>3 DEF Requester

LEMMA RowValues ==
  /\ { "none", "starting", "bound", "error", "failed", "releasing", "over" } \subseteq Rows
  /\ { "none", "queued", "starting", "completed", "failed", "cancelled" } \subseteq Statuses
BY DEF Rows, Statuses

LEMMA AroundTypes ==
  ASSUME TypeOK, NEW s \in Sessions, Around(s)
  PROVE  TypeOK'
<1> USE TypeNow, TypeAgain DEF requests, sessions, drain, history
<1>1. CASE PersonPauses(s)
  BY <1>1 DEF PersonPauses, TypeOK
<1>2. CASE PersonSpeaks(s)
  <2>1. turn' \in [ Sessions -> BOOLEAN ] /\ paused' \in [ Sessions -> BOOLEAN ]
    BY <1>2 DEF PersonSpeaks, TypeOK
  <2> QED BY <1>2, <2>1, WakeType DEF PersonSpeaks, TypeOK
<1>3. CASE RestoreFails(s)
  BY <1>3, SetRowType, RowValues DEF RestoreFails, TypeOK
<1>4. CASE PersonReleases(s)
  <2>1. paused' \in [ Sessions -> BOOLEAN ]
    BY <1>4 DEF PersonReleases, TypeOK
  <2> QED BY <1>4, <2>1, GivenUpType, ForgetType, RowValues DEF PersonReleases, TypeOK
<1>5. CASE TurnEnds(s)
  BY <1>5 DEF TurnEnds, TypeOK
<1>6. CASE ConnectionLost(s)
  <2>1. loaded' \in [ Sessions -> BOOLEAN ] /\ turn' \in [ Sessions -> BOOLEAN ] /\ faults' \in Nat
    BY <1>6 DEF ConnectionLost, TypeOK
  <2> QED BY <1>6, <2>1 DEF ConnectionLost, TypeOK
<1>7. CASE Reconcile(s)
  <2>1. /\ row' \in [ Sessions -> Rows ] /\ resting' \in [ Sessions -> BOOLEAN ]
        /\ loads' \in Nat /\ epoch' \in [ Sessions -> Nat ] /\ loaded' \in [ Sessions -> BOOLEAN ]
    BY <1>7, WakeType, SetRowType, RowValues DEF Reconcile, TypeOK
  <2> QED BY <1>7, <2>1 DEF Reconcile, TypeOK
<1>8. CASE PersonOpens(s)
  <2>1. /\ row' \in [ Sessions -> Rows ] /\ resting' \in [ Sessions -> BOOLEAN ]
        /\ loads' \in Nat /\ epoch' \in [ Sessions -> Nat ] /\ loaded' \in [ Sessions -> BOOLEAN ]
    BY <1>8, WakeType, SetRowType, RowValues DEF PersonOpens, TypeOK
  <2>2. paused' \in [ Sessions -> BOOLEAN ]
    BY <1>8 DEF PersonOpens, TypeOK
  <2> QED BY <1>8, <2>1, <2>2 DEF PersonOpens, TypeOK
<1>9. CASE Rests(s)
  <2>1. paused' \in [ Sessions -> BOOLEAN ]
    BY <1>9 DEF Rests, TypeOK
  <2>2. resting' \in [ Sessions -> BOOLEAN ] /\ loaded' \in [ Sessions -> BOOLEAN ]
    BY <1>9 DEF Rests, TypeOK
  <2> QED BY <1>9, <2>1, <2>2 DEF Rests, TypeOK
<1> QED BY <1>1, <1>2, <1>3, <1>4, <1>5, <1>6, <1>7, <1>8, <1>9 DEF Around

\* What carries out no request.
LEMMA FrameTypes ==
  ASSUME TypeOK, Revoke \/ RequesterFinishes \/ BeginDrain \/ EndDrain \/ Crash \/ UNCHANGED vars
  PROVE  TypeOK'
<1> USE TypeNow, TypeAgain DEF requests, sessions, drain, history
<1>1. CASE BeginDrain
  BY <1>1 DEF BeginDrain, Awaits, Statuses, TypeOK
<1>2. CASE EndDrain
  BY <1>2 DEF EndDrain, Awaits, TypeOK
<1>3. CASE Crash
  <2>1. req' \in [ Reqs -> Statuses ] /\ cut' \subseteq Reqs
    BY <1>3 DEF Crash, TypeOK, Statuses
  <2>2. cur' \in Current /\ pc' \in Awaits
    BY <1>3, IdleType DEF Crash, Awaits
  <2>3. listed' \in [ Reqs -> Statuses ]
    BY <1>3, RowValues DEF Crash
  <2>4. loaded' \in [ Sessions -> BOOLEAN ] /\ turn' \in [ Sessions -> BOOLEAN ] /\ faults' \in Nat
    BY <1>3 DEF Crash, TypeOK
  <2> QED BY <1>3, <2>1, <2>2, <2>3, <2>4, RowValues DEF Crash, TypeOK
<1>4. CASE Revoke \/ RequesterFinishes \/ UNCHANGED vars
  BY <1>4 DEF Revoke, RequesterFinishes, vars, TypeOK
<1> QED BY <1>1, <1>2, <1>3, <1>4

\* The drain at a request.
LEMMA TakeTypes ==
  ASSUME TypeOK, NEW r \in Reqs, Take(r)
  PROVE  TypeOK'
<1> USE RowValues
<1>1. listed' \in [ Reqs -> Statuses ] /\ listed[r] \in Statuses
  BY DEF Take, TypeOK
<1>2. { "checking", "reading" } \subseteq Awaits
  BY DEF Awaits
<1>3. req \in [ Reqs -> Statuses ]
  BY DEF TypeOK
<1> DEFINE Typed == req' \in [ Reqs -> Statuses ] /\ pc' \in Awaits /\ cur' \in Current /\ reached' \in BOOLEAN
<1>4. CASE Close(r, listed[r])
  <2>1. Typed
    BY <1>1, <1>2, <1>4, DoneType, UpdateType, CarryType DEF Close
  <2> QED BY <1>1, <2>1, TypeAgain DEF Take, TypeOK, sessions, history
<1>5. CASE Resume(r)
  <2>1. Typed
    BY <1>1, <1>2, <1>3, <1>5, DoneType, UpdateType, CarryType DEF Resume
  <2> QED BY <1>1, <2>1, TypeAgain DEF Take, TypeOK, sessions, history
<1>6. CASE Admit(r, listed[r])
  <2>1. Typed
    BY <1>1, <1>2, <1>3, <1>6, DoneType, UpdateType, CarryType DEF Admit
  <2> QED BY <1>1, <2>1, TypeAgain DEF Take, TypeOK, sessions, history
<1> QED BY <1>4, <1>5, <1>6 DEF Take

LEMMA AnswersTypes ==
  ASSUME TypeOK, Answers
  PROVE  TypeOK'
<1> USE TypeNow, TypeAgain DEF requests, sessions, drain, history
<1>1. CASE Checked
  <2>1. cur.r \in Reqs \cup {NoReq} /\ { "starting", "unloading" } \subseteq Awaits
    BY DEF Current, Awaits
  <2>2. req' \in [ Reqs -> Statuses ] /\ pc' \in Awaits /\ cur' \in Current /\ reached' \in BOOLEAN
    BY <1>1, <2>1, UpdateType, DoneType, CarryType, RowValues DEF Checked, TypeOK
  <2>3. row' \in [ Sessions -> Rows ] /\ loads' \in Nat
    BY <1>1, SetRowType, RowValues DEF Checked, TypeOK
  <2> QED BY <1>1, <2>2, <2>3 DEF Checked, TypeOK
<1>2. CASE Started
  <2>1. req' \in [ Reqs -> Statuses ] /\ pc' \in Awaits /\ cur' \in Current /\ reached' \in BOOLEAN
    BY <1>2, EndsType, RowValues DEF Started, Awaits, TypeOK
  <2>2. row' \in [ Sessions -> Rows ] /\ epoch' \in [ Sessions -> Nat ] /\ loaded' \in [ Sessions -> BOOLEAN ] /\ turn' \in [ Sessions -> BOOLEAN ] /\ resting' \in [ Sessions -> BOOLEAN ]
    <3>1. CASE GivenUp(at[cur.r], "failed")
      BY <3>1, GivenUpType, RowValues
    <3>2. CASE Load(at[cur.r]) /\ SetRow(at[cur.r], "bound") /\ UNCHANGED << turn, resting >>
      <4>1. row' \in [ Sessions -> Rows ]
        BY <3>2, SetRowType, RowValues
      <4> QED BY <3>2, <4>1, LoadType DEF TypeOK
    <3> QED BY <1>2, <3>1, <3>2 DEF Started
  <2>3. loads' \in Nat
    BY <1>2, LoadType DEF Started, TypeOK
  <2> QED BY <1>2, <2>1, <2>2, <2>3 DEF Started, TypeOK
<1>3. CASE Adopted
  <2>1. req' \in [ Reqs -> Statuses ] /\ pc' \in Awaits /\ cur' \in Current /\ reached' \in BOOLEAN
    BY <1>3, EndsType, RowValues DEF Adopted, Awaits, TypeOK
  <2>2. row' \in [ Sessions -> Rows ] /\ epoch' \in [ Sessions -> Nat ] /\ loaded' \in [ Sessions -> BOOLEAN ] /\ turn' \in [ Sessions -> BOOLEAN ] /\ resting' \in [ Sessions -> BOOLEAN ]
    BY <1>3, GivenUpType, RowValues DEF Adopted, TypeOK
  <2>3. prompts' \in [ Reqs -> Nat ] /\ adopted' \in [ Sessions -> BOOLEAN ]
    <3>1. adopted' \in [ Sessions -> BOOLEAN ]
      BY <1>3 DEF Adopted, TypeOK
    <3>2. prompts' \in [ Reqs -> Nat ]
      BY <1>3 DEF Adopted, TypeOK
    <3> QED BY <3>1, <3>2
  <2> QED BY <1>3, <2>1, <2>2, <2>3 DEF Adopted, TypeOK
<1>4. CASE Prompted
  <2>1. req' \in [ Reqs -> Statuses ] /\ pc' \in Awaits /\ cur' \in Current /\ reached' \in BOOLEAN
    BY <1>4, EndsType, RowValues DEF Prompted, Awaits, TypeOK
  <2>2. row' \in [ Sessions -> Rows ] /\ epoch' \in [ Sessions -> Nat ] /\ loaded' \in [ Sessions -> BOOLEAN ] /\ turn' \in [ Sessions -> BOOLEAN ] /\ resting' \in [ Sessions -> BOOLEAN ]
    BY <1>4, GivenUpType, SetRowType, RowValues DEF Prompted, TypeOK
  <2> QED BY <1>4, <2>1, <2>2 DEF Prompted, TypeOK
<1>5. CASE Unload
  <2>1. req' \in [ Reqs -> Statuses ] /\ pc' \in Awaits /\ cur' \in Current /\ reached' \in BOOLEAN
    BY <1>5, EndsType, RowValues DEF Unload, PutOff, Refuses, Awaits, TypeOK
  <2>2. loaded' \in [ Sessions -> BOOLEAN ]
    BY <1>5 DEF Unload, TypeOK
  <2> QED BY <1>5, <2>1, <2>2 DEF Unload, TypeOK
<1>6. CASE Restoring
  <2>1. req' \in [ Reqs -> Statuses ] /\ pc' \in Awaits /\ cur' \in Current /\ reached' \in BOOLEAN
    BY <1>6, EndsType, RowValues DEF Restoring, PutOff, Awaits, TypeOK
  <2>2. row' \in [ Sessions -> Rows ]
    BY <1>6, SetRowType, RowValues DEF Restoring, TypeOK
  <2> QED BY <1>6, <2>1, <2>2 DEF Restoring, TypeOK
<1>7. CASE Loading
  <2>1. req' \in [ Reqs -> Statuses ] /\ pc' \in Awaits /\ cur' \in Current /\ reached' \in BOOLEAN
    BY <1>7, EndsType, RowValues DEF Loading, Awaits, TypeOK
  <2>2. /\ row' \in [ Sessions -> Rows ] /\ resting' \in [ Sessions -> BOOLEAN ]
        /\ loads' \in Nat /\ epoch' \in [ Sessions -> Nat ] /\ loaded' \in [ Sessions -> BOOLEAN ]
    BY <1>7, LoadType, SetRowType, RowValues DEF Loading, TypeOK
  <2> QED BY <1>7, <2>1, <2>2 DEF Loading, TypeOK
<1>8. CASE Verified
  <2>1. req' \in [ Reqs -> Statuses ] /\ pc' \in Awaits /\ cur' \in Current /\ reached' \in BOOLEAN
    BY <1>8, EndsType, RowValues DEF Verified, Awaits, TypeOK
  <2>2. row' \in [ Sessions -> Rows ]
    BY <1>8, SetRowType, RowValues DEF Verified, TypeOK
  <2>3. prompts' \in [ Reqs -> Nat ]
    BY <1>8 DEF Verified, TypeOK
  <2> QED BY <1>8, <2>1, <2>2, <2>3 DEF Verified, TypeOK
<1>9. CASE Read
  <2>1. req' \in [ Reqs -> Statuses ] /\ pc' \in Awaits /\ cur' \in Current /\ reached' \in BOOLEAN
    BY <1>9, EndsType, RowValues DEF Read, Awaits, TypeOK
  <2>2. row' \in [ Sessions -> Rows ] /\ paused' \in [ Sessions -> BOOLEAN ]
    BY <1>9, SetRowType, RowValues DEF Read, TypeOK
  <2>3. was' \in [ Sessions -> Rows ]
    BY <1>9, RowValues DEF Read, TypeOK
  <2> QED BY <1>9, <2>1, <2>2, <2>3 DEF Read, TypeOK
<1>10. CASE Released
  <2>1. req' \in [ Reqs -> Statuses ] /\ pc' \in Awaits /\ cur' \in Current /\ reached' \in BOOLEAN
    BY <1>10, EndsType, RowValues DEF Released, Awaits, TypeOK
  <2>2. row' \in [ Sessions -> Rows ] /\ epoch' \in [ Sessions -> Nat ] /\ loaded' \in [ Sessions -> BOOLEAN ] /\ turn' \in [ Sessions -> BOOLEAN ] /\ resting' \in [ Sessions -> BOOLEAN ]
    <3>1. CASE GivenUp(at[cur.r], "over")
      BY <3>1, GivenUpType, RowValues
    <3>2. CASE SetRow(at[cur.r], was[at[cur.r]]) /\ Forget(at[cur.r]) /\ UNCHANGED resting
      <4>1. row' \in [ Sessions -> Rows ]
        BY <3>2 DEF SetRow, TypeOK
      <4> QED BY <3>2, <4>1, ForgetType DEF TypeOK
    <3> QED BY <1>10, <3>1, <3>2 DEF Released
  <2>3. was' \in [ Sessions -> Rows ]
    BY <1>10, RowValues DEF Released, TypeOK
  <2> QED BY <1>10, <2>1, <2>2, <2>3 DEF Released, TypeOK
<1> QED BY <1>1, <1>2, <1>3, <1>4, <1>5, <1>6, <1>7, <1>8, <1>9, <1>10 DEF Answers

LEMMA NextTypes == TypeOK /\ [Next]_vars => TypeOK'
BY Steps, RequesterTypes, AroundTypes, FrameTypes, TakeTypes, AnswersTypes

\* Every variable keeps its type.
THEOREM TypeCorrect == Spec => []TypeOK
<1>1. Init => TypeOK
  BY InitTypes
<1>2. TypeOK /\ [Next]_vars => TypeOK'
  BY NextTypes
<1> QED BY <1>1, <1>2, PTL DEF Spec

-----------------------------------------------------------------------------
(* The drain.                                                              *)

LEMMA CurrentRequest ==
  ASSUME TypeOK, DrainInv, pc \notin { "idle", "next" }
  PROVE  /\ cur.r \in Reqs /\ at[cur.r] \in Sessions
         /\ pc = "checking" \/ pc \in Chain
BY DEF TypeOK, DrainInv, Chain, Begins, Reloads, Closing

\* Nobody but the drain writes over "starting".
LEMMA Ending ==
  ASSUME TypeOK, DrainInv, pc \in Chain, NEW status, Ends(status)
  PROVE  /\ req' = [ req EXCEPT ![cur.r] = status ]
         /\ pc' = "next" /\ cur' = Idle /\ cur'.r = NoReq
BY IdleType DEF Ends, Update, Done, DrainInv

LEMMA EndsDrain ==
  ASSUME TypeOK, DrainInv, pc \in Chain, NEW status \in { "queued", "completed", "failed" }, Ends(status),
         UNCHANGED << listed, cut >>
  PROVE  DrainInv'
<1>1. cur.r \in Reqs /\ req \in [ Reqs -> Statuses ] /\ listed[cur.r] = "none"
  BY CurrentRequest DEF Chain, Begins, Reloads, Closing, TypeOK, DrainInv
<1>2. \A r \in Reqs : r # cur.r => req'[r] = req[r]
  BY <1>1, Ending
<1>3. req'[cur.r] = status
  BY <1>1, Ending
<1> QED BY <1>1, <1>2, <1>3, Ending, Requests DEF DrainInv, Chain, Begins, Reloads, Closing

LEMMA GoesOnDrain ==
  ASSUME TypeOK, DrainInv, pc \in Chain, pc' \in Chain, UNCHANGED << req, listed, cur, cut >>,
         \/ pc \in Begins /\ pc' \in Begins \cup { "prompting" }
         \/ pc \in Reloads /\ pc' \in Reloads \cup { "prompting" }
         \/ pc \in Closing /\ pc' \in Closing
  PROVE  DrainInv'
<1>1. cur.r \in Reqs /\ listed[cur.r] = "none" /\ cur.r # NoReq
  BY CurrentRequest, Requests DEF Chain, Begins, Reloads, Closing, DrainInv
<1>2. pc \in Reloads => cur.r \notin Closes
  BY <1>1, Requests DEF DrainInv
<1>3. pc \in Begins => cur.r \notin Closes
  BY <1>1, Requests DEF DrainInv
<1> QED BY <1>1, <1>2, <1>3 DEF DrainInv, Chain, Begins, Reloads, Closing

-----------------------------------------------------------------------------
(* Steps on sessions.                                                      *)

\* What a step on sessions leaves standing of the traces of the requests.
Marks ==
  /\ \A s \in Sessions : row'[s] = "none" <=> row[s] = "none"
  /\ \A s \in Sessions : row[s] = "over" => row'[s] = "over"
  /\ loads' >= loads /\ \A s \in Sessions : epoch'[s] <= loads'
  /\ \A r \in Restarts : prompts[r] > 0 =>
        row'[at[r]] = "over" \/ since[r] = 0 \/ epoch'[at[r]] = 0 \/ epoch'[at[r]] > since[r]

LEMMA Types ==
  ASSUME TypeOK
  PROVE  /\ \A r \in Reqs : at[r] \in Sessions /\ since[r] \in Nat /\ prompts[r] \in Nat
         /\ \A s \in Sessions : epoch[s] \in Nat /\ row[s] \in Rows
         /\ loads \in Nat
         /\ row \in [ Sessions -> Rows ] /\ epoch \in [ Sessions -> Nat ]
         /\ req \in [ Reqs -> Statuses ] /\ void \subseteq Reqs
BY DEF TypeOK

LEMMA SameMarks ==
  ASSUME IInv, UNCHANGED << row, epoch, loads >>
  PROVE  Marks
BY Types, Requests DEF Marks, IInv, EpochInv, TaskInv, MarkInv

LEMMA SetRowMarks ==
  ASSUME IInv, NEW s \in Sessions, NEW status, status # "none", row[s] \notin { "none", "over" },
         SetRow(s, status), UNCHANGED << epoch, loads >>
  PROVE  Marks
BY Types, Requests DEF Marks, SetRow, IInv, EpochInv, TaskInv, MarkInv

\* A load is newer than all before it.
LEMMA LoadMarks ==
  ASSUME IInv, NEW s \in Sessions, NEW status, status # "none", row[s] \notin { "none", "over" },
         SetRow(s, status), Load(s)
  PROVE  Marks
<1>1. \A t \in Sessions : /\ t = s => row'[t] = status /\ epoch'[t] = loads + 1
                          /\ t # s => row'[t] = row[t] /\ epoch'[t] = epoch[t]
  BY Types DEF SetRow, Load, IInv
<1>2. \A t \in Sessions : epoch[t] <= loads
  BY DEF IInv, EpochInv
<1>3. \A r \in Reqs : since[r] <= loads
  BY DEF IInv, EpochInv
<1>4. loads' = loads + 1 /\ loads \in Nat
  BY Types DEF Load, IInv
<1>5. \A r \in Restarts : prompts[r] > 0 =>
        row'[at[r]] = "over" \/ since[r] = 0 \/ epoch'[at[r]] = 0 \/ epoch'[at[r]] > since[r]
  BY <1>1, <1>3, <1>4, Types, Requests DEF IInv, TaskInv, MarkInv
<1>6. \A t \in Sessions : epoch'[t] <= loads'
  BY <1>1, <1>2, <1>4, Types DEF IInv
<1> QED BY <1>1, <1>4, <1>5, <1>6 DEF Marks

\* Waking is a load, or leaves the epoch.
LEMMA WakeMarks ==
  ASSUME IInv, NEW s \in Sessions, row[s] \notin { "none", "over" }, Wake(s)
  PROVE  Marks /\ row' = [ row EXCEPT ![s] = "bound" ] /\ \A t \in Sessions : t # s => epoch'[t] = epoch[t]
<1>1. SetRow(s, "bound")
  BY DEF Wake
<1>2. CASE UNCHANGED << epoch, loads >>
  BY <1>1, <1>2, SetRowMarks DEF SetRow
<1>3. CASE Load(s)
  <2>1. \A t \in Sessions : t # s => epoch'[t] = epoch[t]
    BY <1>3, Types DEF Load, IInv
  <2> QED BY <1>1, <1>3, <2>1, LoadMarks DEF SetRow
<1> QED BY <1>2, <1>3 DEF Wake

\* A released session has no epoch: none is the epoch a restart noted.
LEMMA ForgetMarks ==
  ASSUME IInv, NEW s \in Sessions, NEW status, status # "none", row[s] # "none", row[s] = "over" => status = "over",
         SetRow(s, status), Forget(s), UNCHANGED loads
  PROVE  Marks
BY Types, Requests DEF Marks, SetRow, Forget, IInv, EpochInv, TaskInv, MarkInv

\* The drain comes to the end of a request.
LEMMA EndsKeeps ==
  ASSUME IInv, TypeOK', pc \in Chain, NEW status \in { "queued", "completed", "failed" }, Ends(status),
         Marks, UNCHANGED << at, since, granted, listed, prompts, cut, void >>,
         status = "queued" => (Dated(cur.r) => prompts[cur.r] = 0) /\ cur.r \notin Launches,
         status = "completed" => IF cur.r \in Closes THEN row'[at[cur.r]] = "over" ELSE Dated(cur.r) => prompts[cur.r] = 1
  PROVE  IInv'
<1> USE DEF Dated
<1>1. TypeOK /\ DrainInv /\ EpochInv /\ RowInv /\ TaskInv
  BY DEF IInv
<1>2. cur.r \in Reqs /\ req[cur.r] = "starting"
  BY <1>1, CurrentRequest DEF DrainInv, Chain, Begins, Reloads, Closing
<1>3. \A r \in Reqs : IF r = cur.r THEN req'[r] = status ELSE req'[r] = req[r]
  BY <1>1, <1>2, Ending, Types
<1>4. pc' = "next" /\ cur'.r = NoReq
  BY <1>1, Ending
<1>5. DrainInv'
  BY <1>1, EndsDrain
<1>6. ChainInv'
  BY <1>4 DEF ChainInv, Chain, Begins, Reloads, Closing
<1>7. EpochInv'
  BY <1>1, Types DEF EpochInv, Marks, TypeOK
<1>8. RowInv'
  BY <1>1, <1>2, <1>3, Types, Requests DEF RowInv, Marks
<1>9. TaskInv'
  <2>1. SentInv'
    BY <1>1, <1>2, <1>3, <1>4, Types, Requests DEF TaskInv, SentInv, Marks, Begins
  <2>2. MarkInv'
    BY <1>1, <1>2, <1>3, <1>4, Types, Requests DEF TaskInv, MarkInv, Marks, Begins
  <2>3. OutcomeInv'
    BY <1>1, <1>2, <1>3, <1>4, Types, Requests DEF TaskInv, OutcomeInv, Marks, Begins
  <2> QED BY <2>1, <2>2, <2>3 DEF TaskInv
<1> QED BY <1>5, <1>6, <1>7, <1>8, <1>9 DEF IInv

\* The drain comes to the next await of a request.
LEMMA GoesOnKeeps ==
  ASSUME IInv, TypeOK', pc \in Chain, pc' \in Chain \ { "prompting" },
         \/ pc \in Begins /\ pc' \in Begins
         \/ pc \in Reloads /\ pc' \in Reloads
         \/ pc \in Closing /\ pc' \in Closing,
         Marks, ChainInv', UNCHANGED << req, cur, at, since, granted, listed, prompts, cut, void >>
  PROVE  IInv'
<1> USE DEF Dated
<1>1. TypeOK /\ DrainInv /\ EpochInv /\ RowInv /\ TaskInv
  BY DEF IInv
<1>5. DrainInv'
  BY <1>1, GoesOnDrain
<1>7. EpochInv'
  BY <1>1, Types DEF EpochInv, Marks, TypeOK
<1>8. RowInv'
  BY <1>1, Types, Requests DEF RowInv, Marks
<1>9. TaskInv'
  <2>1. SentInv'
    BY <1>1, Types, Requests DEF TaskInv, SentInv, Marks, Begins, Reloads, Closing
  <2>2. MarkInv'
    BY <1>1, Types, Requests DEF TaskInv, MarkInv, Marks, Begins, Reloads, Closing
  <2>3. OutcomeInv'
    BY <1>1, Types, Requests DEF TaskInv, OutcomeInv, Marks, Begins, Reloads, Closing
  <2> QED BY <2>1, <2>2, <2>3 DEF TaskInv
<1> QED BY <1>5, <1>7, <1>8, <1>9 DEF IInv

\* The opening task is sent.
LEMMA SendsKeeps ==
  ASSUME IInv, TypeOK', pc \in { "adopting", "verifying" }, pc' = "prompting",
         prompts' = (IF reached' THEN [ prompts EXCEPT ![cur.r] = @ + 1 ] ELSE prompts),
         UNCHANGED << row, epoch, loads, req, cur, at, since, granted, listed, cut, void >>
  PROVE  IInv'
<1> USE DEF Dated
<1>1. TypeOK /\ DrainInv /\ EpochInv /\ RowInv /\ TaskInv /\ ChainInv
  BY DEF IInv
<1>2. /\ cur.r \in Reqs /\ req[cur.r] = "starting" /\ (Dated(cur.r) => prompts[cur.r] = 0) /\ row[at[cur.r]] = "bound"
      /\ cur.r \notin Closes /\ at[cur.r] \in Sessions
  BY <1>1, CurrentRequest, Requests DEF DrainInv, ChainInv, Chain, Begins, Reloads
<1>3. /\ Dated(cur.r) => prompts'[cur.r] = IF reached' THEN 1 ELSE 0
      /\ \A r \in Reqs : r # cur.r => prompts'[r] = prompts[r]
      /\ prompts \in [ Reqs -> Nat ]
  <2>1. prompts \in [ Reqs -> Nat ]
    BY <1>1 DEF TypeOK
  <2> QED BY <1>2, <2>1
<1>4. cur.r \in Restarts => epoch[at[cur.r]] > since[cur.r] /\ cur.r \notin Launches
  BY <1>1, <1>2, Requests DEF ChainInv, DrainInv, Begins
<1>5. DrainInv'
  BY <1>1, GoesOnDrain DEF Chain, Begins, Reloads
<1>6. ChainInv'
  BY <1>1, <1>2, <1>3, <1>4 DEF ChainInv, Begins, Reloads
<1>7. EpochInv'
  BY <1>1 DEF EpochInv
<1>8. RowInv'
  BY <1>1 DEF RowInv
<1>9. TaskInv'
  <2>1. SentInv'
    BY <1>1, <1>2, <1>3, <1>4, Types, Requests DEF TaskInv, SentInv, DrainInv, Begins, Reloads
  <2>2. MarkInv'
    <3>1. \A l \in Launches : prompts'[l] > 0 => row'[l] # "none"
      <4>1. cur.r \in Launches => at[cur.r] = cur.r
        BY <1>1 DEF RowInv
      <4> QED BY <1>1, <1>2, <1>3, <4>1, Requests DEF TaskInv, MarkInv
    <3>2. ASSUME NEW r \in Restarts, prompts'[r] > 0
          PROVE  /\ row[at[r]] # "none"
                 /\ row[at[r]] = "over" \/ since[r] = 0 \/ epoch[at[r]] = 0 \/ epoch[at[r]] > since[r]
      <4>1. at[r] \in Launches /\ r \in Reqs
        BY <1>1, Types, Requests
      <4>2. CASE r = cur.r
        BY <1>2, <1>4, <3>2, <4>1, <4>2
      <4>3. CASE r # cur.r
        <5>1. prompts[r] > 0
          BY <1>3, <3>2, <4>1, <4>3
        <5> QED BY <1>1, <4>1, <5>1 DEF TaskInv, MarkInv
      <4> QED BY <4>2, <4>3
    <3> QED BY <3>1, <3>2 DEF MarkInv
  <2>3. OutcomeInv'
    <3>1. \A r \in void : r # cur.r
      <4>1. \A r \in void : req[r] # "starting"
        BY <1>1 DEF TaskInv, OutcomeInv
      <4> QED BY <1>2, <4>1
    <3>2. \A r \in Reqs : req[r] = "completed" => r # cur.r
      BY <1>2
    <3>3. \A r \in void : ~granted' /\ (Dated(r)' => prompts'[r] = 0) /\ req'[r] \in { "queued", "cancelled", "failed" }
      BY <1>1, <1>3, <3>1, Types DEF TaskInv, OutcomeInv
    <3>4. \A r \in Launches \cup Restarts : req'[r] = "completed" /\ r \notin cut' => prompts'[r] = 1
      BY <1>1, <1>3, <3>2, Requests DEF TaskInv, OutcomeInv
    <3>5. \A r \in Closes : req'[r] = "completed" => row'[at'[r]] = "over"
      BY <1>1 DEF TaskInv, OutcomeInv
    <3> QED BY <3>3, <3>4, <3>5 DEF OutcomeInv
  <2> QED BY <2>1, <2>2, <2>3 DEF TaskInv
<1> QED BY <1>5, <1>6, <1>7, <1>8, <1>9 DEF IInv

-----------------------------------------------------------------------------
(* The steps keep the invariant.                                           *)

LEMMA RequesterKeeps ==
  ASSUME IInv, TypeOK', NEW r \in Reqs, Requester(r)
  PROVE  IInv'
<1> USE DEF Dated, requests, sessions, drain, history
<1>1. TypeOK /\ DrainInv /\ EpochInv /\ RowInv /\ TaskInv /\ ChainInv
  BY DEF IInv
<1>2. /\ UNCHANGED << at, granted, row, epoch, loads, listed, pc, cur, reached, was, prompts, cut, void >>
      /\ \A q \in Reqs : q # r => req'[q] = req[q] /\ since'[q] = since[q]
  BY <1>1, Types DEF Requester, Ask, Enqueue, Cancel, Update, TypeOK
<1>3. /\ req[r] \in { "none", "asking", "queued" }
      /\ req'[r] \in { "none", "asking", "queued", "cancelled" }
      /\ req[r] = "queued" => req'[r] = "cancelled"
      /\ r \notin Launches /\ req'[r] # "none" => row[at[r]] # "none"
      /\ since'[r] = since[r] \/ (since'[r] <= loads /\ req[r] = "none")
  <2>1. CASE Ask(r)
    <3>1. epoch[at[r]] <= loads /\ 0 <= loads
      BY <1>1, Types DEF EpochInv
    <3> QED BY <1>1, <2>1, <3>1, Types, Requests DEF Ask, Restorable, TypeOK
  <2>2. CASE Enqueue(r) \/ Cancel(r)
    <3>1. r \notin Launches => row[at[r]] # "none"
      BY <1>1, <2>2, Requests DEF RowInv, Enqueue, Cancel
    <3> QED BY <1>1, <2>2, <3>1, Types DEF Enqueue, Cancel, Update
  <2> QED BY <2>1, <2>2 DEF Requester
<1>4. pc \in Chain => cur.r # r
  BY <1>1, <1>3 DEF DrainInv
<1>5. DrainInv'
  BY <1>1, <1>2, <1>3, <1>4, CurrentRequest DEF DrainInv, Chain, Begins, Reloads, Closing
<1>6. ChainInv'
  BY <1>1, <1>2, <1>3, <1>4, CurrentRequest DEF ChainInv, Chain, Begins, Reloads, Closing
<1>7. EpochInv'
  BY <1>1, <1>2, <1>3 DEF EpochInv
<1>8. RowInv'
  BY <1>1, <1>2, <1>3, Types, Requests DEF RowInv
<1>9. TaskInv'
  <2>1. req[r] # "queued" => prompts[r] = 0
    BY <1>1, <1>3 DEF TaskInv, SentInv
  <2>5. req[r] = "queued" => since'[r] = since[r] /\ (Dated(r) => prompts[r] = 0)
    BY <1>1, <1>3 DEF TaskInv, SentInv
  <2>2. SentInv'
    BY <1>1, <1>2, <1>3, <2>1, <2>5, Types, Requests DEF TaskInv, SentInv
  <2>3. MarkInv'
    BY <1>1, <1>2, <1>3, <2>1, <2>5, Types, Requests DEF TaskInv, MarkInv
  <2>4. OutcomeInv'
    BY <1>1, <1>2, <1>3, Types, Requests DEF TaskInv, OutcomeInv
  <2> QED BY <2>2, <2>3, <2>4 DEF TaskInv
<1> QED BY <1>5, <1>6, <1>7, <1>8, <1>9 DEF IInv

\* The person, the provider and reconciliation leave the session the drain is at alone.
LEMMA AroundKeeps ==
  ASSUME IInv, TypeOK', NEW s \in Sessions, Around(s)
  PROVE  IInv'
<1> USE DEF Dated, requests, sessions, drain, history
<1>1. TypeOK /\ DrainInv /\ EpochInv /\ RowInv /\ TaskInv /\ ChainInv
  BY DEF IInv
<1>2. UNCHANGED << req, at, since, granted, listed, pc, cur, reached, was, prompts, cut, void >>
  BY DEF Around, PersonPauses, PersonSpeaks, PersonOpens, Rests, RestoreFails, PersonReleases, TurnEnds, ConnectionLost, Reconcile
<1>3. CASE UNCHANGED << row, epoch, loads >>
  BY <1>1, <1>2, <1>3 DEF IInv, DrainInv, ChainInv, EpochInv, RowInv, TaskInv, SentInv, MarkInv, OutcomeInv
<1>4. CASE ~InChain(s) /\ Marks /\ \A t \in Sessions : t # s => row'[t] = row[t] /\ epoch'[t] = epoch[t]
  <2>1. pc \in Chain => cur.r \in Reqs /\ at[cur.r] \in Sessions \ {s}
    BY <1>1, <1>4, CurrentRequest DEF InChain, Chain, Begins, Reloads, Closing
  <2>2. ChainInv'
    BY <1>1, <1>2, <1>4, <2>1 DEF ChainInv, Chain, Begins, Reloads, Closing
  <2>3. DrainInv'
    BY <1>1, <1>2 DEF DrainInv
  <2>4. EpochInv'
    BY <1>1, <1>2, <1>4, Types DEF EpochInv, Marks, TypeOK
  <2>5. RowInv'
    BY <1>1, <1>2, <1>4, Types, Requests DEF RowInv, Marks
  <2>6. SentInv' /\ OutcomeInv'
    BY <1>1, <1>2, <1>4, Types, Requests DEF TaskInv, SentInv, OutcomeInv, Marks
  <2>7. MarkInv'
    BY <1>1, <1>2, <1>4, Types, Requests DEF TaskInv, MarkInv, Marks
  <2> QED BY <2>2, <2>3, <2>4, <2>5, <2>6, <2>7 DEF IInv, TaskInv
<1>5. CASE PersonPauses(s) \/ Rests(s) \/ TurnEnds(s) \/ ConnectionLost(s)
  BY <1>3, <1>5 DEF PersonPauses, Rests, TurnEnds, ConnectionLost
<1>10. ASSUME ~InChain(s), row[s] \notin { "none", "over" }, Wake(s) PROVE IInv'
  BY <1>1, <1>4, <1>10, WakeMarks, Types
<1>11. ASSUME ~InChain(s), row[s] \notin { "none", "over" }, NEW status \in { "over", "error" }, SetRow(s, status),
              UNCHANGED << epoch, loads >>
       PROVE  IInv'
  BY <1>1, <1>4, <1>11, SetRowMarks, Types DEF SetRow
<1>6. CASE PersonSpeaks(s)
  BY <1>6, <1>10 DEF PersonSpeaks
<1>7. CASE RestoreFails(s)
  BY <1>7, <1>11 DEF RestoreFails
<1>8. CASE PersonReleases(s)
  <2>1. row[s] \notin { "none", "over" } /\ ~InChain(s) /\ UNCHANGED loads /\ row \in [ Sessions -> Rows ]
    BY <1>1, <1>8, Types DEF PersonReleases, Restorable
  <2>2. PICK status \in { row[s], "over" } : SetRow(s, status) /\ Forget(s)
    BY <1>8, <2>1 DEF PersonReleases, GivenUp, SetRow
  <2>3. Marks
    BY <2>1, <2>2, ForgetMarks
  <2> QED BY <1>1, <1>4, <2>1, <2>2, <2>3, Types DEF SetRow, Forget
<1>9. CASE Reconcile(s)
  BY <1>9, <1>10, <1>11 DEF Reconcile
<1>12. CASE PersonOpens(s)
  BY <1>10, <1>11, <1>12 DEF PersonOpens, Restorable
<1> QED BY <1>5, <1>6, <1>7, <1>8, <1>9, <1>12 DEF Around

\* What carries out no request.
LEMMA FrameKeeps ==
  ASSUME IInv, TypeOK', Revoke \/ RequesterFinishes \/ BeginDrain \/ EndDrain \/ Crash \/ UNCHANGED vars
  PROVE  IInv'
<1> USE DEF Dated, requests, sessions, drain, history
<1>1. TypeOK /\ DrainInv /\ EpochInv /\ RowInv /\ TaskInv /\ ChainInv
  BY DEF IInv
<1> USE DEF IInv, DrainInv, ChainInv, EpochInv, RowInv, TaskInv, SentInv, MarkInv, OutcomeInv
<1>2. CASE Revoke
  BY <1>1, <1>2 DEF Revoke
<1>3. CASE RequesterFinishes
  BY <1>1, <1>3 DEF RequesterFinishes
<1>4. CASE UNCHANGED vars
  BY <1>1, <1>4 DEF vars
<1>5. CASE BeginDrain
  BY <1>1, <1>5, Types DEF BeginDrain, Begins, Reloads, Closing, Chain
<1>6. CASE EndDrain
  BY <1>1, <1>6, Types DEF EndDrain, Begins, Reloads, Closing, Chain
<1>7. CASE Crash
  <2>1. /\ \A r \in Reqs : req'[r] = IF req[r] = "asking" THEN "none" ELSE req[r]
        /\ cut' = cut \cup { r \in Reqs : req[r] = "starting" }
        /\ pc' = "idle" /\ cur'.r = NoReq /\ \A r \in Reqs : listed'[r] = "none"
    BY <1>7, IdleType DEF Crash
  <2>2. UNCHANGED << at, since, granted, row, epoch, loads, prompts, void >>
    BY <1>7 DEF Crash
  <2>3. DrainInv' /\ ChainInv'
    BY <1>1, <2>1, <2>2 DEF Begins, Reloads, Closing, Chain
  <2>4. EpochInv' /\ RowInv'
    BY <1>1, <2>1, <2>2, Requests
  <2>5. SentInv'
    BY <1>1, <2>1, <2>2
  <2>6. MarkInv'
    BY <1>1, <2>1, <2>2 DEF Begins
  <2>7. OutcomeInv'
    BY <1>1, <2>1, <2>2, Requests, Types
  <2> QED BY <2>3, <2>4, <2>5, <2>6, <2>7
<1> QED BY <1>2, <1>3, <1>4, <1>5, <1>6, <1>7

\* The drain is done with a request it has not begun to carry out.
LEMMA DoneKeeps ==
  ASSUME IInv, TypeOK', NEW r \in Reqs, NEW status \in { "queued", "cancelled", "failed", "completed" },
         pc = "next" \/ (pc = "checking" /\ cur.r = r), Done,
         \A q \in Reqs : listed'[q] = IF q = r THEN "none" ELSE listed[q],
         UNCHANGED req \/ (req[r] \in { "queued", "starting" } /\ req' = [ req EXCEPT ![r] = status ]),
         status = "queued" => req[r] = "queued",
         status = "cancelled" /\ r \in Launches => row[r] = "none",
         status = "completed" => req[r] = "starting" /\ r \notin Closes,
         UNCHANGED << at, since, granted, row, epoch, loads, prompts, cut, void >>
  PROVE  IInv'
<1> USE DEF Dated
<1>1. TypeOK /\ DrainInv /\ EpochInv /\ RowInv /\ TaskInv
  BY DEF IInv
<1>2. pc' = "next" /\ cur'.r = NoReq
  BY IdleType DEF Done
<1>3. /\ \A q \in Reqs : q # r => req'[q] = req[q]
      /\ req'[r] = req[r] \/ (req[r] \in { "queued", "starting" } /\ req'[r] = status)
  BY <1>1, Types
<1>4. \A q \in Reqs : req[q] = "starting" => q \in cut
  BY <1>1, Requests DEF DrainInv
<1>5. DrainInv'
  BY <1>1, <1>2, <1>3, <1>4 DEF DrainInv, Chain, Begins, Reloads, Closing
<1>6. ChainInv'
  BY <1>2 DEF ChainInv, Chain, Begins, Reloads, Closing
<1>7. EpochInv'
  BY <1>1 DEF EpochInv
<1>8. RowInv'
  BY <1>1, <1>3, Types, Requests DEF RowInv
<1>9. TaskInv'
  <2>1. SentInv'
    BY <1>1, <1>3, Types, Requests DEF TaskInv, SentInv
  <2>2. MarkInv'
    BY <1>1, <1>2 DEF TaskInv, MarkInv, Begins
  <2>3. OutcomeInv'
    BY <1>1, <1>3, <1>4, Types, Requests DEF TaskInv, OutcomeInv
  <2> QED BY <2>1, <2>2, <2>3 DEF TaskInv
<1> QED BY <1>5, <1>6, <1>7, <1>8, <1>9 DEF IInv

\* The drain takes up a request: a close goes to its session, another is looked at first.
LEMMA BeginsKeeps ==
  ASSUME IInv, TypeOK', NEW r \in Reqs, pc = "next", cur'.r = r,
         \/ r \in Closes /\ pc' = "reading" /\ req' = [ req EXCEPT ![r] = "starting" ]
         \/ /\ r \notin Closes /\ pc' = "checking" /\ cur'.seen = "queued"
            /\ \/ UNCHANGED req /\ req[r] # "starting"
               \/ /\ req[r] = "starting" /\ req' = [ req EXCEPT ![r] = "queued" ]
                  /\ (Dated(r) => prompts[r] = 0) /\ (r \in Launches => row[r] = "none"),
         \A q \in Reqs : listed'[q] = IF q = r THEN "none" ELSE listed[q],
         r \in Closes => granted /\ req[r] \in { "queued", "starting" },
         UNCHANGED << at, since, granted, row, epoch, loads, prompts, cut, void >>
  PROVE  IInv'
<1> USE DEF Dated
<1>1. TypeOK /\ DrainInv /\ EpochInv /\ RowInv /\ TaskInv
  BY DEF IInv
<1>2. pc' \in { "reading", "checking" } /\ r # NoReq /\ cur.r = NoReq
  BY <1>1, Requests DEF DrainInv
<1>3. \A q \in Reqs : q # r => req'[q] = req[q]
  BY <1>1, Types
<1>4. \A q \in Reqs : req[q] = "starting" => q \in cut
  BY <1>1, <1>2, Requests DEF DrainInv
<1>5. /\ req'[r] = req[r] \/ (req'[r] = "starting" /\ r \in Closes /\ req[r] \in { "queued", "starting" })
         \/ (/\ req'[r] = "queued" /\ req[r] = "starting"
             /\ r \notin Closes /\ (Dated(r) => prompts[r] = 0) /\ (r \in Launches => row[r] = "none"))
      /\ pc' = "reading" => r \in Closes /\ req'[r] = "starting"
      /\ pc' = "checking" => r \notin Closes /\ cur'.seen = "queued" /\ req'[r] # "starting"
  BY <1>1, Types
<1>6. DrainInv'
  BY <1>1, <1>2, <1>3, <1>4, <1>5 DEF DrainInv, Chain, Begins, Reloads, Closing
<1>7. ChainInv'
  BY <1>1, <1>2, <1>5 DEF ChainInv, TaskInv, SentInv, Chain, Begins, Reloads, Closing
<1>8. EpochInv'
  BY <1>1 DEF EpochInv
<1>9. RowInv'
  BY <1>1, <1>3, <1>5, Types, Requests DEF RowInv
<1>10. TaskInv'
  <2>1. SentInv'
    BY <1>1, <1>3, <1>5, Types, Requests DEF TaskInv, SentInv
  <2>2. MarkInv'
    BY <1>1, <1>2 DEF TaskInv, MarkInv, Begins
  <2>3. OutcomeInv'
    <3>1. req[r] = "starting" => r \notin void
      BY <1>1 DEF TaskInv, OutcomeInv
    <3>2. r \in Closes => r \notin void
      BY <1>1 DEF TaskInv, OutcomeInv
    <3> QED BY <1>1, <1>3, <1>5, <3>1, <3>2, Types, Requests DEF TaskInv, OutcomeInv
  <2> QED BY <2>1, <2>2, <2>3 DEF TaskInv
<1> QED BY <1>6, <1>7, <1>8, <1>9, <1>10 DEF IInv

LEMMA TakeKeeps ==
  ASSUME IInv, TypeOK', NEW r \in Reqs, Take(r)
  PROVE  IInv'
<1> USE DEF Dated, sessions, history
<1>1. TypeOK /\ DrainInv /\ EpochInv /\ RowInv /\ TaskInv
  BY DEF IInv
<1>2. /\ pc = "next" /\ UNCHANGED << at, since, granted, row, epoch, loads, prompts, cut, void >>
      /\ \A q \in Reqs : listed'[q] = IF q = r THEN "none" ELSE listed[q]
  BY <1>1, Types DEF Take, TypeOK
<1>3. /\ listed[r] \in { "queued", "starting" }
      /\ listed[r] = "starting" <=> req[r] = "starting"
  BY <1>1 DEF DrainInv, Take
<1>4. ASSUME NEW status \in { "cancelled", "failed", "completed" }, Done,
             UNCHANGED req \/ (req[r] \in { "queued", "starting" } /\ req' = [ req EXCEPT ![r] = status ]),
             status = "cancelled" /\ r \in Launches => row[r] = "none",
             status = "completed" => req[r] = "starting" /\ r \notin Closes
      PROVE  IInv'
  BY <1>2, <1>4, DoneKeeps
<1>5. CASE r \in Closes
  <2>1. Close(r, listed[r])
    BY <1>5 DEF Take
  <2>2. CASE finished \/ ~granted \/ req[r] # listed[r]
    <3>1. Done /\ (UNCHANGED req \/ (req[r] = listed[r] /\ req' = [ req EXCEPT ![r] = "cancelled" ]))
      BY <2>1, <2>2 DEF Close, Update
    <3> QED BY <1>3, <1>4, <1>5, <3>1, Requests
  <2>3. CASE ~(finished \/ ~granted \/ req[r] # listed[r])
    <3>1. /\ granted /\ req[r] = listed[r] /\ req' = [ req EXCEPT ![r] = "starting" ]
          /\ pc' = "reading" /\ cur'.r = r
      BY <2>1, <2>3 DEF Close, Update, Carry
    <3> QED BY <1>2, <1>3, <1>5, <3>1, BeginsKeeps
  <2> QED BY <2>2, <2>3
<1>6. CASE r \notin Closes /\ listed[r] = "starting"
  <2>1. Resume(r) /\ req[r] = "starting"
    BY <1>3, <1>6 DEF Take
  <2> DEFINE s == at[r]
             begun == row[s] = "bound" /\ (r \in Launches \/ epoch[s] # since[r])
             over == row[s] \in { "error", "failed", "releasing", "over" }
  <2>2. \/ Update(r, "starting", "completed") /\ Done
        \/ UNCHANGED req /\ Done
        \/ Update(r, "starting", "failed") /\ Done
        \/ ~begun /\ row[s] # "starting" /\ ~over /\ req' = [ req EXCEPT ![r] = "cancelled" ] /\ Done
        \/ ~begun /\ row[s] # "starting" /\ ~over /\ req' = [ req EXCEPT ![r] = "queued" ] /\ Carry(r, "queued", "checking")
    BY <2>1 DEF Resume
  <2>3. ASSUME ~begun, row[s] # "starting", ~over
        PROVE  (Dated(r) => prompts[r] = 0) /\ (r \in Launches => row[r] = "none")
    <3>1. row[s] \in { "none", "bound" } /\ prompts[r] \in Nat
      BY <1>1, <2>3, Types DEF Rows
    <3>2. CASE r \in Launches
      BY <1>1, <2>3, <3>1, <3>2 DEF RowInv, TaskInv, MarkInv
    <3>3. CASE r \in Restarts
      <4>1. row[s] = "bound" /\ epoch[s] = since[r] /\ since[r] \in Nat
        BY <1>1, <2>1, <2>3, <3>1, <3>3, Types DEF RowInv
      <4>2. ~(epoch[s] > since[r])
        BY <4>1
      <4>3. prompts[r] > 0 => row[s] = "over" \/ since[r] = 0 \/ epoch[s] = 0 \/ epoch[s] > since[r]
        BY <1>1, <3>3 DEF TaskInv, MarkInv
      <4>5. r \in cut
        BY <1>1, <1>2, <2>1, Requests DEF DrainInv
      <4>4. r \notin Launches
        BY <3>3, Requests
      <4> QED BY <3>1, <3>3, <4>1, <4>2, <4>3, <4>4, <4>5
    <3> QED BY <1>6, <3>2, <3>3, Requests
  <2>4. ASSUME Update(r, "starting", "completed"), Done PROVE IInv'
    BY <1>4, <1>6, <2>1, <2>4 DEF Update
  <2>5. ASSUME UNCHANGED req, Done PROVE IInv'
    BY <1>4, <2>5
  <2>6. ASSUME Update(r, "starting", "failed"), Done PROVE IInv'
    BY <1>4, <2>1, <2>6 DEF Update
  <2>7. ASSUME ~begun, row[s] # "starting", ~over, req' = [ req EXCEPT ![r] = "cancelled" ], Done PROVE IInv'
    BY <1>4, <2>1, <2>3, <2>7
  <2>8. ASSUME ~begun, row[s] # "starting", ~over, req' = [ req EXCEPT ![r] = "queued" ], Carry(r, "queued", "checking")
        PROVE IInv'
    <3>1. pc' = "checking" /\ cur'.r = r /\ cur'.seen = "queued"
      BY <2>8 DEF Carry
    <3> QED BY <1>2, <1>6, <2>1, <2>3, <2>8, <3>1, BeginsKeeps
  <2> HIDE DEF begun, over
  <2> QED BY <2>2, <2>4, <2>5, <2>6, <2>7, <2>8
<1>7. CASE r \notin Closes /\ listed[r] = "queued"
  <2>1. Admit(r, "queued") /\ req[r] # "starting"
    BY <1>3, <1>7 DEF Take
  <2>2. CASE finished \/ ~granted
    <3>1. Done /\ (UNCHANGED req \/ (req[r] = "queued" /\ req' = [ req EXCEPT ![r] = "cancelled" ]))
      BY <2>1, <2>2 DEF Admit, Update
    <3>2. req[r] = "queued" /\ r \in Launches => row[r] = "none"
      BY <1>1 DEF RowInv
    <3> QED BY <1>2, <3>1, <3>2, DoneKeeps
  <2>3. CASE ~(finished \/ ~granted)
    <3>1. UNCHANGED req /\ pc' = "checking" /\ cur'.r = r /\ cur'.seen = "queued"
      BY <2>1, <2>3 DEF Admit, Carry
    <3> QED BY <1>2, <1>7, <2>1, <3>1, BeginsKeeps
  <2> QED BY <2>2, <2>3
<1> QED BY <1>3, <1>5, <1>6, <1>7

\* A queued request is looked at, and begins on its session or does not.
LEMMA CheckedKeeps ==
  ASSUME IInv, TypeOK', Checked
  PROVE  IInv'
<1> USE DEF Dated, history
<1> DEFINE r == cur.r
           s == at[r]
<1>1. TypeOK /\ DrainInv /\ EpochInv /\ RowInv /\ TaskInv
  BY DEF IInv
<1>2. /\ r \in Reqs /\ r \notin Closes /\ s \in Sessions /\ pc = "checking" /\ cur.seen = "queued"
      /\ req[r] # "starting" /\ listed[r] = "none" /\ cur.r # NoReq
  BY <1>1, CurrentRequest, Requests DEF DrainInv, Checked
<1>3. UNCHANGED << at, since, granted, epoch, listed, prompts, cut, void >>
  BY DEF Checked
<1>4. ASSUME NEW status \in { "failed", "cancelled", "queued" }, Update(r, "queued", status), Done, UNCHANGED << row, loads >>
      PROVE  IInv'
  <2>1. UNCHANGED req \/ (req[r] = "queued" /\ req' = [ req EXCEPT ![r] = status ])
    BY <1>4 DEF Update
  <2>2. \A q \in Reqs : listed'[q] = IF q = r THEN "none" ELSE listed[q]
    BY <1>2, <1>3
  <2>3. r \in Launches /\ req[r] = "queued" => row[r] = "none"
    BY <1>1 DEF RowInv
  <2>4. CASE UNCHANGED req
    BY <1>2, <1>3, <1>4, <2>2, <2>4, DoneKeeps
  <2>5. CASE req[r] = "queued" /\ req' = [ req EXCEPT ![r] = status ]
    BY <1>2, <1>3, <1>4, <2>2, <2>3, <2>5, DoneKeeps
  <2> QED BY <2>1, <2>4, <2>5
<1>5. ASSUME UNCHANGED req, Done, UNCHANGED << row, loads >> PROVE IInv'
  <2>1. \A q \in Reqs : listed'[q] = IF q = r THEN "none" ELSE listed[q]
    BY <1>2, <1>3
  <2> QED BY <1>2, <1>3, <1>5, <2>1, DoneKeeps
<1>6. ASSUME NEW await, req[r] = "queued", Update(r, "queued", "starting"), Carry(r, "starting", await), UNCHANGED loads, granted,
             \/ r \in Launches /\ await = "starting" /\ SetRow(s, "starting")
             \/ r \in Restarts /\ await = "unloading" /\ UNCHANGED row
      PROVE  IInv'
  <2>1. /\ req' = [ req EXCEPT ![r] = "starting" ] /\ pc' = await /\ cur'.r = r
        /\ \A q \in Reqs : q # r => req'[q] = req[q]
        /\ req'[r] = "starting"
    BY <1>1, <1>2, <1>6, Types DEF Update, Carry
  <2>2. (Dated(r) => prompts[r] = 0) /\ r \notin void
    BY <1>1, <1>2, <1>6 DEF TaskInv, SentInv, OutcomeInv
  <2>3. \A t \in Sessions : row'[t] = IF r \in Launches /\ t = r THEN "starting" ELSE row[t]
    <3>1. r \in Launches => s = r
      BY <1>1 DEF RowInv
    <3>2. r \in Restarts => r \notin Launches
      BY <1>2, Requests
    <3> QED BY <1>1, <1>6, <3>1, <3>2, Types DEF SetRow
  <2>4. r \in Launches => row[r] = "none" /\ s = r /\ r \notin Restarts
    BY <1>1, <1>2, <1>6, Requests DEF RowInv
  <2>5. await \in { "starting", "unloading" }
    BY <1>6
  <2>6. DrainInv'
    BY <1>1, <1>2, <1>3, <1>6, <2>1 DEF DrainInv, Chain, Begins, Reloads, Closing
  <2>7. ChainInv'
    BY <1>2, <1>3, <1>6, <2>1, <2>2, <2>3, <2>4 DEF ChainInv, Chain, Begins, Reloads, Closing
  <2>8. EpochInv'
    BY <1>1, <1>3, <1>6 DEF EpochInv
  <2>9. RowInv'
    <3>1. \A l \in Launches : req'[l] \in { "none", "asking", "queued", "cancelled" } => row'[l] = "none"
      BY <1>1, <1>2, <2>1, <2>3, Requests DEF RowInv
    <3>2. \A t \in Sessions : row[t] # "none" => row'[t] # "none"
      BY <2>3
    <3>3. \A q \in Restarts \cup Closes : req'[q] # "none" => row[at[q]] # "none"
      BY <1>1, <1>2, <1>6, <2>1, Requests DEF RowInv
    <3>4. \A q \in Restarts \cup Closes : at[q] \in Sessions
      BY <1>1, Types, Requests
    <3>5. \A l \in Launches : at'[l] = l
      BY <1>1, <1>3 DEF RowInv
    <3> QED BY <1>3, <3>1, <3>2, <3>3, <3>4, <3>5 DEF RowInv
  <2>10. SentInv'
    BY <1>1, <1>2, <1>3, <2>1, <2>2, Requests DEF TaskInv, SentInv
  <2>11. MarkInv'
    <3>1. \A t \in Sessions : row[t] # "none" => row'[t] = row[t]
      BY <2>3, <2>4
    <3> QED BY <1>1, <1>3, <1>6, <2>1, <3>1, Types, Requests DEF TaskInv, MarkInv
  <2>12. OutcomeInv'
    <3>1. \A q \in void : ~granted' /\ (Dated(q)' => prompts'[q] = 0) /\ req'[q] \in { "queued", "cancelled", "failed" }
      BY <1>1, <1>3, <1>6, <2>1, <2>2, Types DEF TaskInv, OutcomeInv
    <3>2. \A q \in Launches \cup Restarts : req'[q] = "completed" /\ q \notin cut' => prompts'[q] = 1
      BY <1>1, <1>3, <2>1, Requests DEF TaskInv, OutcomeInv
    <3>3. \A q \in Closes : req'[q] = "completed" => row'[at'[q]] = "over"
      <4>1. \A t \in Sessions : row[t] = "over" => row'[t] = "over"
        BY <2>3, <2>4
      <4> QED BY <1>1, <1>3, <2>1, <4>1, Types, Requests DEF TaskInv, OutcomeInv
    <3> QED BY <1>3, <3>1, <3>2, <3>3 DEF OutcomeInv
  <2> QED BY <2>6, <2>7, <2>8, <2>9, <2>10, <2>11, <2>12 DEF IInv, TaskInv
<1>7. \/ (\E status \in { "failed", "cancelled", "queued" } : Update(r, "queued", status)) /\ Done /\ UNCHANGED << row, loads >>
      \/ UNCHANGED req /\ Done /\ UNCHANGED << row, loads >>
      \/ Update(r, "queued", "cancelled") /\ Done /\ UNCHANGED << row, loads >>
      \/ /\ req[r] = "queued" /\ granted /\ Update(r, "queued", "starting") /\ UNCHANGED loads
         /\ \/ r \in Launches /\ SetRow(s, "starting") /\ Carry(r, "starting", "starting")
            \/ r \in Restarts /\ Carry(r, "starting", "unloading") /\ UNCHANGED row
  BY <1>2 DEF Checked
<1> HIDE DEF r, s
<1> QED BY <1>4, <1>5, <1>6, <1>7

LEMMA AnswersKeep ==
  ASSUME IInv, TypeOK', Answers
  PROVE  IInv'
<1> USE DEF Dated, history
<1> DEFINE r == cur.r
           s == at[r]
<1>1. TypeOK /\ DrainInv /\ ChainInv /\ RowInv
  BY DEF IInv
<1>2. ASSUME pc \in Chain
      PROVE  /\ r \in Reqs /\ s \in Sessions
             /\ pc \in Begins => r \in Launches /\ r \notin Restarts /\ r \notin Closes
             /\ pc \in Reloads => r \in Restarts /\ r \notin Launches /\ r \notin Closes
             /\ pc \in Closing => r \in Closes /\ r \notin Launches /\ r \notin Restarts
             /\ pc = "prompting" => r \notin Closes
             /\ r \in Launches => s = r
             /\ pc # "prompting" /\ Dated(r) => prompts[r] = 0
  BY <1>1, <1>2, CurrentRequest, Requests DEF DrainInv, ChainInv, RowInv, Chain, Begins, Reloads, Closing
<1>3. CASE Checked
  BY <1>3, CheckedKeeps
<1>4. CASE Started
  <2>1. pc = "starting" /\ pc \in Chain /\ pc \in Begins /\ r \in Launches /\ s = r /\ r \in Reqs
    BY <1>2, <1>4 DEF Started, Chain, Begins
  <2>2. row[s] = "starting" /\ (Dated(r) => prompts[r] = 0)
    BY <1>1, <1>2, <2>1 DEF ChainInv
  <2>3. UNCHANGED << at, since, granted, listed, prompts, cut, void >>
    BY <1>4 DEF Started
  <2>4. CASE GivenUp(s, "failed") /\ Ends("failed") /\ UNCHANGED loads
    <3>1. Marks
      BY <2>1, <2>2, <2>4, ForgetMarks, Requests DEF GivenUp
    <3> QED BY <2>1, <2>3, <2>4, <3>1, EndsKeeps
  <2>5. CASE Load(s) /\ SetRow(s, "bound") /\ pc' = "adopting" /\ UNCHANGED << req, cur, reached >>
    <3>1. Marks
      BY <2>1, <2>2, <2>5, LoadMarks, Requests
    <3>2. row'[s] = "bound"
      BY <1>1, <2>1, <2>5, Types, Requests DEF SetRow
    <3>3. ChainInv'
      BY <2>1, <2>2, <2>3, <2>5, <3>2 DEF ChainInv
    <3> QED BY <2>1, <2>3, <2>5, <3>1, <3>3, GoesOnKeeps DEF Begins, Chain
  <2> QED BY <1>4, <2>4, <2>5 DEF Started
<1>5. CASE Adopted
  <2>1. pc = "adopting" /\ pc \in Chain /\ pc \in Begins /\ r \in Launches /\ s = r /\ r \in Reqs
    BY <1>2, <1>5 DEF Adopted, Chain, Begins
  <2>2. row[s] = "bound" /\ (Dated(r) => prompts[r] = 0)
    BY <1>1, <1>2, <2>1 DEF ChainInv
  <2>3. UNCHANGED << at, since, granted, listed, cut, void, loads >>
    BY <1>5 DEF Adopted
  <2>4. CASE GivenUp(s, "failed") /\ Ends("failed") /\ UNCHANGED prompts
    <3>1. Marks
      BY <2>1, <2>2, <2>3, <2>4, ForgetMarks, Requests DEF GivenUp
    <3> QED BY <2>1, <2>3, <2>4, <3>1, EndsKeeps
  <2>5. CASE /\ pc' = "prompting" /\ UNCHANGED << req, row, epoch, cur >>
             /\ prompts' = IF reached' THEN [ prompts EXCEPT ![r] = @ + 1 ] ELSE prompts
    BY <2>1, <2>3, <2>5, SendsKeeps
  <2> QED BY <1>5, <2>4, <2>5 DEF Adopted
<1>6. CASE Prompted
  <2>1. pc = "prompting" /\ pc \in Chain /\ r \in Reqs /\ s \in Sessions /\ r \notin Closes /\ (r \in Launches => s = r)
    BY <1>2, <1>6 DEF Prompted, Chain
  <2>2. row[s] = "bound" /\ (Dated(r) => prompts[r] = IF reached THEN 1 ELSE 0)
    BY <1>1, <2>1 DEF ChainInv
  <2>3. UNCHANGED << at, since, granted, listed, prompts, cut, void, loads >>
    BY <1>6 DEF Prompted
  <2>4. CASE reached /\ Ends("completed") /\ UNCHANGED << row, epoch >>
    <3>1. Marks
      BY <2>3, <2>4, SameMarks
    <3> QED BY <2>1, <2>2, <2>3, <2>4, <3>1, EndsKeeps
  <2>5. CASE Ends("failed") /\ r \in Launches /\ GivenUp(s, "failed")
    <3>1. Marks
      BY <2>1, <2>2, <2>3, <2>5, ForgetMarks DEF GivenUp
    <3> QED BY <2>1, <2>3, <2>5, <3>1, EndsKeeps
  <2>6. CASE Ends("failed") /\ SetRow(s, "error") /\ UNCHANGED epoch
    <3>1. Marks
      BY <2>1, <2>2, <2>3, <2>6, SetRowMarks
    <3> QED BY <2>1, <2>3, <2>6, <3>1, EndsKeeps
  <2> QED BY <1>6, <2>4, <2>5, <2>6 DEF Prompted
<1>7. ASSUME pc \in Reloads, NEW status \in { "queued", "failed" }, Ends(status), UNCHANGED << row, epoch, loads >>,
             UNCHANGED << at, since, granted, listed, prompts, cut, void >>
      PROVE  IInv'
  <2>1. Marks /\ pc \in Chain /\ (Dated(r) => prompts[r] = 0) /\ r \notin Launches
    BY <1>2, <1>7, SameMarks DEF Chain, Reloads
  <2> QED BY <1>7, <2>1, EndsKeeps
<1>8. ASSUME pc \in Reloads, pc' \in { "restoring", "loading" }, UNCHANGED << req, cur >>, Marks,
             pc' = "loading" => row'[s] \in { "starting", "error" },
             UNCHANGED << at, since, granted, listed, prompts, cut, void >>
      PROVE  IInv'
  <2>1. pc \in Chain /\ pc' \in Chain \ { "prompting" } /\ pc' \in Reloads /\ (Dated(r) => prompts[r] = 0)
    BY <1>2, <1>8 DEF Chain, Reloads
  <2>2. ChainInv'
    BY <1>8, <2>1 DEF ChainInv
  <2> QED BY <1>8, <2>1, <2>2, GoesOnKeeps
<1>9. CASE Unload
  <2>1. pc = "unloading" /\ pc \in Reloads /\ UNCHANGED << at, since, granted, listed, prompts, cut, void, row, epoch, loads >>
    BY <1>9 DEF Unload, Reloads
  <2>2. \/ \E status \in { "queued", "failed" } : Ends(status)
        \/ pc' = "restoring" /\ UNCHANGED << req, cur >>
    BY <1>9 DEF Unload, PutOff, Refuses
  <2> QED BY <1>7, <1>8, <2>1, <2>2, SameMarks
<1>10. CASE Restoring
  <2>1. /\ pc = "restoring" /\ pc \in Reloads /\ pc \in Chain /\ s \in Sessions
        /\ UNCHANGED << at, since, granted, listed, prompts, cut, void, epoch, loads >>
    BY <1>2, <1>10 DEF Restoring, Reloads, Chain
  <2>2. CASE ~MayRestart(s)
    <3>1. UNCHANGED row /\ \E status \in { "queued", "failed" } : Ends(status)
      BY <1>10, <2>2 DEF Restoring, PutOff
    <3> QED BY <1>7, <2>1, <3>1
  <2>3. CASE MayRestart(s)
    <3>1. row[s] \in { "starting", "bound", "error" }
      BY <2>3 DEF MayRestart, Restorable
    <3>2. CASE SetRow(s, "error") /\ Ends("failed")
      <4>1. Marks
        BY <2>1, <3>1, <3>2, SetRowMarks
      <4> QED BY <2>1, <3>2, <4>1, EndsKeeps
    <3>3. CASE row[s] = "error" /\ UNCHANGED row /\ pc' = "loading" /\ UNCHANGED << req, cur >>
      BY <1>8, <2>1, <3>3, SameMarks
    <3>4. CASE SetRow(s, "starting") /\ pc' = "loading" /\ UNCHANGED << req, cur >>
      <4>1. Marks
        BY <2>1, <3>1, <3>4, SetRowMarks
      <4>2. row'[s] = "starting"
        BY <1>1, <2>1, <3>4, Types DEF SetRow
      <4> QED BY <1>8, <2>1, <3>4, <4>1, <4>2
    <3> QED BY <1>10, <2>3, <3>2, <3>3, <3>4 DEF Restoring
  <2> QED BY <2>2, <2>3
<1>11. CASE Loading
  <2>1. /\ pc = "loading" /\ pc \in Reloads /\ pc \in Chain /\ s \in Sessions /\ r \in Reqs /\ (Dated(r) => prompts[r] = 0)
        /\ UNCHANGED << at, since, granted, listed, prompts, cut, void >>
    BY <1>2, <1>11 DEF Loading, Reloads, Chain
  <2>2. row[s] \in { "starting", "error" }
    BY <1>1, <2>1 DEF ChainInv
  <2>3. CASE SetRow(s, "error") /\ Ends("failed") /\ UNCHANGED << loads, epoch >>
    <3>1. Marks
      BY <2>1, <2>2, <2>3, SetRowMarks
    <3> QED BY <2>1, <2>3, <3>1, EndsKeeps
  <2>4. CASE Load(s) /\ SetRow(s, "bound") /\ pc' = "verifying" /\ UNCHANGED << req, cur >>
    <3>1. Marks
      BY <2>1, <2>2, <2>4, LoadMarks
    <3>2. row'[s] = "bound" /\ epoch'[s] = loads + 1
      BY <1>1, <2>1, <2>4, Types DEF SetRow, Load
    <3>3. epoch'[s] > since[r]
      BY <1>1, <2>1, <3>2, Types DEF IInv, EpochInv
    <3>4. ChainInv'
      BY <2>1, <2>4, <3>2, <3>3 DEF ChainInv
    <3> QED BY <2>1, <2>4, <3>1, <3>4, GoesOnKeeps DEF Reloads, Chain
  <2> QED BY <1>11, <2>3, <2>4 DEF Loading
<1>12. CASE Verified
  <2>1. /\ pc = "verifying" /\ pc \in Chain /\ s \in Sessions /\ r \in Reqs
        /\ UNCHANGED << at, since, granted, listed, cut, void, epoch, loads >>
    BY <1>2, <1>12 DEF Verified, Reloads, Chain
  <2>2. row[s] = "bound"
    BY <1>1, <2>1 DEF ChainInv
  <2>3. CASE SetRow(s, "error") /\ Ends("failed") /\ UNCHANGED prompts
    <3>1. Marks
      BY <2>1, <2>2, <2>3, SetRowMarks
    <3> QED BY <2>1, <2>3, <3>1, EndsKeeps
  <2>4. CASE /\ pc' = "prompting" /\ UNCHANGED << req, row, cur >>
             /\ prompts' = IF reached' THEN [ prompts EXCEPT ![r] = @ + 1 ] ELSE prompts
    BY <2>1, <2>4, SendsKeeps
  <2> QED BY <1>12, <2>3, <2>4 DEF Verified
<1>13. CASE Read
  <2>1. /\ pc = "reading" /\ pc \in Chain /\ s \in Sessions /\ r \in Reqs /\ (Dated(r) => prompts[r] = 0) /\ r \in Closes /\ r \notin Launches
        /\ UNCHANGED << at, since, granted, listed, prompts, cut, void, epoch, loads >>
    BY <1>2, <1>13 DEF Read, Closing, Chain
  <2>2. CASE UNCHANGED row /\ \E status \in { "queued", "failed", "completed" } : Ends(status) /\ (status = "completed" => row[s] = "over")
    <3>1. Marks
      BY <2>1, <2>2, SameMarks
    <3> QED BY <2>1, <2>2, <3>1, EndsKeeps
  <2>3. CASE /\ row[s] # "over" /\ SetRow(s, "releasing") /\ pc' = "releasing" /\ UNCHANGED << req, cur >>
             /\ was' = [ was EXCEPT ![s] = IF row[s] = "releasing" THEN "bound" ELSE row[s] ]
    <3>1. row[s] # "none"
      BY <1>1, <2>1 DEF RowInv, DrainInv
    <3>2. Marks
      BY <2>1, <2>3, <3>1, SetRowMarks
    <3>3. row'[s] = "releasing"
      BY <1>1, <2>1, <2>3, Types DEF SetRow
    <3>5. was'[s] \notin { "none", "over" }
      <4>1. was \in [ Sessions -> Rows ]
        BY <1>1 DEF TypeOK
      <4> QED BY <2>1, <2>3, <3>1, <4>1
    <3>4. ChainInv'
      BY <2>1, <2>3, <3>3, <3>5 DEF ChainInv, Chain
    <3> QED BY <2>1, <2>3, <3>2, <3>4, GoesOnKeeps DEF Closing, Chain
  <2> QED BY <1>13, <2>2, <2>3 DEF Read
<1>14. CASE Released
  <2>1. /\ pc = "releasing" /\ pc \in Chain /\ s \in Sessions /\ r \in Reqs /\ r \in Closes /\ r \notin Launches
        /\ UNCHANGED << at, since, granted, listed, prompts, cut, void, loads >>
    BY <1>2, <1>14 DEF Released, Closing, Chain
  <2>2. row[s] = "releasing"
    BY <1>1, <2>1 DEF ChainInv
  <2>3. CASE GivenUp(s, "over") /\ Ends("completed")
    <3>1. Marks
      BY <2>1, <2>2, <2>3, ForgetMarks DEF GivenUp
    <3>2. row'[s] = "over"
      BY <1>1, <2>1, <2>3, Types DEF GivenUp, SetRow
    <3> QED BY <2>1, <2>3, <3>1, <3>2, EndsKeeps
  <2>4. CASE SetRow(s, was[s]) /\ Forget(s) /\ Ends("failed")
    <3>1. was[s] # "none" /\ was[s] # "over"
      BY <1>1, <2>1 DEF ChainInv
    <3>2. Marks
      BY <2>1, <2>2, <2>4, <3>1, ForgetMarks
    <3> QED BY <2>1, <2>4, <3>2, EndsKeeps
  <2> QED BY <1>14, <2>3, <2>4 DEF Released
<1> QED BY <1>3, <1>4, <1>5, <1>6, <1>9, <1>10, <1>11, <1>12, <1>13, <1>14 DEF Answers

LEMMA InitKeeps == Init => IInv
<1> SUFFICES ASSUME Init PROVE IInv
  OBVIOUS
<1>1. TypeOK
  BY InitTypes
<1>2. cur.r = NoReq /\ pc = "idle" /\ \A q \in Reqs : req[q] = "none" /\ prompts[q] = 0 /\ listed[q] = "none" /\ since[q] = 0
  BY IdleType DEF Init
<1>3. DrainInv /\ ChainInv
  BY <1>2 DEF DrainInv, ChainInv, Chain, Begins, Reloads, Closing
<1>4. EpochInv /\ RowInv
  BY <1>2, Requests DEF Init, EpochInv, RowInv
<1>5. TaskInv
  BY <1>2, Requests DEF Init, TaskInv, SentInv, MarkInv, OutcomeInv
<1> QED BY <1>1, <1>3, <1>4, <1>5 DEF IInv

LEMMA NextKeeps == IInv /\ [Next]_vars => IInv'
<1> SUFFICES ASSUME IInv, [Next]_vars PROVE IInv'
  OBVIOUS
<1>1. TypeOK'
  BY NextTypes DEF IInv
<1> QED BY <1>1, Steps, RequesterKeeps, AroundKeeps, FrameKeeps, TakeKeeps, AnswersKeep

-----------------------------------------------------------------------------
(* Theorems.                                                               *)

LEMMA Inductive == Spec => []IInv
<1>1. Init => IInv
  BY InitKeeps
<1>2. IInv /\ [Next]_vars => IInv'
  BY NextKeeps
<1> QED BY <1>1, <1>2, PTL DEF Spec

\* The opening task of a launch or restart is sent at most once, never after its grant ended in the
\* queue; a completed request has done what it says, or the backend died over it.
THEOREM TaskIsSentOnce == Spec => []TaskOnce
<1>1. IInv => TaskOnce
  <2> SUFFICES ASSUME IInv PROVE TaskOnce
    OBVIOUS
  <2> QED BY DEF IInv, TaskInv, SentInv, OutcomeInv, TaskOnce
<1> QED BY <1>1, Inductive, PTL

Told(r) == req[r] \in { "cancelled", "completed", "failed" }

LEMMA ToldKept ==
  ASSUME IInv, [Next]_vars, NEW r \in Reqs, Told(r)
  PROVE  req'[r] = req[r] /\ prompts'[r] = prompts[r]
<1> USE DEF requests, sessions, drain, history, Told
<1>1. TypeOK /\ DrainInv
  BY DEF IInv
<1>2. pc \in Chain => cur.r # r /\ req[cur.r] = "starting" /\ cur.r \in Reqs
  BY <1>1, CurrentRequest DEF DrainInv, Chain, Begins, Reloads, Closing
<1>3. ASSUME NEW q \in Reqs, Requester(q) PROVE req'[r] = req[r] /\ prompts' = prompts
  BY <1>1, <1>3, Types DEF Requester, Ask, Enqueue, Cancel, Update
<1>4. ASSUME NEW s \in Sessions, Around(s) PROVE req' = req /\ prompts' = prompts
  BY <1>4 DEF Around, PersonPauses, PersonSpeaks, PersonOpens, RestoreFails, Rests, PersonReleases, TurnEnds, ConnectionLost, Reconcile
<1>5. CASE Revoke \/ RequesterFinishes \/ BeginDrain \/ EndDrain \/ UNCHANGED vars
  BY <1>5 DEF Revoke, RequesterFinishes, BeginDrain, EndDrain, vars
<1>6. CASE Crash
  BY <1>6, Types DEF Crash
<1>7. ASSUME NEW q \in Reqs, Take(q) PROVE req'[r] = req[r] /\ prompts' = prompts
  <2>1. /\ prompts' = prompts /\ listed[q] \in { "queued", "starting" }
        /\ listed[q] = "starting" <=> req[q] = "starting"
    BY <1>1, <1>7 DEF Take, DrainInv
  <2>2. CASE q = r
    BY <1>1, <1>7, <2>1, <2>2 DEF Take, Close, Admit, Resume, Update
  <2>3. CASE q # r
    BY <1>1, <1>7, <2>1, <2>3, Types DEF Take, Close, Admit, Resume, Update
  <2> QED BY <2>1, <2>2, <2>3
<1>8. ASSUME pc \in Chain, NEW status, Ends(status) PROVE req'[r] = req[r]
  BY <1>1, <1>2, <1>8, Ending, Types
<1>9. CASE Checked
  <2>1. cur.seen = "queued" /\ prompts' = prompts
    BY <1>1, <1>9 DEF Checked, DrainInv
  <2>2. \A status : Update(cur.r, "queued", status) => req'[r] = req[r]
    BY <1>1, Types DEF Update
  <2> QED BY <1>9, <2>1, <2>2 DEF Checked
<1>10. CASE Started \/ Prompted \/ Unload \/ Restoring \/ Loading \/ Read \/ Released
  <2>1. pc \in Chain /\ prompts' = prompts
    BY <1>10 DEF Started, Prompted, Unload, Restoring, Loading, Read, Released, Chain, Begins, Reloads, Closing
  <2>2. UNCHANGED req \/ \E status \in Statuses : Ends(status)
    BY <1>10 DEF Started, Prompted, Unload, Restoring, Loading, Read, Released, PutOff, Refuses, Statuses
  <2> QED BY <1>8, <2>1, <2>2
<1>11. CASE Adopted \/ Verified
  <2>1. pc \in Chain
    BY <1>11 DEF Adopted, Verified, Chain, Begins, Reloads
  <2>2. UNCHANGED req \/ Ends("failed")
    BY <1>11 DEF Adopted, Verified
  <2>3. prompts' = prompts \/ prompts' = [ prompts EXCEPT ![cur.r] = @ + 1 ]
    BY <1>11 DEF Adopted, Verified
  <2>4. prompts \in [ Reqs -> Nat ]
    BY <1>1 DEF TypeOK
  <2> QED BY <1>2, <1>8, <2>1, <2>2, <2>3, <2>4
<1> QED BY <1>3, <1>4, <1>5, <1>6, <1>7, <1>9, <1>10, <1>11, Steps DEF Answers

\* What the requester was told is never taken back: an outcome stays, and nothing is sent for it any more.
THEOREM OutcomesAreFinal == Spec => OutcomeIsFinal
<1>1. IInv /\ [Next]_vars
       => [ \A r \in Reqs : req[r] \in { "cancelled", "completed", "failed" }
                             => req'[r] = req[r] /\ prompts'[r] = prompts[r] ]_vars
  BY ToldKept DEF Told
<1> QED BY <1>1, Inductive, PTL DEF Spec, OutcomeIsFinal
=============================================================================
