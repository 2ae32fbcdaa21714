--------------------------- MODULE HostLifecycle ---------------------------
(***************************************************************************)
(* The process of one Claude conversation and the session hosts that carry *)
(* it, one after the other and sometimes beside each other                 *)
(* (providers/transport/line-transport.ts: the factory and retireHost();   *)
(* providers/transport/claude/claude-instance.ts: resume, reattach and     *)
(* launch; start() and stop() of session-host.ts).                         *)
(*                                                                         *)
(* A host is found again through three things that are written at          *)
(* different times by different processes: its record file, its socket     *)
(* file and the launch record of the plugin.  The CLI's own registry tells *)
(* who holds the session.  A backend may die between any two steps while a *)
(* host it spawned comes up; a host or its process may stall, hang or die. *)
(***************************************************************************)
EXTENDS Integers, Sequences

CONSTANTS MaxHosts,    \* bound: session hosts started
          MaxBackends, \* bound: backends that follow each other
          MaxFaults    \* bound: stalled hosts, hung or ended processes, dead hosts

ASSUME BoundAssumption == { MaxHosts, MaxBackends, MaxFaults } \subseteq Nat \ {0}

VARIABLES
  hosts,     \* the session hosts, in the order they were started
  record,    \* the host that the record file names, 0 for no file
  socket,    \* the host that made the socket file, 0 for no file
  launch,    \* command line of the plugin's launch record, "" for none
  ran,       \* the conversation has a transcript
  loaded,    \* the host the loaded session is connected to, 0 when it is not loaded
  silent,    \* unresponsiveRuns has an entry for the conversation
  op,        \* the operation in progress and the await it stands in
  backends, faults

files == << record, socket >>
meta == << launch, ran >>
vars == << hosts, files, meta, loaded, silent, op, backends, faults >>

-----------------------------------------------------------------------------
(***************************************************************************)
(* Hosts.  "gone" stopped in order, "dead" did not.  `kid` is the provider *)
(* process, `reg` whether it has entered itself in the CLI's registry,     *)
(* `used` whether anything was written to it, `worked` whether it was      *)
(* given a message.  `slow` is a host that makes no progress, `hung` a     *)
(* process that answers nothing and obeys only SIGKILL.  `missed` counts   *)
(* the opens of this backend it did not answer, `cut` is set when a        *)
(* predecessor that stopped late removed its socket (both history).        *)
(***************************************************************************)
Fresh(argv) == [st |-> "new", argv |-> argv, kid |-> "none", reg |-> FALSE, used |-> FALSE, worked |-> FALSE,
                slow |-> FALSE, hung |-> FALSE, term |-> FALSE, missed |-> 0, cut |-> FALSE]

ComingUp == { "new", "spawned", "listening" }
Runs(h) == hosts[h].st \notin { "gone", "dead" }
Up(h) == hosts[h].kid = "up"

\* What a host that goes away leaves: its process gets SIGTERM (parent death signal) and the end
\* of its input; only one that hangs outlives that.
Without(host, st) ==
    IF host.kid = "up" /\ host.hung THEN [host EXCEPT !.st = st, !.slow = FALSE, !.term = FALSE]
    ELSE [Fresh(host.argv) EXCEPT !.st = st, !.kid = IF host.kid = "none" THEN "none" ELSE "over"]

EndKid(host) == [host EXCEPT !.kid = "over", !.reg = FALSE, !.hung = FALSE]

\* The outcomes of a connection to the socket path.
Refused == socket \notin { h \in DOMAIN hosts : hosts[h].st \in { "listening", "serving" } }
Silent == ~Refused /\ (hosts[socket].slow \/ hosts[socket].st = "listening")
Answers == ~Refused /\ ~Silent

\* findSessionHolder(), without the host whose own process may hold the session.
Holders(own) == { h \in DOMAIN hosts \ {own} : Up(h) /\ hosts[h].reg }

-----------------------------------------------------------------------------
(***************************************************************************)
(* The operation in progress.  `via` is the OpenKind of bringUp(), `h` the *)
(* host it is connected to or has started, `r` the host of the record it   *)
(* read, `next` what it does once a process is ended.                      *)
(***************************************************************************)
NoOp == [kind |-> "none", step |-> "", via |-> "", h |-> 0, r |-> 0, fresh |-> FALSE, next |-> "", argv |-> ""]
Opening == op.kind \in { "resume", "reattach" }
At(step) == op.step = step
Done == op' = NoOp
Goes(step) == op' = [op EXCEPT !.step = step, !.h = 0, !.r = 0, !.fresh = FALSE]

Mode == IF ran THEN "resume" ELSE "new"

\* terminateHost() or retireHost() from the start, then `next`.
Retires(r, next) == op' = [op EXCEPT !.step = "retire", !.r = r, !.h = 0, !.fresh = FALSE, !.next = next]

\* session.close(): the host is asked to end its process, then `next`.
Closes(h, next) == /\ op' = [op EXCEPT !.step = "closing", !.h = h, !.next = next]
                   /\ hosts' = [hosts EXCEPT ![h].term = TRUE]

\* noteUnresponsive(): the limit is a time, counted from the first silence of a run.
Misses(h) == /\ silent' = TRUE
             /\ hosts' = [hosts EXCEPT ![h].missed = IF @ < 2 THEN @ + 1 ELSE @]
             /\ Done

\* bringUp() up to its first await: the launch is recorded and initialize is written.
BringUp(h, via, argv) ==
    /\ hosts' = [hosts EXCEPT ![h].used = TRUE]
    /\ op' = [op EXCEPT !.step = "handshake", !.via = via, !.h = h, !.fresh = ~hosts[h].used, !.r = 0, !.next = ""]
    /\ launch' = argv
    /\ UNCHANGED silent

-----------------------------------------------------------------------------
(***************************************************************************)
(* Opening a conversation.                                                 *)
(***************************************************************************)

\* ensureLoaded() and resume(), up to the launch record it reads.
Resume ==
    /\ op.kind = "none" /\ loaded = 0
    /\ op' = [NoOp EXCEPT !.kind = "resume", !.step = IF launch = "" THEN "holder" ELSE "attach", !.argv = launch]
    /\ UNCHANGED << hosts, files, meta, loaded, silent, backends, faults >>

\* reattachSurvivor() and reattach()
Reattach ==
    /\ op.kind = "none" /\ loaded = 0 /\ launch # ""
    /\ op' = [NoOp EXCEPT !.kind = "reattach", !.step = "attach", !.argv = launch]
    /\ UNCHANGED << hosts, files, meta, loaded, silent, backends, faults >>

\* `none` of attachSurvivor() when it gives up the search: resume() goes on to look for a holder.
NoSurvivor == /\ IF op.kind = "resume" THEN Goes("holder") ELSE Done
              /\ UNCHANGED << hosts, silent >>

\* Mutant of Absent: slow is taken for gone.
AbsentOrSilent ==
    \/ record \notin DOMAIN hosts
    \/ record \in { h \in DOMAIN hosts : ~Runs(h) \/ (hosts[h].argv = op.argv /\ (~Answers \/ ~Up(socket))) }

\* attachHost() finds nothing that runs: no host, one that serves nobody, or one whose process ended.
Absent ==
    \/ record \notin DOMAIN hosts
    \/ record \in { h \in DOMAIN hosts : ~Runs(h) \/ (hosts[h].argv = op.argv /\ (Refused \/ (Answers /\ ~Up(socket)))) }

\* attachHost(), and what attachSurvivor() makes of its answer.
Attach ==
    /\ At("attach")
    /\ UNCHANGED << files, ran, loaded, backends, faults >>
    /\ \/ /\ Absent
          /\ launch' = "" /\ NoSurvivor
       \/ /\ record # 0 /\ Runs(record) /\ hosts[record].argv # op.argv
          /\ NoSurvivor /\ UNCHANGED launch
       \/ /\ record # 0 /\ Runs(record) /\ hosts[record].argv = op.argv
          /\ \/ Silent /\ op.kind = "reattach" /\ Done /\ UNCHANGED << hosts, launch, silent >>
             \/ Silent /\ op.kind = "resume" /\ Misses(socket) /\ UNCHANGED launch
             \/ /\ Silent /\ op.kind = "resume" /\ silent
                /\ Retires(record, "survivor")
                /\ UNCHANGED << hosts, launch, silent >>
             \/ Answers /\ Up(socket) /\ Holders(socket) # {} /\ Done /\ UNCHANGED << hosts, launch, silent >>
             \/ /\ Answers /\ Up(socket) /\ Holders(socket) = {}
                /\ BringUp(socket, IF op.kind = "resume" THEN "survivor" ELSE "reattach", op.argv)

\* Mutant of HolderCheck: what the registry says is not asked.
HolderUnchecked ==
    /\ At("holder")
    /\ op' = [op EXCEPT !.step = "open", !.argv = Mode]
    /\ UNCHANGED << hosts, files, meta, loaded, silent, backends, faults >>

\* findSessionHolder() in resume(), and the transcript it then looks for.
HolderCheck ==
    /\ At("holder")
    /\ op' = IF Holders(0) # {} THEN NoOp ELSE [op EXCEPT !.step = "open", !.argv = Mode]
    /\ UNCHANGED << hosts, files, meta, loaded, silent, backends, faults >>

\* openHost(): the host of the record is used again if it runs this command line and answers; one
\* that is silent is left alone; every other one is retired.
Open ==
    /\ At("open")
    /\ UNCHANGED << files, ran, loaded, backends, faults >>
    /\ IF record # 0 /\ Runs(record) /\ hosts[record].argv = op.argv /\ ~Refused
       THEN \/ Silent /\ Done /\ UNCHANGED << hosts, launch, silent >>
            \/ Answers /\ Up(socket) /\ BringUp(socket, "launch", op.argv)
            \/ Answers /\ ~Up(socket) /\ Retires(record, "start") /\ UNCHANGED << hosts, launch, silent >>
       ELSE Retires(record, "start") /\ UNCHANGED << hosts, launch, silent >>

\* startHost() up to its first connection.
Start ==
    /\ At("start") /\ Len(hosts) < MaxHosts
    /\ LET beside == { h \in DOMAIN hosts : hosts[h].st \in ComingUp \cup { "serving" } }
       IN  hosts' = Append([h \in DOMAIN hosts |-> [hosts[h] EXCEPT !.cut = @ \/ h \in beside]],
                           [Fresh(op.argv) EXCEPT !.cut = beside # {}])
    /\ op' = [op EXCEPT !.step = "starting", !.h = Len(hosts) + 1]
    /\ UNCHANGED << files, meta, loaded, silent, backends, faults >>

\* The loop of startHost(): whoever serves the socket is the host that was started; one that is
\* not up in time is signalled and forgotten.
Starting ==
    /\ At("starting")
    /\ UNCHANGED << files, ran, loaded, backends, faults >>
    /\ \/ ~Runs(op.h) /\ Done /\ UNCHANGED << hosts, launch, silent >>
       \/ Runs(op.h) /\ Answers /\ BringUp(socket, "launch", op.argv)
       \/ /\ Runs(op.h) /\ hosts[op.h].slow /\ ~Answers
          /\ Done
          /\ hosts' = [hosts EXCEPT ![op.h] = IF @.st \in { "serving", "stopping" } THEN [@ EXCEPT !.term = TRUE]
                                                                               ELSE Without(@, "dead")]
          /\ UNCHANGED << launch, silent >>

-----------------------------------------------------------------------------
(***************************************************************************)
(* The handshake, and the end of a session.                                *)
(***************************************************************************)

\* Mutant of Busy: only a process found again at startup is spared.
BusyWhenReattached == op.via = "reattach"

\* A process that this call did not start may be in the middle of a turn.
Busy == op.via # "launch" \/ ~op.fresh

\* A handshake answered: a loaded session.
HandshakeAnswered ==
    /\ At("handshake") /\ hosts[op.h].st = "serving" /\ ~hosts[op.h].slow
    /\ Up(op.h) /\ hosts[op.h].reg /\ ~hosts[op.h].hung
    /\ loaded' = op.h /\ silent' = FALSE /\ Done
    /\ UNCHANGED << hosts, files, meta, backends, faults >>

\* A handshake not answered in time: a process this call started is ended; one it found is let
\* go, and ended when it has been silent for longer than the limit and this is an ordinary open.
HandshakeTimesOut ==
    /\ At("handshake") /\ hosts[op.h].st = "serving" /\ Up(op.h)
    /\ hosts[op.h].slow \/ hosts[op.h].hung \/ ~hosts[op.h].reg
    /\ UNCHANGED << files, meta, loaded, backends, faults >>
    /\ \/ ~Busy /\ silent' = FALSE /\ Closes(op.h, "fail")
       \/ Busy /\ op.kind = "reattach" /\ Done /\ UNCHANGED << hosts, silent >>
       \/ Busy /\ op.kind = "resume" /\ Misses(op.h)
       \/ Busy /\ op.kind = "resume" /\ silent /\ silent' = FALSE
          /\ Closes(op.h, IF op.via = "launch" THEN "open" ELSE "holder")

\* The process or the host ends while the handshake waits. The connection reports it as an exit
\* or as a loss.
HandshakeFails ==
    /\ At("handshake") /\ (~Up(op.h) \/ ~Runs(op.h))
    /\ launch' = IF hosts[op.h].st = "dead" THEN launch ELSE ""
    /\ silent' = FALSE /\ Done
    /\ UNCHANGED << hosts, files, ran, loaded, backends, faults >>

\* endProcess() ends: the exit was reported, or it gives up waiting. Either ends the session here
\* and removes its launch record; a connection that was lost keeps it.
Closing ==
    /\ At("closing") /\ (~Up(op.h) \/ ~Runs(op.h) \/ hosts[op.h].slow)
    /\ launch' = IF hosts[op.h].st = "dead" THEN launch ELSE ""
    /\ loaded' = 0
    /\ IF op.next \in { "open", "holder" } THEN Goes(op.next) ELSE Done
    /\ UNCHANGED << hosts, files, ran, silent, backends, faults >>

\* handleExit() of a loaded session.
SeesExit ==
    /\ loaded # 0 /\ ~At("closing") /\ (~Up(loaded) \/ ~Runs(loaded))
    /\ launch' = IF hosts[loaded].st = "dead" THEN launch ELSE ""
    /\ loaded' = 0
    /\ UNCHANGED << hosts, files, ran, silent, op, backends, faults >>

\* unload() or release() of a loaded session; of one that is not loaded, endConversation().
End ==
    /\ op.kind = "none" /\ hosts # << >>
    /\ IF loaded # 0
       THEN /\ op' = [NoOp EXCEPT !.kind = "end", !.step = "closing", !.h = loaded, !.next = "done"]
            /\ hosts' = [hosts EXCEPT ![loaded].term = TRUE]
       ELSE /\ op' = [NoOp EXCEPT !.kind = "end", !.step = "retire", !.r = record, !.next = "done"]
            /\ UNCHANGED hosts
    /\ UNCHANGED << files, meta, loaded, silent, backends, faults >>

\* A message is given to the process.
Work ==
    /\ op.kind = "none" /\ loaded # 0 /\ hosts[loaded].st = "serving" /\ Up(loaded)
    /\ ~hosts[loaded].slow /\ ~hosts[loaded].hung /\ ~hosts[loaded].worked
    /\ hosts' = [hosts EXCEPT ![loaded].worked = TRUE]
    /\ ran' = TRUE
    /\ UNCHANGED << files, launch, loaded, silent, op, backends, faults >>

-----------------------------------------------------------------------------
(***************************************************************************)
(* retireHost(): through the socket, then by signals, then the files.      *)
(***************************************************************************)
RecordRuns == op.r # 0 /\ Runs(op.r)

\* terminateHostAt()
Retire ==
    /\ At("retire")
    /\ IF (op.r = 0 \/ Runs(op.r)) /\ ~Refused
       THEN hosts' = [hosts EXCEPT ![socket].term = TRUE] /\ op' = [op EXCEPT !.step = "asked", !.h = socket]
       ELSE UNCHANGED hosts /\ op' = [op EXCEPT !.step = "signal"]
    /\ UNCHANGED << files, meta, loaded, silent, backends, faults >>

\* The host closed the connection, or time is up.
Asked ==
    /\ At("asked") /\ (hosts[op.h].st \notin { "listening", "serving" } \/ hosts[op.h].slow)
    /\ op' = [op EXCEPT !.step = "signal", !.h = 0]
    /\ UNCHANGED << hosts, files, meta, loaded, silent, backends, faults >>

\* terminateRecordedProcess(): SIGTERM to the recorded host that is still there, then SIGKILL.
Signal ==
    /\ At("signal") /\ RecordRuns
    /\ hosts' = [hosts EXCEPT ![op.r].term = TRUE]
    /\ op' = [op EXCEPT !.step = "signalled"]
    /\ UNCHANGED << files, meta, loaded, silent, backends, faults >>

Kill ==
    /\ At("signalled") /\ RecordRuns
    /\ hosts' = [hosts EXCEPT ![op.r] = Without(@, "dead")]
    /\ op' = [op EXCEPT !.step = "killed"]
    /\ UNCHANGED << files, meta, loaded, silent, backends, faults >>

\* Its process, when it outlived the host; then both files, whoever they are of by now.
EndsRetire ==
    /\ op.step \in { "signal", "signalled", "killed" } /\ ~RecordRuns
    /\ hosts' = IF op.r # 0 /\ Up(op.r) THEN [hosts EXCEPT ![op.r] = EndKid(@)] ELSE hosts
    /\ record' = 0 /\ socket' = 0
    /\ CASE op.next = "start" -> Goes("start") /\ UNCHANGED << launch, silent >>
         [] op.next = "survivor" -> Goes("holder") /\ launch' = "" /\ silent' = FALSE
         [] op.next = "done" -> Done /\ launch' = "" /\ UNCHANGED silent
    /\ UNCHANGED << ran, loaded, backends, faults >>

-----------------------------------------------------------------------------
(***************************************************************************)
(* The session host, from its start to its end.                            *)
(***************************************************************************)
HostSteps(h) == ~hosts[h].slow /\ UNCHANGED << meta, loaded, silent, op, backends, faults >>

\* claimSocket() and spawnChild(): a socket that somebody serves is left alone.
Claims(h) ==
    /\ hosts[h].st = "new" /\ HostSteps(h) /\ UNCHANGED record
    /\ IF Refused
       THEN socket' = 0 /\ hosts' = [hosts EXCEPT ![h].st = "spawned", ![h].kid = "up"]
       ELSE UNCHANGED socket /\ hosts' = [hosts EXCEPT ![h] = Without(@, "gone")]

\* listen(): a socket file that came up meanwhile ends the host.
Listens(h) ==
    /\ hosts[h].st = "spawned" /\ HostSteps(h) /\ UNCHANGED record
    /\ IF socket = 0
       THEN socket' = h /\ hosts' = [hosts EXCEPT ![h].st = "listening"]
       ELSE UNCHANGED socket /\ hosts' = [hosts EXCEPT ![h] = Without(@, "gone")]

\* writeRecord(), and the signal handlers.
Serves(h) ==
    /\ hosts[h].st = "listening" /\ HostSteps(h) /\ UNCHANGED socket
    /\ record' = h
    /\ hosts' = [hosts EXCEPT ![h].st = "serving"]

\* terminateChild()
EndsKid(h) ==
    /\ hosts[h].st = "serving" /\ hosts[h].term /\ Up(h) /\ HostSteps(h) /\ UNCHANGED files
    /\ hosts' = [hosts EXCEPT ![h] = EndKid(@)]

\* stop(): its own record is removed, and the socket path, which closing the server unlinks.
Stops(h) ==
    /\ hosts[h].st = "serving" /\ hosts[h].kid = "over" /\ HostSteps(h)
    /\ record' = IF record = h THEN 0 ELSE record
    /\ socket' = 0
    /\ hosts' = [i \in DOMAIN hosts |-> [hosts[i] EXCEPT !.st = IF i = h THEN "stopping" ELSE @,
                                                       !.cut = @ \/ (i = socket /\ i # h)]]

\* finish() of stop(): the socket path once more, whoever's it is by now.
Leaves(h) ==
    /\ hosts[h].st = "stopping" /\ HostSteps(h) /\ UNCHANGED record
    /\ socket' = 0
    /\ hosts' = [i \in DOMAIN hosts |-> IF i = h THEN Without(hosts[i], "gone")
                                        ELSE [hosts[i] EXCEPT !.cut = @ \/ i = socket]]

\* The provider process enters itself in the registry, and may end on its own.
Registers(h) ==
    /\ Up(h) /\ ~hosts[h].reg /\ ~hosts[h].hung
    /\ hosts' = [hosts EXCEPT ![h].reg = TRUE]
    /\ UNCHANGED << files, meta, loaded, silent, op, backends, faults >>

Fault == /\ faults < MaxFaults /\ faults' = faults + 1
         /\ UNCHANGED << files, meta, loaded, silent, op, backends >>

KidEnds(h) == Up(h) /\ Runs(h) /\ Fault /\ hosts' = [hosts EXCEPT ![h] = EndKid(@)]
Hangs(h) == Up(h) /\ ~hosts[h].hung /\ Fault /\ hosts' = [hosts EXCEPT ![h].hung = TRUE]
Stalls(h) == Runs(h) /\ ~hosts[h].slow /\ Fault /\ hosts' = [hosts EXCEPT ![h].slow = TRUE]
Dies(h) == Runs(h) /\ Fault /\ hosts' = [hosts EXCEPT ![h] = Without(@, "dead")]

Recovers(h) ==
    /\ hosts[h].slow \/ (hosts[h].hung /\ Runs(h))
    /\ hosts' = [hosts EXCEPT ![h].slow = FALSE, ![h].hung = IF hosts[h].slow THEN @ ELSE FALSE]
    /\ UNCHANGED << files, meta, loaded, silent, op, backends, faults >>

-----------------------------------------------------------------------------
\* The backend dies, or shuts down: what it holds in memory is gone, and the hosts stay.
BackendDies ==
    /\ backends < MaxBackends /\ backends' = backends + 1
    /\ loaded' = 0 /\ silent' = FALSE /\ Done
    /\ hosts' = [h \in DOMAIN hosts |-> [hosts[h] EXCEPT !.missed = 0]]
    /\ UNCHANGED << files, meta, faults >>

Init == /\ hosts = << >> /\ record = 0 /\ socket = 0
        /\ launch = "" /\ ran = FALSE
        /\ loaded = 0 /\ silent = FALSE /\ op = NoOp
        /\ backends = 1 /\ faults = 0

Backend == \/ Resume \/ Reattach \/ Attach \/ HolderCheck \/ Open \/ Start \/ Starting
           \/ HandshakeAnswered \/ HandshakeTimesOut \/ HandshakeFails
           \/ Closing \/ SeesExit \/ End \/ Work
           \/ Retire \/ Asked \/ Signal \/ Kill \/ EndsRetire

Host(h) == \/ Claims(h) \/ Listens(h) \/ Serves(h) \/ EndsKid(h) \/ Stops(h) \/ Leaves(h)
           \/ Registers(h) \/ KidEnds(h) \/ Hangs(h) \/ Stalls(h) \/ Dies(h) \/ Recovers(h)

Next == Backend \/ BackendDies \/ \E h \in DOMAIN hosts : Host(h)

Spec == Init /\ [][Next]_vars

-----------------------------------------------------------------------------
(***************************************************************************)
(* Properties.                                                             *)
(***************************************************************************)

\* The CLI lets two processes write one transcript, so the Console must not: of the processes
\* that were given work at most one is alive, whichever backends and hosts started them.
OneWriter == \A i, j \in DOMAIN hosts : (Up(i) /\ Up(j) /\ hosts[i].worked /\ hosts[j].worked) => i = j

\* A process that was given work may be in the middle of a turn. No open ends it, or its host,
\* unless it left this backend's opens unanswered before.
Doomed(host) == host.term \/ host.kid = "over" \/ host.st \in { "gone", "dead" }
KeptUnlessSilent ==
    [][\A h \in DOMAIN hosts :
          (Opening /\ op' # op /\ hosts[h].worked /\ ~Doomed(hosts[h]) /\ ~hosts[h].cut /\ backends' = backends)
             => ~Doomed(hosts'[h]) \/ hosts[h].missed > 0]_vars

\* A process that was spoken to and whose host serves can be found at any time, whatever is in
\* progress and whoever dies next: by the record of its host, the host's socket and a launch record
\* with its command line. A host started beside another one, or whose socket a predecessor that
\* stopped late removed, is the exception.
Spoken(h) == Up(h) /\ hosts[h].st = "serving" /\ hosts[h].used /\ ~hosts[h].term /\ ~hosts[h].cut
FoundAgain ==
    \A h \in DOMAIN hosts : Spoken(h) => record = h /\ socket = h /\ launch = hosts[h].argv

=============================================================================
