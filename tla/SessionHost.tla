---------------------------- MODULE SessionHost ----------------------------
(***************************************************************************)
(* One session host process and the backends connected to it.              *)
(*                                                                         *)
(* The host (providers/transport/session-host.ts, class SessionHost) owns  *)
(* the provider child.  It numbers the child's stdout lines, keeps the     *)
(* newest in a ReplayBuffer and relays them over a Unix socket to ONE      *)
(* client, the connection that said hello last.  A connection is the       *)
(* client's end (providers/transport/line-transport.ts, HostLineTransport, *)
(* or terminateHostAt for a connection that only asks for termination).    *)
(*                                                                         *)
(* Every connection is used once.  `sent[c]` is everything the host wrote  *)
(* to connection c, in order, and `rcvd[c]` how much of it the client has  *)
(* read: the client sees sent[c][1..rcvd[c]].                              *)
(***************************************************************************)
EXTENDS ReplayBuffer, FiniteSets, TLC

CONSTANTS Clients,      \* connections of HostLineTransport
          Terminators,  \* connections of terminateHostAt
          NoConn,       \* `client` when there is none
          Sinces,       \* the sinceSeq values a hello may carry
          MaxSeq,       \* bound: lines the child prints
          MaxBacklog,   \* MAX_CLIENT_BACKLOG_BYTES, in messages
          Kinds,        \* what clients do: of "write", "status", "terminate", "close", "drop"
          MaxRequests,  \* bound: writes and status requests of one client
          HostEvents    \* of "overflow", "signal", "abort", "crash"

Conns == Clients \cup Terminators

LiveOnly == -1          \* a hello without sinceSeq

ASSUME ConnAssumption == NoConn \notin Conns /\ Clients \cap Terminators = {}
ASSUME SinceAssumption == Sinces \subseteq Nat \cup {LiveOnly}
ASSUME BoundAssumption == MaxSeq \in Nat /\ MaxBacklog \in Nat /\ MaxRequests \in Nat

VARIABLES
  proc,         \* the provider process: "none" (spawn failed), "running", "exited"
  stdout,       \* somebody still holds the child's stdout pipe open
  signalled,    \* the strongest signal the host sent: "none", "term", "kill"
  childExit,    \* the host has declared the child ended (childExit is set)
  exitFlush,    \* exitFlushTimer is armed
  overflowed,   \* a line exceeded maxLineBytes (fatalError; the splitter is dead)
  stdinEnded,   \* stdin EOF was given
  childIn,      \* lines written to the child, each as the connection it came from
  lastSeq,      \* newest line number
  buf,          \* the replay buffer
  phase,        \* `terminating`: "no", or the wait terminateChild is in, or "over"
  linger,       \* lingerTimer is armed
  host,         \* "serving", "stopped", "crashed"
  record,       \* the host record file names this host
  client,       \* the current client
  attached,     \* connections that said hello
  watchers,     \* exitWatchers
  socket,       \* host end: "none", "open", "ending", "destroyed", "gone"
  up,           \* requests on their way to the host
  sent,         \* messages the host wrote
  rcvd,         \* how many of them the client has read
  peer,         \* client end, see Peers
  asked,        \* the sinceSeq of the hello
  lastSeen,     \* lastSeqSeen
  requests,     \* how many writes and status requests were sent (bounded)
  attachOrder,  \* history: connections in the order the host attached them
  exitAt        \* history: lastSeq when the child was declared ended

childVars == << proc, stdout, signalled, childExit, exitFlush, overflowed, stdinEnded, childIn, exitAt >>
bufVars   == << lastSeq, buf >>
hostVars  == << phase, linger, host, record >>
connVars  == << client, attached, watchers, attachOrder >>
peerVars  == << rcvd, peer, asked, lastSeen, requests >>
vars == << childVars, bufVars, hostVars, connVars, socket, up, sent, peerVars >>

Peers == { "idle", "connecting", "welcomed", "closing", "terminating", "asking", "exited", "disconnected" }

\* Client ends that still read their socket.
Reading == { "connecting", "welcomed", "closing", "terminating", "asking", "exited" }

Msg == [type : { "welcome", "gap", "line", "exit", "replaced", "status" }, seq : Nat]
M(type, seq) == [type |-> type, seq |-> seq]

Request == [type : { "hello", "write", "status", "terminate" }, since : Nat \cup {LiveOnly}]
R(type, since) == [type |-> type, since |-> since]

-----------------------------------------------------------------------------
(***************************************************************************)
(* Sending, ending the child, stopping: the parts the handlers share.      *)
(***************************************************************************)

\* send(): a message is written while the unread backlog is within the limit; the
\* first one above it destroys the socket, and a socket that is not open takes none.
Room(c) == IF Len(sent[c]) - rcvd[c] > MaxBacklog THEN 0 ELSE MaxBacklog + 1 - (Len(sent[c]) - rcvd[c])

Fitting(c, msgs) == IF Len(msgs) > Room(c) THEN SubSeq(msgs, 1, Room(c)) ELSE msgs

\* Write out[c] to every connection c, then end the sockets in `ended`.
Send(out, ended) ==
    /\ sent' = [c \in Conns |-> IF socket[c] = "open" THEN sent[c] \o Fitting(c, out[c]) ELSE sent[c]]
    /\ socket' = [c \in Conns |->
                    IF socket[c] # "open" THEN socket[c]
                    ELSE IF Len(out[c]) > Room(c) THEN "destroyed"
                    ELSE IF c \in ended THEN "ending" ELSE "open"]

Nothing == [c \in Conns |-> << >>]
To(c, msgs) == [Nothing EXCEPT ![c] = msgs]

\* stop(): the record goes first, then every socket is ended (by the caller's Send).
Stop ==
    /\ host' = "stopped"
    /\ record' = FALSE
    /\ linger' = FALSE

\* onChildEnded(): tell the client and the exit watchers, then stop now or linger.
ChildEnded ==
    /\ childExit' = TRUE
    /\ exitFlush' = FALSE
    /\ exitAt' = lastSeq
    /\ watchers' = {}
    /\ Send([c \in Conns |-> IF c \in watchers \cup {client} THEN << M("exit", 0) >> ELSE << >>],
            IF phase = "no" THEN watchers ELSE Conns)
    /\ IF phase = "no"
         THEN linger' = TRUE /\ UNCHANGED << phase, host, record >>
         ELSE phase' = "over" /\ Stop
    /\ UNCHANGED << lastSeq, buf, stdinEnded, childIn, client, attached, attachOrder, up, peerVars >>

\* terminate(): once only; a child already ended stops the host, another gets stdin EOF.
Terminate ==
    IF phase # "no" THEN UNCHANGED << hostVars, stdinEnded >>
    ELSE IF childExit
      THEN phase' = "over" /\ Stop /\ UNCHANGED stdinEnded
      ELSE phase' = "eof" /\ stdinEnded' = TRUE /\ UNCHANGED << linger, host, record >>

Serving == host = "serving"

-----------------------------------------------------------------------------
(***************************************************************************)
(* The child.                                                              *)
(***************************************************************************)

\* Mutant of ChildLine: a line that could not be buffered is not relayed either.
ChildLineBufferedOnly(bytes) ==
    /\ Serving /\ stdout /\ ~overflowed /\ lastSeq < MaxSeq
    /\ lastSeq' = lastSeq + 1
    /\ buf' \in Pushes(buf, [seq |-> lastSeq + 1, bytes |-> bytes])
    /\ Send([c \in Conns |-> IF c = client /\ buf' # << >> THEN << M("line", lastSeq + 1) >> ELSE << >>], {})
    /\ UNCHANGED << childVars, hostVars, connVars, up, peerVars >>

\* onChildLine: number it, buffer it, relay it.  Whoever holds the pipe may print,
\* also after the child itself ended.
ChildLine(bytes) ==
    /\ Serving /\ stdout /\ ~overflowed /\ lastSeq < MaxSeq
    /\ lastSeq' = lastSeq + 1
    /\ buf' \in Pushes(buf, [seq |-> lastSeq + 1, bytes |-> bytes])
    /\ Send([c \in Conns |-> IF c = client THEN << M("line", lastSeq + 1) >> ELSE << >>], {})
    /\ UNCHANGED << childVars, hostVars, connVars, up, peerVars >>

\* A line above maxLineBytes: failChild() kills the group and ends the child at once.
LineOverflow ==
    /\ "overflow" \in HostEvents
    /\ Serving /\ stdout /\ ~overflowed
    /\ overflowed' = TRUE
    /\ IF childExit
         THEN UNCHANGED << signalled, childExit, exitFlush, stdinEnded, childIn, exitAt, bufVars, hostVars,
                           connVars, socket, up, sent, peerVars >>
         ELSE signalled' = "kill" /\ ChildEnded
    /\ UNCHANGED << proc, stdout >>

\* The process exits by itself or by a signal; the 'exit' event arms the flush timer.
ChildExits ==
    /\ Serving /\ proc = "running"
    /\ proc' = "exited"
    /\ exitFlush' = ~childExit
    /\ UNCHANGED << stdout, signalled, childExit, overflowed, stdinEnded, childIn, exitAt, bufVars, hostVars,
                    connVars, socket, up, sent, peerVars >>

\* The 'close' event: the process is gone and so is every holder of its stdout.
StdoutCloses ==
    /\ Serving /\ proc = "exited" /\ stdout
    /\ stdout' = FALSE
    /\ IF childExit
         THEN UNCHANGED << childExit, exitFlush, stdinEnded, childIn, exitAt, bufVars, hostVars, connVars,
                           socket, up, sent, peerVars >>
         ELSE ChildEnded
    /\ UNCHANGED << proc, signalled, overflowed >>

\* EXIT_FLUSH_MS after the exit: do not wait for the pipe any longer.
FlushTimeout ==
    /\ Serving /\ exitFlush /\ ~childExit
    /\ ChildEnded
    /\ UNCHANGED << proc, stdout, signalled, overflowed >>

\* terminateChild(): each grace that runs out moves to the next means.
GraceExpires ==
    /\ Serving /\ ~childExit
    /\ \/ phase = "eof" /\ phase' = "term" /\ signalled' = "term"
       \/ phase = "term" /\ phase' = "kill" /\ signalled' = "kill"
    /\ UNCHANGED << proc, stdout, childExit, exitFlush, overflowed, stdinEnded, childIn, exitAt, bufVars,
                    linger, host, record, connVars, socket, up, sent, peerVars >>

\* Mutant of KillWaitExpires: the wait for SIGKILL has no bound.
KillWaitForEver == Serving /\ ~childExit /\ phase = "kill" /\ proc = "exited" /\ ChildEnded
                     /\ UNCHANGED << proc, stdout, signalled, overflowed >>

\* Mutant of KillWaitExpires: the child is reported ended before SIGKILL was sent.
KillWaitSkipsKill == Serving /\ ~childExit /\ phase = "term" /\ ChildEnded
                       /\ UNCHANGED << proc, stdout, signalled, overflowed >>

\* ... and a child that SIGKILL did not end in time is reported ended anyway.
KillWaitExpires ==
    /\ Serving /\ ~childExit /\ phase = "kill"
    /\ ChildEnded
    /\ UNCHANGED << proc, stdout, signalled, overflowed >>

-----------------------------------------------------------------------------
(***************************************************************************)
(* Requests of the connections (onMessage) and the end of a connection.    *)
(***************************************************************************)

Receives(c, type) ==
    /\ Serving
    /\ socket[c] \in { "open", "ending" }
    /\ up[c] # << >> /\ Head(up[c]).type = type
    /\ up' = [up EXCEPT ![c] = Tail(@)]

\* The replayed lines, as messages.
Replayed(b, since) ==
    LET lines == EntriesAfter(b, lastSeq, since) IN [i \in 1..Len(lines) |-> M("line", lines[i].seq)]

\* Mutant of Greeting: the exit is reported before the replayed lines.
GreetingExitFirst(b, since) ==
    << M("welcome", lastSeq) >>
      \o (IF since # LiveOnly /\ HasGap(b, lastSeq, since) THEN << M("gap", FirstSeq(b, lastSeq)) >> ELSE << >>)
      \o (IF childExit THEN << M("exit", 0) >> ELSE << >>)
      \o (IF since = LiveOnly THEN << >> ELSE Replayed(b, since))

\* What attach() writes: welcome, then the gap and the lines of a replay, then the exit.
Greeting(b, since) ==
    << M("welcome", lastSeq) >>
      \o (IF since # LiveOnly /\ HasGap(b, lastSeq, since) THEN << M("gap", FirstSeq(b, lastSeq)) >> ELSE << >>)
      \o (IF since = LiveOnly THEN << >> ELSE Replayed(b, since))
      \o (IF childExit THEN << M("exit", 0) >> ELSE << >>)

\* hello: the connection becomes THE client; the previous one is told and ended.
OnHello(c) ==
    /\ Receives(c, "hello")
    /\ buf' \in Trims(buf)
    /\ attached' = attached \cup {c}
    /\ client' = c
    /\ attachOrder' = Append(attachOrder, c)
    /\ Send([d \in Conns |-> IF d = c THEN Greeting(buf', Head(up[c]).since)
                             ELSE IF d = client THEN << M("replaced", 0) >> ELSE << >>],
            {client} \ {c})
    /\ UNCHANGED << childVars, lastSeq, hostVars, watchers, peerVars >>

\* Mutant of OnWrite: a client that was replaced still writes.
OnWriteOfAnyAttached(c) ==
    /\ Receives(c, "write")
    /\ childIn' = IF c \in attached /\ ~childExit /\ ~stdinEnded THEN Append(childIn, c) ELSE childIn
    /\ UNCHANGED << proc, stdout, signalled, childExit, exitFlush, overflowed, stdinEnded, exitAt, bufVars,
                    hostVars, connVars, socket, sent, peerVars >>

\* write: only from the attached, current client, and only while the child takes input.
OnWrite(c) ==
    /\ Receives(c, "write")
    /\ childIn' = IF c \in attached /\ client = c /\ ~childExit /\ ~stdinEnded
                    THEN Append(childIn, c) ELSE childIn
    /\ UNCHANGED << proc, stdout, signalled, childExit, exitFlush, overflowed, stdinEnded, exitAt, bufVars,
                    hostVars, connVars, socket, sent, peerVars >>

OnStatus(c) ==
    /\ Receives(c, "status")
    /\ buf' \in Trims(buf)
    /\ Send(To(c, << M("status", lastSeq) >>), IF c \in attached THEN {} ELSE {c})
    /\ UNCHANGED << childVars, lastSeq, hostVars, connVars, peerVars >>

\* terminate: one who is not the client waits for the exit message as a watcher.
OnTerminate(c) ==
    /\ Receives(c, "terminate")
    /\ Terminate
    /\ Send(IF childExit THEN To(c, << M("exit", 0) >>) ELSE Nothing,
            IF host' = "stopped" THEN Conns ELSE IF childExit THEN {c} ELSE {})
    /\ watchers' = IF childExit \/ client = c THEN watchers ELSE watchers \cup {c}
    /\ UNCHANGED << proc, stdout, signalled, childExit, exitFlush, overflowed, childIn, exitAt, bufVars,
                    client, attached, attachOrder, peerVars >>

\* SIGTERM or SIGINT to the host process.
HostSignalled ==
    /\ "signal" \in HostEvents
    /\ Serving /\ phase = "no"
    /\ Terminate
    /\ Send(Nothing, IF childExit THEN Conns ELSE {})
    /\ UNCHANGED << proc, stdout, signalled, childExit, exitFlush, overflowed, childIn, exitAt, bufVars,
                    connVars, up, peerVars >>

\* The host's socket reached its end: destroyed, or the other end is gone (EOF is read
\* after the requests; an error loses them), or a stopping host forces it.
SocketCloses(c) ==
    /\ host # "crashed"
    /\ \/ socket[c] = "destroyed"
       \/ socket[c] \in { "open", "ending" }
          /\ \/ peer[c] \in { "exited", "disconnected" }
             \/ peer[c] = "closing" /\ up[c] = << >>
             \/ host = "stopped"
    /\ client' = IF client = c THEN NoConn ELSE client
    /\ watchers' = watchers \ {c}
    /\ up' = [up EXCEPT ![c] = << >>]
    /\ IF Serving /\ proc = "none" /\ c \in attached   \* the spawn failure has been delivered
         THEN Stop /\ socket' = [d \in Conns |-> IF d = c THEN "gone"
                                                 ELSE IF socket[d] = "open" THEN "ending" ELSE socket[d]]
         ELSE socket' = [socket EXCEPT ![c] = "gone"] /\ UNCHANGED << linger, host, record >>
    /\ UNCHANGED << childVars, bufVars, phase, attached, attachOrder, sent, peerVars >>

LingerExpires ==
    /\ Serving /\ linger
    /\ Stop
    /\ Send(Nothing, Conns)
    /\ UNCHANGED << childVars, bufVars, phase, connVars, up, peerVars >>

\* abort(): an uncaught exception kills the group and stops.
Abort ==
    /\ "abort" \in HostEvents
    /\ Serving
    /\ signalled' = IF proc = "none" THEN signalled ELSE "kill"
    /\ Stop
    /\ Send(Nothing, Conns)
    /\ UNCHANGED << proc, stdout, childExit, exitFlush, overflowed, stdinEnded, childIn, exitAt, bufVars, phase,
                    connVars, up, peerVars >>

\* The host process is killed.  Its parent-death signal reaches the child; the record stays.
Crash ==
    /\ "crash" \in HostEvents
    /\ Serving
    /\ host' = "crashed"
    /\ signalled' = IF proc = "running" /\ signalled = "none" THEN "term" ELSE signalled
    /\ socket' = [c \in Conns |-> IF socket[c] = "none" THEN "none" ELSE "gone"]
    /\ UNCHANGED << proc, stdout, childExit, exitFlush, overflowed, stdinEnded, childIn, exitAt, bufVars, phase,
                    linger, record, connVars, up, sent, peerVars >>

-----------------------------------------------------------------------------
(***************************************************************************)
(* The client end of a connection.                                         *)
(***************************************************************************)

Ask(c, type) == up' = [up EXCEPT ![c] = Append(@, R(type, LiveOnly))]

\* HostLineTransport.connect(): the listener accepts, hello follows at once.
Connect(c, since) ==
    /\ Serving /\ peer[c] = "idle"
    /\ peer' = [peer EXCEPT ![c] = "connecting"]
    /\ socket' = [socket EXCEPT ![c] = "open"]
    /\ up' = [up EXCEPT ![c] = << R("hello", since) >>]
    /\ asked' = [asked EXCEPT ![c] = since]
    /\ lastSeen' = [lastSeen EXCEPT ![c] = IF since = LiveOnly THEN 0 ELSE since]
    /\ UNCHANGED << childVars, bufVars, hostVars, connVars, sent, rcvd, requests >>

\* terminateHostAt(): no hello, only terminate, then wait for the close.
ConnectToTerminate(c) ==
    /\ Serving /\ peer[c] = "idle"
    /\ peer' = [peer EXCEPT ![c] = "asking"]
    /\ socket' = [socket EXCEPT ![c] = "open"]
    /\ Ask(c, "terminate")
    /\ UNCHANGED << childVars, bufVars, hostVars, connVars, sent, rcvd, asked, lastSeen, requests >>

\* The messages the client has read, and the next one.
Read(c) == SubSeq(sent[c], 1, rcvd[c])

\* HostLineTransport.onMessage().  A line is passed on unless the exit was read before
\* it (finishWith dropped the listeners); the cursor moves either way.
PeerReceives(c) ==
    /\ peer[c] \in Reading /\ rcvd[c] < Len(sent[c])
    /\ rcvd' = [rcvd EXCEPT ![c] = @ + 1]
    /\ LET m == sent[c][rcvd[c] + 1] IN
         /\ peer' = [peer EXCEPT ![c] =
                       IF @ = "asking" THEN @
                       ELSE IF m.type = "exit" THEN "exited"
                       ELSE IF m.type = "welcome" /\ @ = "connecting" THEN "welcomed" ELSE @]
         /\ lastSeen' = [lastSeen EXCEPT ![c] =
                           IF peer[c] # "asking"
                              /\ (m.type = "line" \/ (m.type = "welcome" /\ asked[c] = LiveOnly))
                             THEN m.seq ELSE @]
    /\ UNCHANGED << childVars, bufVars, hostVars, connVars, socket, up, sent, asked, requests >>

\* write() and status() of a transport that is in use.
PeerAsks(c, type) ==
    /\ type \in Kinds /\ peer[c] = "welcomed" /\ requests[c] < MaxRequests
    /\ socket[c] \in { "open", "ending" }
    /\ requests' = [requests EXCEPT ![c] = @ + 1]
    /\ Ask(c, type)
    /\ UNCHANGED << childVars, bufVars, hostVars, connVars, socket, sent, rcvd, peer, asked, lastSeen >>

\* close(): disconnect, or with terminate ask the host to end the provider and wait.
PeerCloses(c) ==
    /\ "close" \in Kinds
    /\ peer[c] = "welcomed"
    /\ peer' = [peer EXCEPT ![c] = "closing"]
    /\ UNCHANGED << childVars, bufVars, hostVars, connVars, socket, up, sent, rcvd, asked, lastSeen, requests >>

PeerTerminates(c) ==
    /\ "terminate" \in Kinds
    /\ peer[c] = "welcomed" /\ socket[c] \in { "open", "ending" }
    /\ peer' = [peer EXCEPT ![c] = "terminating"]
    /\ Ask(c, "terminate")
    /\ UNCHANGED << childVars, bufVars, hostVars, connVars, socket, sent, rcvd, asked, lastSeen, requests >>

\* The end of the host's stream: after everything it wrote, or, from a destroyed or a
\* broken socket, before.
PeerSeesClose(c) ==
    /\ peer[c] \in Reading \ { "exited" }
    /\ \/ socket[c] \in { "destroyed", "gone" }
       \/ socket[c] = "ending" /\ rcvd[c] = Len(sent[c])
    /\ peer' = [peer EXCEPT ![c] = "disconnected"]
    /\ UNCHANGED << childVars, bufVars, hostVars, connVars, socket, up, sent, rcvd, asked, lastSeen, requests >>

\* The backend dies, or destroys a connection whose answer did not come in time.
PeerDrops(c) ==
    /\ "drop" \in Kinds
    /\ peer[c] \in Reading \ { "exited" }
    /\ peer' = [peer EXCEPT ![c] = "disconnected"]
    /\ UNCHANGED << childVars, bufVars, hostVars, connVars, socket, up, sent, rcvd, asked, lastSeen, requests >>

-----------------------------------------------------------------------------
InitWith(spawned) ==
    /\ proc = IF spawned THEN "running" ELSE "none"
    /\ stdout = spawned
    /\ childExit = ~spawned            \* spawnError sets childExit
    /\ linger = ~spawned               \* FAILED_SPAWN_LINGER_MS
    /\ record = spawned
    /\ signalled = "none" /\ exitFlush = FALSE /\ overflowed = FALSE /\ stdinEnded = FALSE
    /\ childIn = << >> /\ exitAt = 0 /\ lastSeq = 0 /\ buf = << >>
    /\ phase = "no" /\ host = "serving"
    /\ client = NoConn /\ attached = {} /\ watchers = {} /\ attachOrder = << >>
    /\ socket = [c \in Conns |-> "none"]
    /\ up = Nothing /\ sent = Nothing
    /\ rcvd = [c \in Conns |-> 0]
    /\ peer = [c \in Conns |-> "idle"]
    /\ asked = [c \in Conns |-> LiveOnly]
    /\ lastSeen = [c \in Conns |-> 0]
    /\ requests = [c \in Conns |-> 0]

\* start() has run: the socket is served, with a child or with the error of its spawn.
Init == \E spawned \in BOOLEAN : InitWith(spawned)

ChildStep ==
    \/ \E bytes \in LineBytes : ChildLine(bytes)
    \/ LineOverflow \/ ChildExits \/ StdoutCloses

HostTimer == FlushTimeout \/ GraceExpires \/ KillWaitExpires \/ LingerExpires

HostStep(c) == OnHello(c) \/ OnWrite(c) \/ OnStatus(c) \/ OnTerminate(c) \/ SocketCloses(c)

PeerStep(c) ==
    \/ c \in Clients /\ \E since \in Sinces : Connect(c, since)
    \/ c \in Terminators /\ ConnectToTerminate(c)
    \/ PeerReceives(c)
    \/ PeerAsks(c, "write") \/ PeerAsks(c, "status")
    \/ PeerCloses(c) \/ PeerTerminates(c) \/ PeerSeesClose(c) \/ PeerDrops(c)

Next ==
    \/ ChildStep \/ HostTimer \/ HostSignalled \/ Abort \/ Crash
    \/ \E c \in Conns : HostStep(c) \/ PeerStep(c)

Spec == Init /\ [][Next]_vars

\* The host's timers fire, and each end reads what reached it and notices a closed
\* socket.  Nothing makes the child print, exit or obey a signal.
Fairness ==
    /\ WF_vars(FlushTimeout) /\ WF_vars(GraceExpires) /\ WF_vars(KillWaitExpires) /\ WF_vars(LingerExpires)
    /\ \A c \in Conns : WF_vars(HostStep(c)) /\ WF_vars(PeerReceives(c)) /\ WF_vars(PeerSeesClose(c))

FairSpec == Spec /\ Fairness

-----------------------------------------------------------------------------
(***************************************************************************)
(* What the relay promises.                                                *)
(***************************************************************************)

\* What follows is about the sequence `msgs` a client was sent after it asked for the
\* lines after `cursor`.
LinesOf(msgs) == { i \in 1..Len(msgs) : msgs[i].type = "line" }
Greeted(msgs) == msgs # << >> /\ msgs[1].type = "welcome"
ToldGap(msgs) == Len(msgs) > 1 /\ msgs[2].type = "gap"

\* The line after which the client's stream begins, as the client can compute it from
\* its own cursor, the welcome and the gap.
StreamStart(msgs, cursor) ==
    IF cursor = LiveOnly \/ cursor >= msgs[1].seq THEN msgs[1].seq
    ELSE IF ToldGap(msgs) THEN msgs[2].seq - 1
    ELSE cursor

\* Every line is preceded by every earlier line of the stream.
Unbroken(msgs, cursor) ==
    \A i \in LinesOf(msgs) : \A n \in (StreamStart(msgs, cursor) + 1)..(msgs[i].seq - 1) :
      \E j \in LinesOf(msgs) : j < i /\ msgs[j].seq = n

Ascending(msgs) == \A i, j \in LinesOf(msgs) : i < j => msgs[i].seq < msgs[j].seq

CompleteTo(msgs, cursor, last) ==
    \A n \in (StreamStart(msgs, cursor) + 1)..last : \E i \in LinesOf(msgs) : msgs[i].seq = n

ChildTypes ==
    /\ proc \in { "none", "running", "exited" }
    /\ signalled \in { "none", "term", "kill" }
    /\ stdout \in BOOLEAN /\ childExit \in BOOLEAN /\ exitFlush \in BOOLEAN
    /\ overflowed \in BOOLEAN /\ stdinEnded \in BOOLEAN
    /\ childIn \in Seq(Conns) /\ exitAt \in Nat

BufTypes == lastSeq \in Nat /\ buf \in Seq(Entry)

HostTypes ==
    /\ phase \in { "no", "eof", "term", "kill", "over" }
    /\ host \in { "serving", "stopped", "crashed" }
    /\ linger \in BOOLEAN /\ record \in BOOLEAN

ConnTypes ==
    /\ client \in Conns \cup {NoConn}
    /\ attached \subseteq Conns /\ watchers \subseteq Conns /\ attachOrder \in Seq(Conns)

StreamTypes ==
    /\ socket \in [Conns -> { "none", "open", "ending", "destroyed", "gone" }]
    /\ up \in [Conns -> Seq(Request)]
    /\ sent \in [Conns -> Seq(Msg)]

PeerTypes ==
    /\ rcvd \in [Conns -> Nat]
    /\ peer \in [Conns -> Peers]
    /\ asked \in [Conns -> Nat \cup {LiveOnly}]
    /\ lastSeen \in [Conns -> Nat]
    /\ requests \in [Conns -> Nat]

\* Every variable of the host and of its clients stays in its type.
TypeOK == ChildTypes /\ BufTypes /\ HostTypes /\ ConnTypes /\ StreamTypes /\ PeerTypes

\* The buffer never has a hole: a replay that starts at a buffered line is complete
\* ("A hole in the buffer would replay later lines as if nothing was missing").
BufferContiguous == Contiguous(buf, lastSeq)

\* No silent hole: before a client is sent a line it was sent every line after its
\* stream start, whatever was trimmed, replayed, replaced or printed meanwhile.
NoSilentHole == \A c \in Conns : Unbroken(sent[c], asked[c])

\* Lines come in the child's order, none twice, across the replay and the live output.
LinesAscend == \A c \in Conns : Ascending(sent[c])

\* The current client is never behind: as long as its socket is open it has been sent
\* everything the child printed since its stream start.
ClientCaughtUp ==
    \A c \in Conns : (client = c /\ socket[c] = "open") => CompleteTo(sent[c], asked[c], lastSeq)

\* Replacing a client is final: after a write of a later client reached the child, no
\* write of an earlier one does, however long it was under way.
LaterClientWins ==
    \A i, j \in 1..Len(childIn) : i < j =>
      \A p, q \in 1..Len(attachOrder) :
        (attachOrder[p] = childIn[i] /\ attachOrder[q] = childIn[j]) => p <= q

\* The host never leaves while a child it has not sent SIGKILL may run.
NoOrphanAtStop == host = "stopped" => proc # "running" \/ signalled = "kill"

\* The record file never names a host that stopped in order: nobody adopts one that is
\* going away, and a failed spawn is never recorded.
RecordNamesServingHost == record => host # "stopped" /\ proc # "none"

\* What the client has read, as the abstract relay states it: the lines passed on to the
\* listeners are those read before an exit message.
PassedOn(msgs) == { i \in LinesOf(msgs) : \A j \in 1..(i - 1) : msgs[j].type # "exit" }

ReadUpTo(msgs, start) ==
    LET passed == PassedOn(msgs)
    IN  IF passed = {} THEN start
        ELSE msgs[CHOOSE i \in passed : \A j \in passed : j <= i].seq

StreamOf(c) ==
    LET read  == Read(c)
        start == StreamStart(sent[c], asked[c])
        ended(otherwise) == CASE peer[c] = "exited" -> "exited"
                              [] peer[c] = "disconnected" -> "lost"
                              [] OTHER -> otherwise
    IN  IF Greeted(read)
          THEN [state |-> ended("open"), from |-> start, to |-> ReadUpTo(read, start)]
          ELSE [state |-> ended("none"), from |-> 0, to |-> 0]

Relay ==
    INSTANCE RelayContract
      WITH printed <- lastSeq, ended <- childExit, endAt <- exitAt,
           stream <- [c \in Clients |-> StreamOf(c)]

\* The host and its clients implement the abstract relay: every client reads one unbroken
\* stretch of the provider's output and learns of its end only after the last line.
ImplementsRelay == Relay!Spec

\* A host leaves when its work is over: every termination that began ends with the host gone,
\* also when the child ignores EOF and signals, and the host of an ended child does not linger
\* for ever, however many clients still come.  A request to terminate over a connection of its
\* own is answered by its close.
HostLeaves ==
    /\ (phase # "no" \/ childExit) ~> host # "serving"
    /\ \A c \in Terminators : peer[c] = "asking" ~> peer[c] = "disconnected"

=============================================================================
