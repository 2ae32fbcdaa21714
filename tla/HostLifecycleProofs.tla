------------------------ MODULE HostLifecycleProofs ------------------------
(***************************************************************************)
(* Proofs about the hosts of one conversation: at most one process writes, *)
(* a process that was spoken to is found again, and an open ends none that *)
(* answered before.                                                        *)
(*                                                                         *)
(* The three follow from one inductive invariant, Inv.  What is hard about *)
(* it is that files and processes change at different times: `Apart` says  *)
(* that a host which is not the only one that is up or comes up knows it,  *)
(* `Filed` that one which is alone and has its socket has its record, and  *)
(* `Known` says of a process that was spoken to what every variable and    *)
(* the operation in progress say of its host.  Most steps of hosts and of  *)
(* the backend are Quiet: no host comes up, is spoken to or is given work. *)
(***************************************************************************)
EXTENDS HostLifecycle, SequenceTheorems, TLAPS

-----------------------------------------------------------------------------
(***************************************************************************)
(* Types.                                                                  *)
(***************************************************************************)
HostType == [st : ComingUp \cup { "serving", "stopping", "gone", "dead" }, argv : { "new", "resume" },
         kid : { "none", "up", "over" }, reg : BOOLEAN, used : BOOLEAN, worked : BOOLEAN,
         slow : BOOLEAN, hung : BOOLEAN, term : BOOLEAN, missed : 0..2, cut : BOOLEAN]

RetireSteps == { "retire", "asked", "signal", "signalled", "killed" }
Steps == RetireSteps \cup { "attach", "holder", "open", "start", "starting", "handshake", "closing" }

OpType == [kind : { "none", "resume", "reattach", "end" }, step : Steps \cup {""},
       via : { "", "survivor", "reattach", "launch" }, h : Nat, r : Nat, fresh : BOOLEAN,
       next : { "", "start", "survivor", "done", "fail", "open", "holder" },
       argv : { "", "new", "resume" }]

TypeOK ==
    /\ hosts \in Seq(HostType)
    /\ record \in 0..Len(hosts) /\ socket \in 0..Len(hosts) /\ loaded \in 0..Len(hosts)
    /\ op.h \in 0..Len(hosts) /\ op.r \in 0..Len(hosts)
    /\ launch \in { "", "new", "resume" } /\ ran \in BOOLEAN /\ silent \in BOOLEAN
    /\ op \in OpType
    /\ backends \in 1..MaxBackends /\ faults \in 0..MaxFaults

-----------------------------------------------------------------------------
\* What a host can be.
Live(h) == hosts[h].st \in ComingUp \cup { "serving" }
HostOK(x) ==
    /\ x.st = "new" => x.kid = "none"
    /\ x.kid = "none" => ~x.worked
    /\ x.worked => x.used
    /\ x.used => x.st \notin ComingUp
    /\ x.st = "stopping" => x.kid = "over"
    /\ x.kid = "up" /\ x.worked => x.reg

\* Where an operation may stand when the session l is loaded and s says that it was silent.
OpShape(o, l, s) ==
    /\ (o.kind = "none") = (o.step = "")
    /\ o.kind \in { "resume", "reattach" } => l = 0
    /\ o.step \in { "attach", "holder", "open", "start", "starting", "handshake" } => o.kind \in { "resume", "reattach" }
    /\ o.step \in RetireSteps => IF o.kind = "end" THEN o.next = "done" ELSE o.next \in { "start", "survivor" }
    /\ o.step \notin { "", "holder" } /\ o.kind # "end" => o.argv # ""
    /\ o.step = "closing" => IF o.kind = "end" THEN o.next = "done" ELSE o.next \in { "fail", "open", "holder" }
    /\ o.step = "asked" => o.h # 0
    /\ o.step = "starting" => o.h = Len(hosts) /\ o.h # 0 /\ hosts[o.h].argv = o.argv
    /\ o.step \in { "handshake", "closing" } => o.h # 0 /\ hosts[o.h].st \notin ComingUp
    /\ l # 0 => ~s /\ hosts[l].st \notin ComingUp

\* One writer: from the answer of the registry to the end of a launch nobody writes, the process
\* of a handshake is the only one that may, and the process of a loaded session has registered.
Writes(h) == Up(h) /\ hosts[h].worked
OnlyWriter(h) == \A j \in DOMAIN hosts \ {h} : ~Writes(j)
NoWriter == \A j \in DOMAIN hosts : ~Writes(j)

Launches(o) ==
    \/ o.step \in { "open", "start", "starting" }
    \/ o.step \in RetireSteps /\ o.next = "start"
    \/ o.step = "closing" /\ o.next = "open"
    \/ o.step = "handshake" /\ o.via = "launch"

WriterShape(o, l) ==
    /\ Launches(o) => NoWriter
    /\ o.step = "handshake" => OnlyWriter(o.h) /\ (Up(o.h) => hosts[o.h].used)
    /\ l # 0 => OnlyWriter(l) /\ (Up(l) => hosts[l].reg /\ hosts[l].used)

\* A host that came up or comes up beside another one, or before another one, knows it.
Apart == \A g, h \in DOMAIN hosts : Live(g) /\ g # h /\ (Live(h) \/ g < h) => hosts[g].cut

\* A host that is alone and still has its socket has its record.
Filed == \A h \in DOMAIN hosts : hosts[h].st = "serving" /\ ~hosts[h].cut /\ socket = h => record = h

\* What holds of a host h that was spoken to, with m opens not answered.
KnownShape(h, m, o, l, s, rec, sock, com) ==
    /\ rec = h /\ sock = h /\ com = hosts[h].argv
    /\ l # 0 => l = h
    /\ o.step \in RetireSteps => o.r = h
    /\ o.step = "handshake" => o.h = h
    /\ o.step # "closing"
    /\ hosts[h].worked /\ (s \/ (o.step \in RetireSteps /\ o.next = "survivor")) => m > 0

OpOK == OpShape(op, loaded, silent)
Writer == WriterShape(op, loaded)
Known == \A h \in DOMAIN hosts : Spoken(h) => KnownShape(h, hosts[h].missed, op, loaded, silent, record, socket, launch)
HostsOK == \A h \in DOMAIN hosts : HostOK(hosts[h])

Inv == TypeOK /\ HostsOK /\ OpOK /\ Writer /\ OneWriter /\ Apart /\ Filed /\ Known

\* What the types say of the sequence of hosts, and of what names one.
LEMMA HostsTyped ==
  ASSUME TypeOK
  PROVE  /\ hosts \in Seq(HostType) /\ Len(hosts) \in Nat /\ DOMAIN hosts = 1..Len(hosts)
         /\ \A h \in DOMAIN hosts : hosts[h] \in HostType
<1>1. hosts \in Seq(HostType)
  BY DEF TypeOK
<1> QED BY <1>1, LenProperties, ElementOfSeq

LEMMA InitInv == Init => Inv
<1> SUFFICES ASSUME Init PROVE Inv
  OBVIOUS
<1>1. hosts = << >> /\ Len(hosts) = 0 /\ DOMAIN hosts = {} /\ hosts \in Seq(HostType)
  <2>1. hosts = << >> /\ hosts \in Seq(HostType) /\ Len(hosts) = 0
    BY EmptySeq DEF Init
  <2>2. DOMAIN hosts = 1..Len(hosts)
    BY <2>1, LenProperties
  <2> QED BY <2>1, <2>2
<1>2. TypeOK
  <2>1. /\ record \in 0..Len(hosts) /\ socket \in 0..Len(hosts) /\ loaded \in 0..Len(hosts)
        /\ op.h \in 0..Len(hosts) /\ op.r \in 0..Len(hosts)
    <3>1. record = 0 /\ socket = 0 /\ loaded = 0 /\ op.h = 0 /\ op.r = 0
      BY DEF Init, NoOp
    <3> QED BY <1>1, <3>1
  <2>2. op \in OpType
    BY DEF Init, OpType, NoOp
  <2>3. backends \in 1..MaxBackends /\ faults \in 0..MaxFaults
    <3>1. MaxBackends \in Nat \ {0} /\ MaxFaults \in Nat
      BY BoundAssumption
    <3>2. backends = 1 /\ faults = 0
      BY DEF Init
    <3> QED BY <3>1, <3>2
  <2> QED BY <1>1, <2>1, <2>2, <2>3 DEF TypeOK, Init
<1>3. OpOK
  BY <1>1 DEF Init, OpOK, OpShape, NoOp, RetireSteps
<1>4. Writer
  BY <1>1 DEF Init, Writer, WriterShape, NoOp, Launches, RetireSteps
<1> QED BY <1>1, <1>2, <1>3, <1>4 DEF Inv, HostsOK, OneWriter, Apart, Filed, Known

-----------------------------------------------------------------------------
(***************************************************************************)
(* What a step may do to a host that it neither starts, nor speaks to, nor *)
(* gives work to.                                                          *)
(***************************************************************************)
IsLive(x) == x.st \in ComingUp \cup { "serving" }
IsSpoken(x) == x.kid = "up" /\ x.st = "serving" /\ x.used /\ ~x.term /\ ~x.cut

Tame(x, y) ==
    /\ y.argv = x.argv
    /\ y.kid = "up" /\ y.worked => x.kid = "up" /\ x.worked
    /\ IsLive(y) => IsLive(x) /\ (x.cut => y.cut)
    /\ IsSpoken(y) => IsSpoken(x) /\ (y.worked => x.worked) /\ y.missed >= x.missed
    /\ x.st \notin ComingUp => y.st \notin ComingUp /\ (y.kid = "up" => x.kid = "up" /\ (x.reg => y.reg) /\ (x.used => y.used))

\* No host comes to serve.
Settling == \A h \in DOMAIN hosts : hosts'[h].st = "serving" => hosts[h].st = "serving"

Good(x) == x \in HostType /\ HostOK(x)

Quiet ==
    /\ hosts' \in Seq(HostType) /\ Len(hosts') = Len(hosts)
    /\ \A h \in DOMAIN hosts : HostOK(hosts'[h]) /\ Tame(hosts[h], hosts'[h])

LEMMA SameIsTame == \A x \in HostType : Tame(x, x)
BY DEF Tame, HostType

LEMMA TermIsTame ==
  ASSUME NEW x, Good(x)
  PROVE  /\ Good([x EXCEPT !.term = TRUE]) /\ Tame(x, [x EXCEPT !.term = TRUE])
         /\ [x EXCEPT !.term = TRUE].st = x.st
BY DEF Good, HostType, HostOK, Tame, IsLive, IsSpoken

LEMMA FlagIsTame ==
  ASSUME NEW x, Good(x), NEW b \in BOOLEAN
  PROVE  /\ Good([x EXCEPT !.hung = b]) /\ Tame(x, [x EXCEPT !.hung = b]) /\ [x EXCEPT !.hung = b].st = x.st
         /\ Good([x EXCEPT !.slow = b]) /\ Tame(x, [x EXCEPT !.slow = b]) /\ [x EXCEPT !.slow = b].st = x.st
<1>1. Good([x EXCEPT !.hung = b]) /\ Tame(x, [x EXCEPT !.hung = b]) /\ [x EXCEPT !.hung = b].st = x.st
  BY DEF Good, HostType, HostOK, Tame, IsLive, IsSpoken
<1>2. Good([x EXCEPT !.slow = b]) /\ Tame(x, [x EXCEPT !.slow = b]) /\ [x EXCEPT !.slow = b].st = x.st
  BY DEF Good, HostType, HostOK, Tame, IsLive, IsSpoken
<1> QED BY <1>1, <1>2

LEMMA FlagsAreTame ==
  ASSUME NEW x, Good(x), NEW b \in BOOLEAN
  PROVE  /\ Good([x EXCEPT !.slow = FALSE, !.hung = b]) /\ Tame(x, [x EXCEPT !.slow = FALSE, !.hung = b])
         /\ [x EXCEPT !.slow = FALSE, !.hung = b].st = x.st
<1> DEFINE z == [x EXCEPT !.slow = FALSE]
           y == [z EXCEPT !.hung = b]
<1>1. Good(z) /\ z.st = x.st /\ Tame(x, z)
  BY FlagIsTame
<1>2. /\ z.argv = x.argv /\ z.kid = x.kid /\ z.worked = x.worked /\ z.used = x.used /\ z.cut = x.cut
      /\ z.term = x.term /\ z.missed = x.missed /\ z.reg = x.reg
  BY DEF Good, HostType
<1> HIDE DEF z
<1>3. Good(y) /\ y.st = z.st /\ Tame(z, y)
  BY <1>1, FlagIsTame
<1>4. Tame(x, y)
  BY <1>1, <1>2, <1>3 DEF Tame, IsLive, IsSpoken
<1> QED BY <1>1, <1>3, <1>4 DEF z

LEMMA RegIsTame ==
  ASSUME NEW x, Good(x), x.kid = "up"
  PROVE  Good([x EXCEPT !.reg = TRUE]) /\ Tame(x, [x EXCEPT !.reg = TRUE]) /\ [x EXCEPT !.reg = TRUE].st = x.st
<1> DEFINE y == [x EXCEPT !.reg = TRUE]
<1>1. /\ y \in HostType /\ y.reg = TRUE /\ y.argv = x.argv /\ y.kid = x.kid /\ y.worked = x.worked
      /\ y.used = x.used /\ y.cut = x.cut /\ y.term = x.term /\ y.missed = x.missed /\ y.st = x.st
      /\ x.missed \in 0..2
  BY DEF Good, HostType
<1> HIDE DEF y
<1>2. Good(y)
  BY <1>1 DEF Good, HostOK
<1>3. Tame(x, y)
  BY <1>1 DEF Tame, IsLive, IsSpoken
<1> QED BY <1>1, <1>2, <1>3 DEF y

LEMMA StoppingIsTame ==
  ASSUME NEW x, Good(x), x.st = "serving", x.kid = "over"
  PROVE  Good([x EXCEPT !.st = "stopping"]) /\ Tame(x, [x EXCEPT !.st = "stopping"])
BY DEF Good, HostType, HostOK, Tame, IsLive, IsSpoken, ComingUp

LEMMA CutIsTame ==
  ASSUME NEW x, Good(x), NEW b \in BOOLEAN
  PROVE  /\ Good([x EXCEPT !.cut = x.cut \/ b]) /\ Tame(x, [x EXCEPT !.cut = x.cut \/ b])
         /\ b => [x EXCEPT !.cut = x.cut \/ b].cut
BY DEF Good, HostType, HostOK, Tame, IsLive, IsSpoken

LEMMA EndKidIsTame ==
  ASSUME NEW x, Good(x), x.kid = "up"
  PROVE  Good(EndKid(x)) /\ Tame(x, EndKid(x)) /\ EndKid(x).st = x.st
BY DEF Good, HostType, HostOK, Tame, IsLive, IsSpoken, EndKid, ComingUp

LEMMA WithoutIsTame ==
  ASSUME NEW x, Good(x), NEW st \in { "gone", "dead" }
  PROVE  Good(Without(x, st)) /\ Tame(x, Without(x, st)) /\ Without(x, st).st = st
<1>1. CASE x.kid = "up" /\ x.hung
  BY <1>1 DEF Good, HostType, HostOK, Tame, IsLive, IsSpoken, Without, ComingUp
<1>2. CASE ~(x.kid = "up" /\ x.hung)
  <2> DEFINE y == Without(x, st)
  <2>1. y = [st |-> st, argv |-> x.argv, kid |-> IF x.kid = "none" THEN "none" ELSE "over",
             reg |-> FALSE, used |-> FALSE, worked |-> FALSE,
             slow |-> FALSE, hung |-> FALSE, term |-> FALSE, missed |-> 0, cut |-> FALSE]
    BY <1>2 DEF Without, Fresh
  <2> HIDE DEF y
  <2>2. y.kid \in { "none", "over" }
    BY <2>1
  <2>3. Good(y)
    BY <2>1, <2>2 DEF Good, HostType, HostOK, ComingUp
  <2>4. Tame(x, y)
    BY <2>1, <2>2 DEF Tame, IsLive, IsSpoken, ComingUp
  <2>5. y.st = st
    BY <2>1
  <2> QED BY <2>3, <2>4, <2>5 DEF y
<1> QED BY <1>1, <1>2

\* A step that changes one host, and that one in a tame way.
LEMMA OneHostIsQuiet ==
  ASSUME TypeOK, HostsOK, NEW k \in DOMAIN hosts, NEW y, Good(y), Tame(hosts[k], y), hosts' = [hosts EXCEPT ![k] = y]
  PROVE  Quiet /\ ((y.st = "serving" => hosts[k].st = "serving") => Settling)
<1>1. hosts \in Seq(HostType) /\ y \in HostType /\ DOMAIN hosts = 1..Len(hosts)
  BY HostsTyped DEF Good
<1>2. hosts' \in Seq(HostType) /\ Len(hosts') = Len(hosts)
  BY <1>1, ExceptSeq
<1>3. ASSUME NEW h \in DOMAIN hosts PROVE HostOK(hosts'[h]) /\ Tame(hosts[h], hosts'[h])
  <2>1. CASE h = k
    BY <2>1, <1>1 DEF Good
  <2>2. CASE h # k
    BY <2>2, <1>1, SameIsTame DEF HostsOK
  <2> QED BY <2>1, <2>2
<1>4. ASSUME y.st = "serving" => hosts[k].st = "serving" PROVE Settling
  BY <1>1, <1>4 DEF Settling
<1> QED BY <1>2, <1>3, <1>4 DEF Quiet

LEMMA NoHostIsQuiet == TypeOK /\ HostsOK /\ hosts' = hosts => Quiet /\ Settling
BY HostsTyped, SameIsTame DEF Quiet, HostsOK, Settling

\* What a quiet step leaves.
LEMMA QuietLeaves ==
  ASSUME TypeOK, HostsOK, Quiet
  PROVE  /\ DOMAIN hosts' = DOMAIN hosts /\ HostsOK'
         /\ NoWriter => NoWriter'
         /\ \A h \in Nat : OnlyWriter(h) => OnlyWriter(h)'
         /\ Apart => Apart'
         /\ OneWriter => OneWriter'
         /\ \A h \in DOMAIN hosts : Spoken(h)' => Spoken(h) /\ (hosts'[h].worked => hosts[h].worked)
                                                  /\ hosts'[h].missed >= hosts[h].missed
         /\ \A h \in DOMAIN hosts : hosts'[h].argv = hosts[h].argv
         /\ \A h \in DOMAIN hosts : hosts[h].st \notin ComingUp =>
                hosts'[h].st \notin ComingUp /\ (Up(h)' => Up(h) /\ (hosts[h].reg => hosts'[h].reg) /\ (hosts[h].used => hosts'[h].used))
<1>1. DOMAIN hosts' = DOMAIN hosts /\ DOMAIN hosts = 1..Len(hosts) /\ HostsOK'
  BY HostsTyped, LenProperties DEF Quiet, HostsOK
<1>2. ASSUME NEW h \in DOMAIN hosts PROVE Writes(h)' => Writes(h)
  BY DEF Quiet, Tame, Writes, Up
<1>3. NoWriter => NoWriter'
  BY <1>1, <1>2 DEF NoWriter
<1>4. \A h \in Nat : OnlyWriter(h) => OnlyWriter(h)'
  BY <1>1, <1>2 DEF OnlyWriter
<1>5. Apart => Apart'
  <2>1. \A h \in DOMAIN hosts : Live(h)' => Live(h) /\ (hosts[h].cut => hosts'[h].cut)
    BY DEF Quiet, Tame, Live, IsLive
  <2> QED BY <1>1, <2>1 DEF Apart
<1>9. OneWriter => OneWriter'
  BY <1>1, <1>2 DEF OneWriter, Writes, Up
<1>6. \A h \in DOMAIN hosts : Spoken(h)' => Spoken(h) /\ (hosts'[h].worked => hosts[h].worked)
                                                  /\ hosts'[h].missed >= hosts[h].missed
  BY DEF Quiet, Tame, Spoken, IsSpoken, Up
<1>7. \A h \in DOMAIN hosts : hosts'[h].argv = hosts[h].argv
  BY DEF Quiet, Tame
<1>8. \A h \in DOMAIN hosts : hosts[h].st \notin ComingUp =>
                hosts'[h].st \notin ComingUp /\ (Up(h)' => Up(h) /\ (hosts[h].reg => hosts'[h].reg) /\ (hosts[h].used => hosts'[h].used))
  BY DEF Quiet, Tame, Up
<1> QED BY <1>1, <1>3, <1>4, <1>5, <1>6, <1>7, <1>8, <1>9

LEMMA SettlingFiled ==
  ASSUME TypeOK, HostsOK, Quiet, Settling, Filed, UNCHANGED files
  PROVE  Filed'
<1>1. DOMAIN hosts' = DOMAIN hosts
  BY QuietLeaves
<1>2. \A h \in DOMAIN hosts : hosts'[h].st = "serving" /\ ~hosts'[h].cut => hosts[h].st = "serving" /\ ~hosts[h].cut
  BY DEF Settling, Quiet, Tame, IsLive
<1> QED BY <1>1, <1>2 DEF Filed, files

\* What the other variables have to satisfy after a step that is quiet for the hosts.
TypedAfter ==
    /\ record' \in 0..Len(hosts) /\ socket' \in 0..Len(hosts) /\ loaded' \in 0..Len(hosts)
    /\ op'.h \in 0..Len(hosts) /\ op'.r \in 0..Len(hosts)
    /\ launch' \in { "", "new", "resume" } /\ ran' \in BOOLEAN /\ silent' \in BOOLEAN
    /\ op' \in OpType
    /\ backends' \in 1..MaxBackends /\ faults' \in 0..MaxFaults

KnownAfter == \A h \in DOMAIN hosts : Spoken(h) /\ Spoken(h)' =>
                 KnownShape(h, hosts'[h].missed, op', loaded', silent', record', socket', launch')

LEMMA QuietKeepsInv ==
  ASSUME Inv, Quiet, TypedAfter, OpShape(op', loaded', silent'), Filed', WriterShape(op', loaded'), KnownAfter
  PROVE  Inv'
<1> USE DEF Inv
<1>1. /\ DOMAIN hosts' = DOMAIN hosts /\ HostsOK' /\ Apart' /\ OneWriter'
      /\ NoWriter => NoWriter'
      /\ \A h \in Nat : OnlyWriter(h) => OnlyWriter(h)'
      /\ \A h \in DOMAIN hosts : Spoken(h)' => Spoken(h) /\ (hosts'[h].worked => hosts[h].worked)
      /\ \A h \in DOMAIN hosts : hosts'[h].argv = hosts[h].argv
      /\ \A h \in DOMAIN hosts : hosts[h].st \notin ComingUp =>
             hosts'[h].st \notin ComingUp /\ (Up(h)' => Up(h) /\ (hosts[h].reg => hosts'[h].reg) /\ (hosts[h].used => hosts'[h].used))
  BY QuietLeaves
<1>2. /\ hosts \in Seq(HostType) /\ Len(hosts) \in Nat /\ DOMAIN hosts = 1..Len(hosts)
      /\ hosts' \in Seq(HostType) /\ Len(hosts') = Len(hosts)
  BY HostsTyped DEF Quiet
<1>3. TypeOK'
  BY <1>2 DEF TypeOK, TypedAfter
<1>4. op' \in OpType /\ op'.h \in 0..Len(hosts) /\ loaded' \in 0..Len(hosts)
  BY DEF TypedAfter
<1>5. ASSUME loaded' # 0 PROVE loaded' \in DOMAIN hosts
  BY <1>2, <1>4, <1>5
<1>6. ASSUME op'.h # 0 PROVE op'.h \in DOMAIN hosts
  BY <1>2, <1>4, <1>6
<1>7. OpOK'
  <2>1. OpShape(op', loaded', silent')
    OBVIOUS
  <2> QED BY <2>1, <1>1, <1>2, <1>5, <1>6 DEF OpOK, OpShape
<1>8. Writer'
  <2>1. Launches(op') => NoWriter'
    BY <1>1 DEF WriterShape
  <2>2. ASSUME op'.step = "handshake"
        PROVE  (\A j \in DOMAIN hosts' \ {op'.h} : ~Writes(j)') /\ (hosts'[op'.h].kid = "up" => hosts'[op'.h].used)
    <3>1. hosts[op'.h].st \notin ComingUp /\ OnlyWriter(op'.h) /\ (Up(op'.h) => hosts[op'.h].used) /\ op'.h # 0
      BY <2>2 DEF WriterShape, OpShape
    <3> QED BY <3>1, <1>1, <1>2, <1>4, <1>6 DEF OnlyWriter, Up
  <2>3. ASSUME loaded' # 0
        PROVE  /\ \A j \in DOMAIN hosts' \ {loaded'} : ~Writes(j)'
               /\ hosts'[loaded'].kid = "up" => hosts'[loaded'].reg /\ hosts'[loaded'].used
    <3>1. hosts[loaded'].st \notin ComingUp /\ OnlyWriter(loaded') /\ (Up(loaded') => hosts[loaded'].reg /\ hosts[loaded'].used)
      BY <2>3 DEF WriterShape, OpShape
    <3> QED BY <3>1, <1>1, <1>2, <1>5, <2>3 DEF OnlyWriter, Up
  <2> QED BY <2>1, <2>2, <2>3 DEF Writer, WriterShape, OnlyWriter, Up
<1>9. Known'
  <2> SUFFICES ASSUME NEW h \in DOMAIN hosts', Spoken(h)'
               PROVE  KnownShape(h, hosts[h].missed, op, loaded, silent, record, socket, launch)'
    BY DEF Known
  <2>1. h \in DOMAIN hosts /\ Spoken(h) /\ (hosts'[h].worked => hosts[h].worked) /\ hosts'[h].argv = hosts[h].argv
    BY <1>1
  <2>2. KnownShape(h, hosts'[h].missed, op', loaded', silent', record', socket', launch')
    BY <2>1 DEF KnownAfter
  <2> QED BY <2>1, <2>2 DEF KnownShape
<1> QED BY <1>1, <1>3, <1>7, <1>8, <1>9

-----------------------------------------------------------------------------
(***************************************************************************)
(* The steps of a host and of its process.                                 *)
(***************************************************************************)
LEMMA HostKeepsInv ==
  ASSUME Inv, Quiet, UNCHANGED << meta, loaded, silent, op, backends >>, faults' \in 0..MaxFaults,
         record' \in 0..Len(hosts), socket' \in 0..Len(hosts), Filed',
         \A h \in DOMAIN hosts : Spoken(h) /\ Spoken(h)' => record' = record /\ socket' = socket
  PROVE  Inv'
<1>1. TypedAfter
  BY DEF Inv, TypeOK, TypedAfter, meta
<1>2. OpShape(op', loaded', silent') /\ WriterShape(op', loaded')
  BY DEF Inv, OpOK, Writer
<1>3. KnownAfter
  <2> SUFFICES ASSUME NEW h \in DOMAIN hosts, Spoken(h), Spoken(h)'
               PROVE  KnownShape(h, hosts'[h].missed, op', loaded', silent', record', socket', launch')
    BY DEF KnownAfter
  <2>1. KnownShape(h, hosts[h].missed, op, loaded, silent, record, socket, launch)
    BY DEF Inv, Known
  <2>2. hosts'[h].missed >= hosts[h].missed
    BY QuietLeaves DEF Inv
  <2>3. hosts[h].missed \in 0..2 /\ hosts'[h].missed \in 0..2
    <3>1. hosts[h] \in HostType /\ hosts'[h] \in HostType
      BY HostsTyped, ElementOfSeq DEF Inv, Quiet
    <3> QED BY <3>1 DEF HostType
  <2> QED BY <2>1, <2>2, <2>3 DEF KnownShape, meta
<1> QED BY <1>1, <1>2, <1>3, QuietKeepsInv

\* A step of one host that settles nothing and leaves the files.
LEMMA OneHostKeepsInv ==
  ASSUME Inv, NEW k \in DOMAIN hosts, NEW y, Good(y), Tame(hosts[k], y), hosts' = [hosts EXCEPT ![k] = y],
         y.st = "serving" => hosts[k].st = "serving",
         UNCHANGED << files, meta, loaded, silent, op, backends >>, faults' \in 0..MaxFaults
  PROVE  Inv'
<1>1. Quiet /\ Settling
  BY OneHostIsQuiet DEF Inv
<1>2. Filed'
  BY <1>1, SettlingFiled DEF Inv
<1> QED BY <1>1, <1>2, HostKeepsInv DEF Inv, TypeOK, files

LEMMA ClaimsKeepsInv ==
  ASSUME Inv, NEW k \in DOMAIN hosts, Claims(k)
  PROVE  Inv'
<1> DEFINE x == hosts[k]
<1>1. /\ Good(x) /\ k \in 1..Len(hosts) /\ DOMAIN hosts = 1..Len(hosts)
      /\ faults' \in 0..MaxFaults /\ record' = record /\ record \in 0..Len(hosts) /\ Len(hosts) \in Nat
      /\ UNCHANGED << meta, loaded, silent, op, backends >> /\ x.st = "new"
  BY HostsTyped DEF Claims, HostSteps, Inv, TypeOK, HostsOK, Good
<1>2. CASE Refused
  <2> DEFINE y == [x EXCEPT !.st = "spawned", !.kid = "up"]
  <2>1. socket' = 0 /\ hosts' = [hosts EXCEPT ![k] = y]
    BY <1>2 DEF Claims
  <2>2. Good(y) /\ Tame(x, y)
    BY <1>1 DEF Good, HostType, HostOK, Tame, IsLive, IsSpoken, ComingUp
  <2>3. Quiet
    BY <2>1, <2>2, OneHostIsQuiet DEF Inv
  <2>4. \A h \in DOMAIN hosts : ~Spoken(h)
    BY <1>2 DEF Inv, Known, KnownShape, Spoken, Refused
  <2>5. Filed'
    BY <2>1, <2>3, <1>1, QuietLeaves DEF Filed, Inv
  <2> QED BY <2>1, <2>3, <2>4, <2>5, <1>1, HostKeepsInv
<1>3. CASE ~Refused
  <2>1. hosts' = [hosts EXCEPT ![k] = Without(x, "gone")] /\ socket' = socket
    BY <1>3 DEF Claims
  <2>2. Good(Without(x, "gone")) /\ Tame(x, Without(x, "gone")) /\ Without(x, "gone").st = "gone"
    BY <1>1, WithoutIsTame
  <2> QED BY <1>1, <2>1, <2>2, OneHostKeepsInv DEF files
<1> QED BY <1>2, <1>3

LEMMA ListensKeepsInv ==
  ASSUME Inv, NEW k \in DOMAIN hosts, Listens(k)
  PROVE  Inv'
<1> DEFINE x == hosts[k]
<1>1. /\ Good(x) /\ k \in 1..Len(hosts) /\ DOMAIN hosts = 1..Len(hosts)
      /\ faults' \in 0..MaxFaults /\ record' = record /\ record \in 0..Len(hosts) /\ Len(hosts) \in Nat
      /\ UNCHANGED << meta, loaded, silent, op, backends >> /\ x.st = "spawned"
  BY HostsTyped DEF Listens, HostSteps, Inv, TypeOK, HostsOK, Good
<1>2. CASE socket = 0
  <2> DEFINE y == [x EXCEPT !.st = "listening"]
  <2>1. socket' = k /\ hosts' = [hosts EXCEPT ![k] = y]
    BY <1>2 DEF Listens
  <2>2. Good(y) /\ Tame(x, y) /\ y.st = "listening"
    BY <1>1 DEF Good, HostType, HostOK, Tame, IsLive, IsSpoken, ComingUp
  <2>3. Quiet
    BY <2>1, <2>2, OneHostIsQuiet DEF Inv
  <2>4. \A h \in DOMAIN hosts : ~Spoken(h)
    BY <1>1, <1>2 DEF Inv, Known, KnownShape
  <2>5. hosts'[k].st = "listening"
    BY <2>1, <2>2, HostsTyped DEF Inv
  <2>6. Filed'
    BY <2>1, <2>5 DEF Filed
  <2> QED BY <2>1, <2>3, <2>4, <2>6, <1>1, HostKeepsInv
<1>3. CASE socket # 0
  <2>1. hosts' = [hosts EXCEPT ![k] = Without(x, "gone")] /\ socket' = socket
    BY <1>3 DEF Listens
  <2>2. Good(Without(x, "gone")) /\ Tame(x, Without(x, "gone")) /\ Without(x, "gone").st = "gone"
    BY <1>1, WithoutIsTame
  <2> QED BY <1>1, <2>1, <2>2, OneHostKeepsInv DEF files
<1> QED BY <1>2, <1>3

\* The record it writes is no loss for a host that was spoken to: two that are up together know it.
LEMMA ServesKeepsInv ==
  ASSUME Inv, NEW k \in DOMAIN hosts, Serves(k)
  PROVE  Inv'
<1> DEFINE x == hosts[k]
           y == [x EXCEPT !.st = "serving"]
<1>1. /\ Good(x) /\ k \in 1..Len(hosts) /\ DOMAIN hosts = 1..Len(hosts)
      /\ faults' \in 0..MaxFaults /\ socket' = socket /\ socket \in 0..Len(hosts) /\ Len(hosts) \in Nat
      /\ UNCHANGED << meta, loaded, silent, op, backends >> /\ x.st = "listening"
      /\ record' = k /\ hosts' = [hosts EXCEPT ![k] = y]
  BY HostsTyped DEF Serves, HostSteps, Inv, TypeOK, HostsOK, Good
<1>2. Good(y) /\ Tame(x, y)
  BY <1>1 DEF Good, HostType, HostOK, Tame, IsLive, IsSpoken, ComingUp
<1>3. Quiet
  BY <1>1, <1>2, OneHostIsQuiet DEF Inv
<1>4. \A h \in DOMAIN hosts : h # k => hosts'[h] = hosts[h]
  BY <1>1
<1>5. \A h \in DOMAIN hosts : h # k /\ hosts[h].st = "serving" => hosts[h].cut
  BY <1>1 DEF Inv, Apart, Live, ComingUp
<1>6. \A h \in DOMAIN hosts : ~Spoken(h)
  BY <1>1, <1>5 DEF Spoken, Inv, Known, KnownShape
<1>7. Filed'
  BY <1>1, <1>3, <1>4, <1>5, QuietLeaves DEF Filed, Inv
<1> QED BY <1>1, <1>3, <1>6, <1>7, HostKeepsInv

\* stop() and its end: the host whose socket is removed is told apart by `cut`.
LEMMA StopKeepsInv ==
  ASSUME Inv, NEW k \in DOMAIN hosts, Stops(k) \/ Leaves(k)
  PROVE  Inv'
<1>1. /\ k \in 1..Len(hosts) /\ DOMAIN hosts = 1..Len(hosts) /\ hosts \in Seq(HostType)
      /\ faults' \in 0..MaxFaults /\ socket' = 0 /\ record' \in 0..Len(hosts) /\ Len(hosts) \in Nat
      /\ UNCHANGED << meta, loaded, silent, op, backends >>
  <2>1. /\ DOMAIN hosts = 1..Len(hosts) /\ hosts \in Seq(HostType) /\ Len(hosts) \in Nat
        /\ faults \in 0..MaxFaults /\ record \in 0..Len(hosts)
    BY HostsTyped DEF Inv, TypeOK
  <2>2. HostSteps(k) /\ socket' = 0 /\ record' \in { record, 0 }
    BY DEF Stops, Leaves
  <2> QED BY <2>1, <2>2 DEF HostSteps
<1>2. ASSUME NEW i \in DOMAIN hosts PROVE Good(hosts[i])
  BY HostsTyped DEF Inv, HostsOK, Good
<1>3. ASSUME NEW i \in DOMAIN hosts
      PROVE  Good(hosts'[i]) /\ Tame(hosts[i], hosts'[i]) /\ ~Spoken(i)'
  <2> DEFINE x == hosts[i]
  <2>1. CASE Stops(k)
    <3>1. (x.st = "serving" /\ x.kid = "over") \/ i # k
      BY <2>1 DEF Stops
    <3>2. hosts'[i] = [x EXCEPT !.st = IF i = k THEN "stopping" ELSE @, !.cut = @ \/ (i = socket /\ i # k)]
      BY <2>1 DEF Stops
    <3>3. Good(hosts'[i]) /\ Tame(x, hosts'[i])
      <4>1. CASE i = k
        <5>1. hosts'[i] = [x EXCEPT !.st = "stopping"]
          BY <1>2, <3>2, <4>1 DEF Good, HostType
        <5> QED BY <1>2, <3>1, <4>1, <5>1, StoppingIsTame
      <4>2. CASE i # k
        <5>1. PICK b \in BOOLEAN : hosts'[i] = [x EXCEPT !.cut = x.cut \/ b]
          <6>1. hosts'[i] = [x EXCEPT !.cut = x.cut \/ (i = socket /\ i # k)]
            BY <1>2, <3>2, <4>2 DEF Good, HostType
          <6> QED BY <6>1
        <5> QED BY <1>2, <5>1, CutIsTame
      <4> QED BY <4>1, <4>2
    <3>4. hosts'[i].st = "stopping" \/ (i = socket => hosts'[i].cut)
      BY <1>2, <3>2 DEF Good, HostType
    <3>5. Spoken(i)' => Spoken(i)
      BY <3>3 DEF Tame, Spoken, IsSpoken, Up
    <3> QED BY <3>3, <3>4, <3>5 DEF Spoken, Inv, Known, KnownShape
  <2>2. CASE Leaves(k)
    <3>1. CASE i = k
      <4>1. hosts'[i] = Without(x, "gone")
        BY <2>2, <3>1 DEF Leaves
      <4> QED BY <4>1, <1>2, WithoutIsTame DEF Spoken
    <3>2. CASE i # k
      <4>1. PICK b \in BOOLEAN : hosts'[i] = [x EXCEPT !.cut = x.cut \/ b] /\ (i = socket => b)
        BY <2>2, <3>2 DEF Leaves
      <4>2. Good(hosts'[i]) /\ Tame(x, hosts'[i]) /\ (i = socket => hosts'[i].cut)
        BY <1>2, <4>1, CutIsTame
      <4>3. Spoken(i)' => Spoken(i)
        BY <4>2 DEF Tame, Spoken, IsSpoken, Up
      <4> QED BY <4>2, <4>3 DEF Spoken, Inv, Known, KnownShape
    <3> QED BY <3>1, <3>2
  <2> QED BY <2>1, <2>2
<1>4. Quiet
  <2>1. hosts' = [i \in 1..Len(hosts) |-> hosts'[i]]
    BY <1>1 DEF Stops, Leaves
  <2>2. \A i \in 1..Len(hosts) : hosts'[i] \in HostType
    BY <1>1, <1>3 DEF Good
  <2>3. hosts' \in Seq(HostType) /\ Len(hosts') = Len(hosts)
    BY <1>1, <2>1, <2>2, IsASeq
  <2> QED BY <2>3, <1>3 DEF Quiet, Good
<1>5. Filed'
  BY <1>1, <1>4, QuietLeaves DEF Filed, Inv
<1> QED BY <1>1, <1>3, <1>4, <1>5, HostKeepsInv

\* What happens to a process, and the faults.
LEMMA ProcessKeepsInv ==
  ASSUME Inv, NEW k \in DOMAIN hosts,
         EndsKid(k) \/ Registers(k) \/ KidEnds(k) \/ Hangs(k) \/ Stalls(k) \/ Dies(k) \/ Recovers(k)
  PROVE  Inv'
<1> DEFINE x == hosts[k]
<1>1. Good(x) /\ Len(hosts) \in Nat
  BY HostsTyped DEF Inv, HostsOK, Good
<1>2. faults' \in 0..MaxFaults /\ UNCHANGED << files, meta, loaded, silent, op, backends >>
  <2>1. faults \in 0..MaxFaults /\ MaxFaults \in Nat
    BY BoundAssumption DEF Inv, TypeOK
  <2> QED BY <2>1 DEF EndsKid, Registers, KidEnds, Hangs, Stalls, Dies, Recovers, HostSteps, Fault
<1>3. PICK y : /\ hosts' = [hosts EXCEPT ![k] = y] /\ Good(y) /\ Tame(x, y)
               /\ y.st = "serving" => x.st = "serving"
  <2>1. CASE EndsKid(k) \/ KidEnds(k)
    BY <2>1, <1>1, EndKidIsTame DEF EndsKid, KidEnds, Up
  <2>2. CASE Dies(k)
    BY <2>2, <1>1, WithoutIsTame DEF Dies
  <2>3. CASE Registers(k)
    <3> DEFINE y == [x EXCEPT !.reg = TRUE]
    <3>1. Good(y) /\ Tame(x, y) /\ y.st = x.st
      BY <2>3, <1>1, RegIsTame DEF Registers, Up
    <3>2. hosts' = [hosts EXCEPT ![k] = y]
      BY <2>3 DEF Registers
    <3> QED BY <3>1, <3>2
  <2>4. CASE Hangs(k)
    <3> DEFINE y == [x EXCEPT !.hung = TRUE]
    <3>1. Good(y) /\ Tame(x, y) /\ y.st = x.st
      BY <1>1, FlagIsTame
    <3>2. hosts' = [hosts EXCEPT ![k] = y]
      BY <2>4 DEF Hangs
    <3> QED BY <3>1, <3>2
  <2>5. CASE Stalls(k)
    <3> DEFINE y == [x EXCEPT !.slow = TRUE]
    <3>1. Good(y) /\ Tame(x, y) /\ y.st = x.st
      BY <1>1, FlagIsTame
    <3>2. hosts' = [hosts EXCEPT ![k] = y]
      BY <2>5 DEF Stalls
    <3> QED BY <3>1, <3>2
  <2>6. CASE Recovers(k)
    <3>1. PICK b \in BOOLEAN : hosts' = [hosts EXCEPT ![k] = [x EXCEPT !.slow = FALSE, !.hung = b]]
      <4>1. hosts' = [hosts EXCEPT ![k] = [x EXCEPT !.slow = FALSE, !.hung = IF x.slow THEN x.hung ELSE FALSE]]
        BY <2>6 DEF Recovers
      <4>2. (IF x.slow THEN x.hung ELSE FALSE) \in BOOLEAN
        BY <1>1 DEF Good, HostType
      <4> QED BY <4>1, <4>2
    <3> DEFINE y == [x EXCEPT !.slow = FALSE, !.hung = b]
    <3>2. Good(y) /\ Tame(x, y) /\ y.st = x.st
      BY <1>1, FlagsAreTame
    <3> QED BY <3>1, <3>2
  <2> QED BY <2>1, <2>2, <2>3, <2>4, <2>5, <2>6
<1> QED BY <1>2, <1>3, OneHostKeepsInv

-----------------------------------------------------------------------------
(***************************************************************************)
(* The steps of the backend.                                               *)
(***************************************************************************)
LEMMA BackendKeepsInv ==
  ASSUME Inv, Quiet, Settling, UNCHANGED << files, ran, backends, faults >>,
         op' \in OpType, op'.h \in 0..Len(hosts), op'.r \in 0..Len(hosts),
         launch' \in { "", "new", "resume" }, silent' \in BOOLEAN, loaded' \in 0..Len(hosts),
         OpShape(op', loaded', silent'), WriterShape(op', loaded'), KnownAfter
  PROVE  Inv'
<1>1. TypedAfter
  BY DEF Inv, TypeOK, TypedAfter, files
<1>2. Filed'
  BY SettlingFiled DEF Inv
<1> QED BY <1>1, <1>2, QuietKeepsInv

\* A step that leaves the files and the launch record.
LEMMA StillKnown ==
  ASSUME Inv, Quiet, UNCHANGED << files, launch >>, loaded' \in { 0, loaded }, silent' => silent,
         \A h \in DOMAIN hosts : Spoken(h) /\ Spoken(h)' =>
             /\ op'.step \in RetireSteps => op'.r = h
             /\ op'.step = "handshake" => op'.h = h
             /\ op'.step # "closing"
             /\ hosts[h].worked /\ op'.step \in RetireSteps /\ op'.next = "survivor" => hosts[h].missed > 0
  PROVE  KnownAfter
<1> SUFFICES ASSUME NEW h \in DOMAIN hosts, Spoken(h), Spoken(h)'
             PROVE  KnownShape(h, hosts'[h].missed, op', loaded', silent', record', socket', launch')
  BY DEF KnownAfter
<1>1. KnownShape(h, hosts[h].missed, op, loaded, silent, record, socket, launch)
  BY DEF Inv, Known
<1>2. hosts'[h].missed >= hosts[h].missed
  BY QuietLeaves DEF Inv
<1>3. hosts[h].missed \in 0..2 /\ hosts'[h].missed \in 0..2
  <2>1. hosts[h] \in HostType /\ hosts'[h] \in HostType
    BY HostsTyped, ElementOfSeq DEF Inv, Quiet
  <2> QED BY <2>1 DEF HostType
<1>4. hosts[h].missed > 0 => hosts'[h].missed > 0
  BY <1>2, <1>3
<1> QED BY <1>1, <1>4 DEF KnownShape, files

\* Nothing was spoken to.
LEMMA NobodyKnown == (\A h \in DOMAIN hosts : Spoken(h) => ~Spoken(h)') => KnownAfter
BY DEF KnownAfter

LEMMA HostsStay ==
  ASSUME Inv, hosts' = hosts
  PROVE  Quiet /\ Settling
BY NoHostIsQuiet DEF Inv

LEMMA OpTyped ==
  ASSUME Inv
  PROVE  /\ op \in OpType /\ op.h \in 0..Len(hosts) /\ op.r \in 0..Len(hosts) /\ Len(hosts) \in Nat
         /\ record \in 0..Len(hosts) /\ socket \in 0..Len(hosts) /\ loaded \in 0..Len(hosts)
         /\ launch \in { "", "new", "resume" } /\ silent \in BOOLEAN
         /\ OpShape(op, loaded, silent) /\ WriterShape(op, loaded)
BY HostsTyped DEF Inv, TypeOK, OpOK, Writer

LEMMA Names ==
  ASSUME Inv
  PROVE  /\ Len(hosts) \in Nat /\ 0 \in 0..Len(hosts)
         /\ \A h \in DOMAIN hosts : h \in 0..Len(hosts) /\ h \in Nat /\ h # 0
         /\ record \in Nat /\ socket \in Nat /\ op.h \in Nat /\ op.r \in Nat
         /\ record \in 0..Len(hosts) /\ socket \in 0..Len(hosts)
<1>1. DOMAIN hosts = 1..Len(hosts) /\ Len(hosts) \in Nat
  BY HostsTyped DEF Inv
<1>2. record \in 0..Len(hosts) /\ socket \in 0..Len(hosts) /\ op.h \in 0..Len(hosts) /\ op.r \in 0..Len(hosts)
  BY DEF Inv, TypeOK
<1> QED BY <1>1, <1>2

LEMMA Named ==
  ASSUME Inv, NEW k \in 0..Len(hosts), k # 0
  PROVE  k \in DOMAIN hosts
BY HostsTyped DEF Inv

LEMMA ResumeKeepsInv == Inv /\ (Resume \/ Reattach) => Inv'
<1> SUFFICES ASSUME Inv, Resume \/ Reattach PROVE Inv'
  OBVIOUS
<1>1. /\ Quiet /\ Settling /\ op.kind = "none" /\ loaded = 0
      /\ UNCHANGED << hosts, files, launch, ran, loaded, silent, backends, faults >>
  BY HostsStay DEF Resume, Reattach, meta
<1>2. /\ op' \in OpType /\ op'.h = 0 /\ op'.r = 0 /\ op'.kind \in { "resume", "reattach" }
      /\ op'.step \in { "holder", "attach" } /\ (op'.step = "attach" => op'.argv # "")
  <2>1. \E kind \in { "resume", "reattach" }, step \in { "holder", "attach" } :
            op' = [NoOp EXCEPT !.kind = kind, !.step = step, !.argv = launch] /\ (step = "attach" => launch # "")
    BY DEF Resume, Reattach
  <2>2. PICK kind \in { "resume", "reattach" }, step \in { "holder", "attach" } :
            /\ op' = [kind |-> kind, step |-> step, via |-> "", h |-> 0, r |-> 0, fresh |-> FALSE, next |-> "", argv |-> launch]
            /\ step = "attach" => launch # ""
    BY <2>1 DEF NoOp
  <2>3. op' \in OpType
    BY <2>2, OpTyped DEF OpType, Steps
  <2> QED BY <2>2, <2>3
<1>3. OpShape(op', loaded', silent') /\ WriterShape(op', loaded')
  BY <1>1, <1>2 DEF OpShape, WriterShape, Launches, RetireSteps
<1>4. KnownAfter
  BY <1>1, <1>2, StillKnown DEF RetireSteps
<1> QED BY <1>1, <1>2, <1>3, <1>4, OpTyped, BackendKeepsInv

\* An operation that ends, or goes on looking, and changes nothing else.
LEMMA EndedOp ==
  ASSUME Inv, op' = NoOp
  PROVE  /\ op' \in OpType /\ op'.h = 0 /\ op'.r = 0 /\ op'.kind = "none" /\ op'.step = "" /\ op'.next = ""
BY DEF NoOp, OpType

LEMMA HolderCheckKeepsInv == Inv /\ HolderCheck => Inv'
<1> SUFFICES ASSUME Inv, HolderCheck PROVE Inv'
  OBVIOUS
<1>1. /\ Quiet /\ Settling /\ op.step = "holder"
      /\ UNCHANGED << hosts, files, launch, ran, loaded, silent, backends, faults >>
  BY HostsStay DEF HolderCheck, At, meta
<1>2. CASE Holders(0) # {}
  <2>1. op' = NoOp
    BY <1>2 DEF HolderCheck
  <2>2. OpShape(op', loaded', silent') /\ WriterShape(op', loaded')
    BY <1>1, <2>1, EndedOp, OpTyped DEF OpShape, WriterShape, Launches, RetireSteps
  <2>3. KnownAfter
    BY <1>1, <2>1, EndedOp, StillKnown DEF RetireSteps
  <2>4. /\ op' \in OpType /\ op'.h \in 0..Len(hosts) /\ op'.r \in 0..Len(hosts)
    <3>1. op' \in OpType /\ op'.h = 0 /\ op'.r = 0
      BY <2>1, EndedOp
    <3>2. 0 \in 0..Len(hosts)
      BY Names
    <3> QED BY <3>1, <3>2
  <2> QED BY <1>1, <2>2, <2>3, <2>4, OpTyped, BackendKeepsInv
<1>3. CASE Holders(0) = {}
  <2>1. op' = [op EXCEPT !.step = "open", !.argv = Mode] /\ Mode \in { "new", "resume" }
    BY <1>3 DEF HolderCheck, Mode
  <2>2. op' \in OpType /\ op'.h = op.h /\ op'.r = op.r /\ op'.kind = op.kind /\ op'.step = "open" /\ op'.argv # ""
    BY <2>1, OpTyped DEF OpType, Steps
  <2>3. NoWriter
    <3>1. \A h \in DOMAIN hosts : ~(Up(h) /\ hosts[h].reg)
      <4>1. \A h \in DOMAIN hosts : h # 0
        BY Names
      <4>2. \A h \in DOMAIN hosts \ {0} : ~(Up(h) /\ hosts[h].reg)
        BY <1>3 DEF Holders
      <4> QED BY <4>1, <4>2
    <3> QED BY <3>1 DEF NoWriter, Writes, Inv, HostsOK, HostOK, Up
  <2>4. OpShape(op', loaded', silent') /\ WriterShape(op', loaded')
    BY <1>1, <2>2, <2>3, OpTyped DEF OpShape, WriterShape, RetireSteps
  <2>5. KnownAfter
    BY <1>1, <2>2, StillKnown DEF RetireSteps
  <2> QED BY <1>1, <2>2, <2>4, <2>5, OpTyped, BackendKeepsInv
<1> QED BY <1>2, <1>3

\* bringUp() for the host that serves the socket.
LEMMA BringUpKeepsInv ==
  ASSUME Inv, NEW via \in { "survivor", "reattach", "launch" }, NEW argv \in { "new", "resume" },
         Answers, BringUp(socket, via, argv), UNCHANGED << files, ran, loaded, backends, faults >>,
         op.kind \in { "resume", "reattach" }, op.argv # "", OnlyWriter(socket), via = "launch" => NoWriter,
         ~hosts[socket].cut => hosts[socket].argv = argv
  PROVE  Inv'
<1> DEFINE k == socket
           x == hosts[k]
           y == [x EXCEPT !.used = TRUE]
<1>1. k \in DOMAIN hosts /\ x.st = "serving"
  BY DEF Answers, Refused, Silent
<1>0. k = socket /\ x = hosts[k]
  OBVIOUS
<1>2. /\ hosts' = [hosts EXCEPT ![k] = y] /\ launch' = argv /\ silent' = silent /\ loaded = 0 /\ loaded' = 0
      /\ op' = [op EXCEPT !.step = "handshake", !.via = via, !.h = k, !.fresh = ~x.used, !.r = 0, !.next = ""]
      /\ socket' = k /\ record' = record
  BY OpTyped DEF BringUp, OpShape, files
<1>3. Good(x)
  BY <1>1, HostsTyped DEF Inv, HostsOK, Good
<1>4. /\ y \in HostType /\ y.st = "serving" /\ y.argv = x.argv /\ y.kid = x.kid /\ y.worked = x.worked /\ y.reg = x.reg
      /\ y.cut = x.cut /\ y.term = x.term /\ y.missed = x.missed /\ y.used = TRUE
  BY <1>1, <1>3 DEF Good, HostType
<1>5. HostOK(y)
  BY <1>3, <1>4 DEF Good, HostOK, ComingUp
<1>6. /\ hosts' \in Seq(HostType) /\ Len(hosts') = Len(hosts) /\ DOMAIN hosts' = DOMAIN hosts
      /\ hosts'[k] = y /\ \A h \in DOMAIN hosts : h # k => hosts'[h] = hosts[h]
  <2>1. hosts' = [hosts EXCEPT ![k] = y] /\ y \in HostType /\ k \in DOMAIN hosts
    BY <1>1, <1>2, <1>4
  <2> HIDE DEF y
  <2> QED BY <2>1, HostsTyped, ExceptSeq, LenProperties DEF Inv
<1> HIDE DEF y
<1>7. /\ op' \in OpType /\ op'.h = k /\ op'.r = 0 /\ op'.kind = op.kind /\ op'.step = "handshake" /\ op'.via = via /\ op'.next = ""
      /\ op'.argv = op.argv
  <2>1. op' = [kind |-> op.kind, step |-> "handshake", via |-> via, h |-> k, r |-> 0, fresh |-> ~x.used, next |-> "",
               argv |-> op.argv]
    BY <1>2, OpTyped DEF OpType
  <2>2. x.used \in BOOLEAN /\ k \in Nat
    BY <1>1, <1>3, Names DEF Good, HostType
  <2>3. op.kind \in { "none", "resume", "reattach", "end" } /\ op.argv \in { "", "new", "resume" }
    BY OpTyped DEF OpType
  <2>4. op' \in OpType
    BY <2>1, <2>2, <2>3 DEF OpType, Steps
  <2> QED BY <2>1, <2>4
<1>8. TypeOK'
  BY <1>2, <1>6, <1>7, OpTyped DEF Inv, TypeOK, files
<1>9. HostsOK'
  BY <1>5, <1>6 DEF Inv, HostsOK
<1>10. OpOK'
  <2>1. k # 0 /\ hosts'[k].st = "serving"
    BY <1>1, <1>4, <1>6, Names
  <2>2. /\ op'.step = "handshake" /\ op'.kind \in { "resume", "reattach" } /\ op'.argv # "" /\ op'.h = k /\ loaded' = 0
    BY <1>2, <1>7
  <2> QED BY <2>1, <2>2 DEF OpOK, OpShape, RetireSteps, ComingUp
<1>11. \A h \in DOMAIN hosts : Writes(h)' = Writes(h)
  BY <1>4, <1>6 DEF Writes, Up
<1>12. Writer'
  BY <1>2, <1>4, <1>6, <1>7, <1>11 DEF Writer, WriterShape, Launches, OnlyWriter, NoWriter, RetireSteps
<1>15. OneWriter'
  BY <1>6, <1>11 DEF Inv, OneWriter, Writes
<1>13. Apart' /\ Filed'
  <2>1. \A h \in DOMAIN hosts : hosts'[h].st = hosts[h].st /\ hosts'[h].cut = hosts[h].cut
    BY <1>1, <1>4, <1>6
  <2>2. Apart'
    BY <2>1, <1>6 DEF Inv, Apart, Live
  <2>3. Filed'
    BY <2>1, <1>2, <1>6 DEF Inv, Filed
  <2> QED BY <2>2, <2>3
<1>14. Known'
  <2> SUFFICES ASSUME NEW h \in DOMAIN hosts', Spoken(h)'
               PROVE  KnownShape(h, hosts[h].missed, op, loaded, silent, record, socket, launch)'
    BY DEF Known
  <2>1. h = k
    <3>1. h # k => Spoken(h) /\ h \in DOMAIN hosts
      BY <1>6 DEF Spoken, Up
    <3> QED BY <3>1 DEF Inv, Known, KnownShape
  <2>2. x.kid = "up" /\ ~x.term /\ ~x.cut
    BY <2>1, <1>4, <1>6 DEF Spoken, Up
  <2>3. record = k
    BY <1>1, <2>2 DEF Inv, Filed
  <2>4. x.worked /\ silent => x.missed > 0
    <3>1. x.worked => Spoken(k)
      BY <1>1, <1>3, <2>2 DEF Spoken, Up, Good, HostOK
    <3> QED BY <3>1, <1>1 DEF Inv, Known, KnownShape
  <2> QED BY <2>1, <2>2, <2>3, <2>4, <1>2, <1>4, <1>6, <1>7 DEF KnownShape, RetireSteps
<1> QED BY <1>8, <1>9, <1>10, <1>12, <1>13, <1>14, <1>15 DEF Inv

-----------------------------------------------------------------------------
\* The operation is over.
LEMMA DoneKeepsInv ==
  ASSUME Inv, Quiet, Settling, UNCHANGED << files, ran, backends, faults >>, Done,
         loaded' \in { 0, loaded }, launch' \in { "", launch }, silent' \in BOOLEAN,
         loaded' # 0 => ~silent', KnownAfter
  PROVE  Inv'
<1>1. op' \in OpType /\ op'.h = 0 /\ op'.r = 0 /\ op'.kind = "none" /\ op'.step = "" /\ op'.next = ""
  BY EndedOp DEF Done
<1>2. OpShape(op', loaded', silent') /\ WriterShape(op', loaded')
  BY <1>1, OpTyped DEF OpShape, WriterShape, Launches, RetireSteps
<1>3. op'.h \in 0..Len(hosts) /\ op'.r \in 0..Len(hosts) /\ loaded' \in 0..Len(hosts)
  BY <1>1, Names, OpTyped
<1>4. launch' \in { "", "new", "resume" }
  BY OpTyped
<1> QED BY <1>1, <1>2, <1>3, <1>4, BackendKeepsInv

LEMMA GoesIs ==
  ASSUME Inv, NEW step, Goes(step)
  PROVE  op' = [kind |-> op.kind, step |-> step, via |-> op.via, h |-> 0, r |-> 0, fresh |-> FALSE,
                next |-> op.next, argv |-> op.argv]
BY OpTyped DEF Goes, OpType

\* An open goes on: it looks for a holder of the session.
LEMMA GoesOnKeepsInv ==
  ASSUME Inv, Quiet, Settling, UNCHANGED << files, ran, backends, faults >>, Goes("holder"),
         op.kind \in { "resume", "reattach" }, loaded' = 0, launch' \in { "", launch }, silent' \in BOOLEAN, KnownAfter
  PROVE  Inv'
<1>1. /\ op' = [kind |-> op.kind, step |-> "holder", via |-> op.via, h |-> 0, r |-> 0, fresh |-> FALSE,
                next |-> op.next, argv |-> op.argv]
      /\ op' \in OpType
  <2>1. op' = [kind |-> op.kind, step |-> "holder", via |-> op.via, h |-> 0, r |-> 0, fresh |-> FALSE,
               next |-> op.next, argv |-> op.argv]
    BY GoesIs
  <2>2. op \in OpType
    BY OpTyped
  <2> QED BY <2>1, <2>2 DEF OpType, Steps
<1>2. OpShape(op', loaded', silent') /\ WriterShape(op', loaded')
  BY <1>1 DEF OpShape, WriterShape, Launches, RetireSteps
<1>3. op'.h \in 0..Len(hosts) /\ op'.r \in 0..Len(hosts) /\ loaded' \in 0..Len(hosts)
  BY <1>1, Names
<1>4. launch' \in { "", "new", "resume" }
  BY OpTyped
<1> QED BY <1>1, <1>2, <1>3, <1>4, BackendKeepsInv

\* An open retires the host that the record names.
LEMMA RetiresKeepsInv ==
  ASSUME Inv, UNCHANGED << hosts, files, meta, loaded, silent, backends, faults >>,
         op.kind \in { "resume", "reattach" }, op.argv # "",
         NEW next \in { "start", "survivor" }, Retires(record, next),
         next = "start" => NoWriter, next = "survivor" => silent
  PROVE  Inv'
<1>1. /\ op' = [kind |-> op.kind, step |-> "retire", via |-> op.via, h |-> 0, r |-> record, fresh |-> FALSE,
                next |-> next, argv |-> op.argv]
      /\ op' \in OpType
  <2>1. op' = [kind |-> op.kind, step |-> "retire", via |-> op.via, h |-> 0, r |-> record, fresh |-> FALSE,
               next |-> next, argv |-> op.argv]
    BY OpTyped DEF Retires, OpType
  <2>2. op \in OpType /\ record \in Nat
    BY OpTyped, Names
  <2> QED BY <2>1, <2>2 DEF OpType, Steps, RetireSteps
<1>2. loaded = 0
  BY OpTyped DEF OpShape
<1>3. OpShape(op', loaded', silent') /\ WriterShape(op', loaded')
  BY <1>1, <1>2 DEF OpShape, WriterShape, Launches, RetireSteps
<1>4. op'.h \in 0..Len(hosts) /\ op'.r \in 0..Len(hosts) /\ loaded' \in 0..Len(hosts)
  BY <1>1, Names, OpTyped
<1>5. Quiet /\ Settling
  BY HostsStay
<1>6. \A h \in DOMAIN hosts : Spoken(h) => record = h /\ (hosts[h].worked /\ next = "survivor" => hosts[h].missed > 0)
  BY DEF Inv, Known, KnownShape
<1>7. KnownAfter
  BY <1>1, <1>5, <1>6, StillKnown DEF meta
<1> QED BY <1>1, <1>3, <1>4, <1>5, <1>7, OpTyped, BackendKeepsInv DEF meta

LEMMA MissIsTame ==
  ASSUME NEW x, Good(x)
  PROVE  LET y == [x EXCEPT !.missed = IF @ < 2 THEN @ + 1 ELSE @]
         IN  Good(y) /\ Tame(x, y) /\ y.st = x.st /\ y.missed > 0
<1> DEFINE m == IF x.missed < 2 THEN x.missed + 1 ELSE x.missed
           y == [x EXCEPT !.missed = m]
<1>1. x.missed \in 0..2 /\ x \in HostType
  BY DEF Good, HostType
<1>2. m \in 0..2 /\ m > 0 /\ m >= x.missed
  BY <1>1
<1> HIDE DEF m
<1>3. /\ y \in HostType /\ y.reg = x.reg /\ y.argv = x.argv /\ y.kid = x.kid /\ y.worked = x.worked
      /\ y.used = x.used /\ y.cut = x.cut /\ y.term = x.term /\ y.missed = m /\ y.st = x.st
  BY <1>1, <1>2 DEF HostType
<1>4. Good(y)
  BY <1>3 DEF Good, HostOK
<1>5. Tame(x, y)
  BY <1>2, <1>3 DEF Tame, IsLive, IsSpoken
<1> QED BY <1>2, <1>3, <1>4, <1>5 DEF m

\* An ordinary open counts a silence of the host k, which a host that was spoken to must be.
LEMMA MissesKeepsInv ==
  ASSUME Inv, UNCHANGED << files, meta, loaded, backends, faults >>, op.kind \in { "resume", "reattach" },
         NEW k \in DOMAIN hosts, Misses(k), \A h \in DOMAIN hosts : Spoken(h) => h = k
  PROVE  Inv'
<1> DEFINE x == hosts[k]
           y == [x EXCEPT !.missed = IF @ < 2 THEN @ + 1 ELSE @]
<1>1. Good(x)
  BY HostsTyped DEF Inv, HostsOK, Good
<1>2. Good(y) /\ Tame(x, y) /\ y.st = x.st /\ y.missed > 0
  BY <1>1, MissIsTame
<1>3. hosts' = [hosts EXCEPT ![k] = y] /\ silent' = TRUE /\ Done
  BY DEF Misses
<1> HIDE DEF y
<1>4. Quiet /\ Settling
  BY <1>2, <1>3, OneHostIsQuiet DEF Inv
<1>5. loaded = 0 /\ loaded' = 0
  BY OpTyped DEF OpShape
<1>6. hosts'[k].missed > 0
  BY <1>2, <1>3, HostsTyped DEF Inv
<1>7. KnownAfter
  <2> SUFFICES ASSUME NEW h \in DOMAIN hosts, Spoken(h)
               PROVE  KnownShape(h, hosts'[h].missed, op', loaded', silent', record', socket', launch')
    BY DEF KnownAfter
  <2>1. KnownShape(h, hosts[h].missed, op, loaded, silent, record, socket, launch) /\ h = k
    BY DEF Inv, Known
  <2>2. op'.step = ""
    BY <1>3 DEF Done, NoOp
  <2> QED BY <2>1, <2>2, <1>5, <1>6 DEF KnownShape, files, meta, RetireSteps
<1> QED BY <1>3, <1>4, <1>5, <1>7, DoneKeepsInv DEF meta

LEMMA AttachKeepsInv == Inv /\ Attach => Inv'
<1> SUFFICES ASSUME Inv, Attach PROVE Inv'
  OBVIOUS
<1>1. op.step = "attach" /\ UNCHANGED << files, ran, loaded, backends, faults >>
  BY DEF Attach, At
<1>2. op.kind \in { "resume", "reattach" } /\ loaded = 0 /\ loaded' = 0 /\ op.argv # "" /\ op.argv \in { "new", "resume" }
  BY <1>1, OpTyped DEF OpShape, OpType
<1>3. ASSUME NoSurvivor, launch' \in { "", launch }, KnownAfter PROVE Inv'
  <2>1. Quiet /\ Settling /\ silent' = silent /\ silent \in BOOLEAN
    BY <1>3, HostsStay, OpTyped DEF NoSurvivor
  <2>2. CASE op.kind = "resume"
    BY <1>1, <1>2, <1>3, <2>1, <2>2, GoesOnKeepsInv DEF NoSurvivor
  <2>3. CASE op.kind # "resume"
    BY <1>1, <1>2, <1>3, <2>1, <2>3, DoneKeepsInv DEF NoSurvivor
  <2> QED BY <2>2, <2>3
<1>4. CASE Absent /\ launch' = "" /\ NoSurvivor
  <2>1. \A h \in DOMAIN hosts : ~Spoken(h)
    BY <1>4, Names DEF Absent, Spoken, Runs, Refused, Answers, Silent, Inv, Known, KnownShape
  <2> QED BY <1>3, <1>4, <2>1, NobodyKnown
<1>5. ASSUME UNCHANGED << hosts, launch, silent >>, Done \/ NoSurvivor PROVE Inv'
  <2>1. Quiet /\ Settling
    BY <1>5, HostsStay
  <2>2. op'.step \in { "holder", "" }
    <3>1. Goes("holder") \/ Done
      BY <1>5 DEF NoSurvivor
    <3>2. Goes("holder") => op'.step = "holder"
      BY GoesIs
    <3>3. Done => op'.step = ""
      BY EndedOp DEF Done
    <3> QED BY <3>1, <3>2, <3>3
  <2>3. KnownAfter
    BY <1>1, <1>2, <1>5, <2>1, <2>2, StillKnown DEF RetireSteps
  <2>4. CASE Done
    BY <1>1, <1>2, <1>5, <2>1, <2>3, <2>4, OpTyped, DoneKeepsInv
  <2> QED BY <1>3, <1>5, <2>3, <2>4
<1>6. CASE Silent /\ op.kind = "resume" /\ Misses(socket) /\ UNCHANGED launch
  <2>1. socket \in DOMAIN hosts
    BY <1>6 DEF Silent, Refused
  <2>2. \A h \in DOMAIN hosts : Spoken(h) => h = socket
    BY DEF Inv, Known, KnownShape
  <2> QED BY <1>1, <1>2, <1>6, <2>1, <2>2, MissesKeepsInv DEF meta
<1>7. CASE silent /\ Retires(record, "survivor") /\ UNCHANGED << hosts, launch, silent >>
  BY <1>1, <1>2, <1>7, RetiresKeepsInv DEF meta
<1>8. CASE /\ Answers /\ Up(socket) /\ Holders(socket) = {} /\ hosts[record].argv = op.argv
           /\ BringUp(socket, IF op.kind = "resume" THEN "survivor" ELSE "reattach", op.argv)
  <2>1. socket \in DOMAIN hosts /\ hosts[socket].st = "serving"
    BY <1>8 DEF Answers, Refused, Silent
  <2>2. OnlyWriter(socket)
    <3>1. \A h \in DOMAIN hosts \ {socket} : ~(Up(h) /\ hosts[h].reg)
      BY <1>8 DEF Holders
    <3> QED BY <3>1 DEF OnlyWriter, Writes, Inv, HostsOK, HostOK, Up
  <2>3. ~hosts[socket].cut => hosts[socket].argv = op.argv
    BY <1>8, <2>1 DEF Inv, Filed
  <2>4. CASE op.kind = "resume"
    BY <1>1, <1>2, <1>8, <2>2, <2>3, <2>4, BringUpKeepsInv
  <2>5. CASE op.kind # "resume"
    BY <1>1, <1>2, <1>8, <2>2, <2>3, <2>5, BringUpKeepsInv
  <2> QED BY <2>4, <2>5
<1>9. \/ Absent /\ launch' = "" /\ NoSurvivor
      \/ UNCHANGED << hosts, launch, silent >> /\ (Done \/ NoSurvivor)
      \/ Silent /\ op.kind = "resume" /\ Misses(socket) /\ UNCHANGED launch
      \/ silent /\ Retires(record, "survivor") /\ UNCHANGED << hosts, launch, silent >>
      \/ /\ Answers /\ Up(socket) /\ Holders(socket) = {} /\ hosts[record].argv = op.argv
         /\ BringUp(socket, IF op.kind = "resume" THEN "survivor" ELSE "reattach", op.argv)
  <2>1. NoSurvivor => UNCHANGED << hosts, silent >>
    BY DEF NoSurvivor
  <2> QED BY <2>1 DEF Attach
<1> QED BY <1>4, <1>5, <1>6, <1>7, <1>8, <1>9

-----------------------------------------------------------------------------
\* Opening a host, with nobody that writes.
LEMMA OpenKeepsInv == Inv /\ Open => Inv'
<1> SUFFICES ASSUME Inv, Open PROVE Inv'
  OBVIOUS
<1>1. op.step = "open" /\ UNCHANGED << files, ran, loaded, backends, faults >>
  BY DEF Open, At
<1>2. op.kind \in { "resume", "reattach" } /\ loaded = 0 /\ loaded' = 0 /\ op.argv # "" /\ op.argv \in { "new", "resume" }
  BY <1>1, OpTyped DEF OpShape, OpType
<1>3. NoWriter
  BY <1>1, OpTyped DEF WriterShape, Launches
<1>4. CASE Done /\ UNCHANGED << hosts, launch, silent >>
  <2>1. Quiet /\ Settling
    BY <1>4, HostsStay
  <2>2. op'.step = ""
    BY <1>4, EndedOp DEF Done
  <2>3. KnownAfter
    BY <1>1, <1>2, <1>4, <2>1, <2>2, StillKnown DEF RetireSteps
  <2> QED BY <1>1, <1>2, <1>4, <2>1, <2>3, OpTyped, DoneKeepsInv
<1>5. CASE hosts[record].argv = op.argv /\ Answers /\ BringUp(socket, "launch", op.argv)
  <2>1. socket \in DOMAIN hosts /\ hosts[socket].st = "serving"
    BY <1>5 DEF Answers, Refused, Silent
  <2>2. OnlyWriter(socket)
    BY <1>3 DEF OnlyWriter, NoWriter
  <2>3. ~hosts[socket].cut => hosts[socket].argv = op.argv
    BY <1>5, <2>1 DEF Inv, Filed
  <2> QED BY <1>1, <1>2, <1>3, <1>5, <2>2, <2>3, BringUpKeepsInv
<1>6. CASE Retires(record, "start") /\ UNCHANGED << hosts, launch, silent >>
  BY <1>1, <1>2, <1>3, <1>6, RetiresKeepsInv DEF meta
<1>7. \/ Done /\ UNCHANGED << hosts, launch, silent >>
      \/ hosts[record].argv = op.argv /\ Answers /\ BringUp(socket, "launch", op.argv)
      \/ Retires(record, "start") /\ UNCHANGED << hosts, launch, silent >>
  BY DEF Open
<1> QED BY <1>4, <1>5, <1>6, <1>7

\* A new host comes to the others: those that are up or come up are told.
LEMMA StartKeepsInv == Inv /\ Start => Inv'
<1> SUFFICES ASSUME Inv, Start PROVE Inv'
  OBVIOUS
<1> DEFINE beside == { h \in DOMAIN hosts : hosts[h].st \in ComingUp \cup { "serving" } }
           told == [h \in DOMAIN hosts |-> [hosts[h] EXCEPT !.cut = @ \/ h \in beside]]
           alone == beside = {}
           new == [Fresh(op.argv) EXCEPT !.cut = ~alone]
           n == Len(hosts)
<1>1. /\ op.step = "start" /\ hosts' = Append(told, new)
      /\ op' = [op EXCEPT !.step = "starting", !.h = n + 1]
      /\ UNCHANGED << files, meta, loaded, silent, backends, faults >>
  BY DEF Start, At
<1>2. op.kind \in { "resume", "reattach" } /\ loaded = 0 /\ op.argv \in { "new", "resume" } /\ NoWriter
  BY <1>1, OpTyped DEF OpShape, OpType, WriterShape, Launches
<1>20. alone \in BOOLEAN /\ (\A h \in DOMAIN hosts : Live(h) <=> h \in beside) /\ (\A h \in beside : ~alone)
  BY DEF Live
<1>5. /\ DOMAIN hosts = 1..n /\ n \in Nat /\ n + 1 \in Nat /\ n + 1 # 0
      /\ \A h \in DOMAIN hosts : Good(hosts[h])
  BY HostsTyped DEF Inv, HostsOK, Good
<1>6. ASSUME NEW h \in DOMAIN hosts
      PROVE  /\ Good(told[h]) /\ told[h].st = hosts[h].st /\ told[h].kid = hosts[h].kid /\ told[h].worked = hosts[h].worked
             /\ told[h].argv = hosts[h].argv /\ told[h].missed = hosts[h].missed
             /\ told[h].used = hosts[h].used /\ told[h].term = hosts[h].term
             /\ hosts[h].cut => told[h].cut
             /\ h \in beside => told[h].cut
  <2>1. told[h] = [hosts[h] EXCEPT !.cut = hosts[h].cut \/ (h \in beside)]
    OBVIOUS
  <2>3. hosts[h] \in HostType /\ Good(hosts[h])
    BY <1>5 DEF Good
  <2> HIDE DEF told, beside
  <2>4. \E b \in BOOLEAN : told[h] = [hosts[h] EXCEPT !.cut = hosts[h].cut \/ b] /\ (h \in beside => b)
    BY <2>1, Zenon
  <2>5. PICK b \in BOOLEAN : told[h] = [hosts[h] EXCEPT !.cut = hosts[h].cut \/ b] /\ (h \in beside => b)
    BY <2>4
  <2>2. Good(told[h]) /\ (b => told[h].cut)
    BY <2>3, <2>5, CutIsTame
  <2>6. /\ told[h].st = hosts[h].st /\ told[h].kid = hosts[h].kid /\ told[h].worked = hosts[h].worked
        /\ told[h].argv = hosts[h].argv /\ told[h].missed = hosts[h].missed
        /\ told[h].used = hosts[h].used /\ told[h].term = hosts[h].term
        /\ hosts[h].cut => told[h].cut
    BY <2>3, <2>5 DEF HostType
  <2> QED BY <2>2, <2>5, <2>6
<1>7. told \in Seq(HostType) /\ Len(told) = n
  <2>1. told = [h \in 1..n |-> told[h]]
    BY <1>5
  <2>2. \A h \in 1..n : told[h] \in HostType
    BY <1>5, <1>6 DEF Good
  <2> HIDE DEF told
  <2> QED BY <1>5, <2>1, <2>2, IsASeq
<1> HIDE DEF told, alone, beside
<1>23. \E c \in BOOLEAN : new = [Fresh(op.argv) EXCEPT !.cut = c] /\ (~alone => c)
  BY Zenon
<1> HIDE DEF new
<1>3. PICK c \in BOOLEAN : 
        /\ new = [st |-> "new", argv |-> op.argv, kid |-> "none", reg |-> FALSE, used |-> FALSE, worked |-> FALSE,
                  slow |-> FALSE, hung |-> FALSE, term |-> FALSE, missed |-> 0, cut |-> c]
        /\ ~alone => c
  BY <1>23 DEF Fresh
<1>4. new \in HostType /\ HostOK(new)
  BY <1>2, <1>3 DEF HostType, HostOK, ComingUp
<1>8. /\ hosts' \in Seq(HostType) /\ Len(hosts') = n + 1 /\ hosts'[n + 1] = new
      /\ \A h \in 1..n : hosts'[h] = told[h]
  BY <1>1, <1>4, <1>7, AppendProperties
<1>9. DOMAIN hosts' = 1..(n + 1)
  BY <1>8, LenProperties
<1>10. \A h \in DOMAIN hosts' : (h = n + 1 /\ h \notin DOMAIN hosts) \/ (h \in DOMAIN hosts /\ h < n + 1)
  BY <1>5, <1>9
<1>11. /\ op' = [kind |-> op.kind, step |-> "starting", via |-> op.via, h |-> n + 1, r |-> op.r, fresh |-> op.fresh,
                 next |-> op.next, argv |-> op.argv]
       /\ op' \in OpType
  <2>1. op' = [kind |-> op.kind, step |-> "starting", via |-> op.via, h |-> n + 1, r |-> op.r, fresh |-> op.fresh,
               next |-> op.next, argv |-> op.argv]
    BY <1>1, OpTyped DEF OpType
  <2>2. op \in OpType
    BY OpTyped
  <2>3. n + 1 \in Nat
    BY <1>5
  <2> HIDE DEF n
  <2> QED BY <2>1, <2>2, <2>3 DEF OpType, Steps
<1>12. TypeOK'
  <2>1. /\ record \in 0..n /\ socket \in 0..n /\ loaded \in 0..n /\ op.r \in 0..n
    BY OpTyped
  <2>2. \A i \in 0..n : i \in 0..(n + 1)
    BY <1>5
  <2>3. n + 1 \in 0..(n + 1)
    BY <1>5
  <2> QED BY <1>1, <1>8, <1>11, <2>1, <2>2, <2>3 DEF Inv, TypeOK, files, meta
<1>13. \A h \in DOMAIN hosts : hosts'[h] = told[h]
  BY <1>5, <1>8
<1>14. HostsOK'
  BY <1>4, <1>6, <1>8, <1>10, <1>13 DEF HostsOK, Good
<1>15. OpOK'
  <2>1. op'.step = "starting" /\ op'.kind \in { "resume", "reattach" } /\ op'.argv # "" /\ op'.h = n + 1 /\ op'.argv = op.argv
    BY <1>2, <1>11
  <2>2. hosts'[n + 1].argv = op.argv
    BY <1>3, <1>8
  <2>3. loaded' = 0
    BY <1>1, <1>2
  <2>4. op'.h = Len(hosts') /\ op'.h # 0 /\ hosts'[op'.h].argv = op'.argv
    BY <1>5, <1>8, <2>1, <2>2
  <2> QED BY <2>1, <2>3, <2>4 DEF OpOK, OpShape, RetireSteps
<1>21. \A h \in DOMAIN hosts' : ~Writes(h)'
  BY <1>2, <1>3, <1>6, <1>8, <1>10, <1>13 DEF NoWriter, Writes, Up
<1>16. Writer'
  BY <1>1, <1>2, <1>11, <1>21 DEF Writer, WriterShape, NoWriter, Launches, RetireSteps
<1>22. OneWriter'
  BY <1>21 DEF OneWriter, Writes
<1>17. Apart'
  <2> SUFFICES ASSUME NEW g \in DOMAIN hosts', NEW h \in DOMAIN hosts', Live(g)', Live(h)' \/ g < h, g # h
               PROVE  hosts'[g].cut
    BY DEF Apart
  <2>1. CASE g \in DOMAIN hosts
    <3>1. g \in beside
      BY <1>6, <1>13, <1>20, <2>1 DEF Live
    <3> QED BY <1>6, <1>13, <2>1, <3>1
  <2>2. CASE g \notin DOMAIN hosts
    <3>1. g = n + 1 /\ h \in DOMAIN hosts /\ Live(h)'
      BY <1>5, <1>10, <2>2
    <3>2. h \in beside
      BY <1>6, <1>13, <1>20, <3>1 DEF Live
    <3>3. new.cut
      BY <1>3, <1>20, <3>2
    <3> QED BY <1>8, <3>1, <3>3
  <2> QED BY <2>1, <2>2
<1>18. Filed'
  <2> SUFFICES ASSUME NEW h \in DOMAIN hosts', hosts'[h].st = "serving", ~hosts'[h].cut, socket' = h PROVE record' = h
    BY DEF Filed
  <2>1. h \in DOMAIN hosts
    BY <1>3, <1>8, <1>10
  <2> QED BY <1>1, <1>6, <1>13, <2>1 DEF Inv, Filed, files
<1>19. Known'
  <2> SUFFICES ASSUME NEW h \in DOMAIN hosts', Spoken(h)'
               PROVE  KnownShape(h, hosts[h].missed, op, loaded, silent, record, socket, launch)'
    BY DEF Known
  <2>1. h \in DOMAIN hosts
    BY <1>3, <1>8, <1>10 DEF Spoken
  <2>2. Spoken(h)
    BY <1>6, <1>13, <2>1 DEF Spoken, Up
  <2>3. KnownShape(h, hosts[h].missed, op, loaded, silent, record, socket, launch)
    BY <2>1, <2>2 DEF Inv, Known
  <2> QED BY <1>1, <1>2, <1>6, <1>11, <1>13, <2>1, <2>3 DEF KnownShape, files, meta, RetireSteps
<1> QED BY <1>12, <1>14, <1>15, <1>16, <1>17, <1>18, <1>19, <1>22 DEF Inv

\* The operation ends and nothing else changes.
LEMMA OverKeepsInv ==
  ASSUME Inv, Quiet, Settling, Done, UNCHANGED << files, launch, ran, loaded, silent, backends, faults >>
  PROVE  Inv'
<1>1. op'.step = ""
  BY EndedOp DEF Done
<1>2. KnownAfter
  BY <1>1, StillKnown DEF RetireSteps
<1>3. loaded # 0 => ~silent
  BY OpTyped DEF OpShape
<1> QED BY <1>2, <1>3, OpTyped, DoneKeepsInv

\* Whoever serves the socket while a new host comes up is that host, or knows that it is not alone.
LEMMA StartingKeepsInv == Inv /\ Starting => Inv'
<1> SUFFICES ASSUME Inv, Starting PROVE Inv'
  OBVIOUS
<1> DEFINE k == op.h
           x == hosts[k]
<1>1. /\ op.step = "starting" /\ UNCHANGED << files, ran, loaded, backends, faults >>
  BY DEF Starting, At
<1>2. /\ op.kind \in { "resume", "reattach" } /\ loaded = 0 /\ op.argv # "" /\ op.argv \in { "new", "resume" } /\ NoWriter
      /\ k = Len(hosts) /\ k # 0 /\ x.argv = op.argv
  BY <1>1, OpTyped DEF OpShape, OpType, WriterShape, Launches
<1>3. /\ DOMAIN hosts = 1..Len(hosts) /\ Len(hosts) \in Nat /\ k \in DOMAIN hosts
      /\ Good(x)
  <2>1. DOMAIN hosts = 1..Len(hosts) /\ Len(hosts) \in Nat
    BY HostsTyped DEF Inv
  <2>2. k \in DOMAIN hosts
    BY <1>2, OpTyped, Named
  <2> QED BY <2>1, <2>2, HostsTyped DEF Inv, HostsOK, Good
<1>4. CASE Done /\ UNCHANGED << hosts, launch, silent >>
  BY <1>1, <1>4, HostsStay, OverKeepsInv
<1>5. CASE Answers /\ BringUp(socket, "launch", op.argv)
  <2>1. socket \in DOMAIN hosts /\ hosts[socket].st = "serving"
    BY <1>5 DEF Answers, Refused, Silent
  <2>2. OnlyWriter(socket)
    BY <1>2 DEF OnlyWriter, NoWriter
  <2>3. ASSUME ~hosts[socket].cut PROVE hosts[socket].argv = op.argv
    <3>1. Live(socket)
      BY <2>1 DEF Live
    <3>2. ~(socket # k /\ socket < k)
      BY <1>3, <2>1, <2>3, <3>1 DEF Inv, Apart
    <3>3. \A n \in Nat : \A i \in 1..n : ~(i # n /\ i < n) => i = n
      OBVIOUS
    <3>4. socket \in 1..Len(hosts) /\ ~(socket # Len(hosts) /\ socket < Len(hosts))
      BY <1>2, <1>3, <2>1, <3>2
    <3>5. socket = k
      BY <1>2, <1>3, <3>3, <3>4
    <3> QED BY <1>2, <3>5
  <2> QED BY <1>1, <1>2, <1>5, <2>2, <2>3, BringUpKeepsInv
<1>6. CASE /\ Runs(k) /\ Done /\ UNCHANGED << launch, silent >>
           /\ hosts' = [hosts EXCEPT ![k] = IF @.st \in { "serving", "stopping" } THEN [@ EXCEPT !.term = TRUE]
                                                                               ELSE Without(@, "dead")]
  <2>1. PICK y : hosts' = [hosts EXCEPT ![k] = y] /\ Good(y) /\ Tame(x, y) /\ (y.st = "serving" => x.st = "serving")
    <3>1. CASE x.st \in { "serving", "stopping" }
      <4>1. hosts' = [hosts EXCEPT ![k] = [x EXCEPT !.term = TRUE]]
        BY <1>6, <3>1
      <4> QED BY <1>3, <4>1, TermIsTame
    <3>2. CASE x.st \notin { "serving", "stopping" }
      <4>1. hosts' = [hosts EXCEPT ![k] = Without(x, "dead")]
        BY <1>6, <3>2
      <4> QED BY <1>3, <4>1, WithoutIsTame
    <3> QED BY <3>1, <3>2
  <2>2. Quiet /\ Settling
    BY <1>3, <2>1, OneHostIsQuiet DEF Inv
  <2> QED BY <1>1, <1>6, <2>2, OverKeepsInv
<1>7. \/ Done /\ UNCHANGED << hosts, launch, silent >>
      \/ Answers /\ BringUp(socket, "launch", op.argv)
      \/ /\ Runs(k) /\ Done /\ UNCHANGED << launch, silent >>
         /\ hosts' = [hosts EXCEPT ![k] = IF @.st \in { "serving", "stopping" } THEN [@ EXCEPT !.term = TRUE]
                                                                             ELSE Without(@, "dead")]
  BY DEF Starting
<1> QED BY <1>4, <1>5, <1>6, <1>7

-----------------------------------------------------------------------------
(***************************************************************************)
(* The handshake, and the end of a session.                                *)
(***************************************************************************)
LEMMA HandshakeAnsweredKeepsInv == Inv /\ HandshakeAnswered => Inv'
<1> SUFFICES ASSUME Inv, HandshakeAnswered PROVE Inv'
  OBVIOUS
<1>1. /\ op.step = "handshake" /\ hosts[op.h].st = "serving" /\ Up(op.h) /\ hosts[op.h].reg
      /\ loaded' = op.h /\ silent' = FALSE /\ op' = NoOp
      /\ UNCHANGED << hosts, files, meta, backends, faults >>
  BY DEF HandshakeAnswered, At, Done
<1>2. op.h # 0 /\ OnlyWriter(op.h) /\ hosts[op.h].used /\ hosts[op.h].st \notin ComingUp
  BY <1>1, OpTyped DEF OpShape, WriterShape
<1>3. /\ op' \in OpType /\ op'.h = 0 /\ op'.r = 0 /\ op'.kind = "none" /\ op'.step = "" /\ op'.next = ""
  BY <1>1, EndedOp
<1>4. OpShape(op', loaded', silent')
  BY <1>1, <1>2, <1>3 DEF OpShape, RetireSteps
<1>5. WriterShape(op', loaded')
  BY <1>1, <1>2, <1>3 DEF WriterShape, Launches, RetireSteps
<1>6. Quiet /\ Settling
  BY <1>1, HostsStay
<1>7. KnownAfter
  <2> SUFFICES ASSUME NEW h \in DOMAIN hosts, Spoken(h)
               PROVE  KnownShape(h, hosts'[h].missed, op', loaded', silent', record', socket', launch')
    BY DEF KnownAfter
  <2>1. KnownShape(h, hosts[h].missed, op, loaded, silent, record, socket, launch)
    BY DEF Inv, Known
  <2> QED BY <1>1, <1>3, <2>1 DEF KnownShape, files, meta, RetireSteps
<1>8. op'.h \in 0..Len(hosts) /\ op'.r \in 0..Len(hosts) /\ loaded' \in 0..Len(hosts)
  BY <1>1, <1>3, Names, OpTyped
<1>9. launch' \in { "", "new", "resume" } /\ silent' \in BOOLEAN
  BY <1>1, OpTyped DEF meta
<1> QED BY <1>1, <1>3, <1>4, <1>5, <1>6, <1>7, <1>8, <1>9, BackendKeepsInv DEF meta

\* A host is asked to end, the one that would be spoken to if there is one.
LEMMA TermKeepsInv ==
  ASSUME Inv, UNCHANGED << files, meta, backends, faults >>,
         NEW k \in DOMAIN hosts, hosts' = [hosts EXCEPT ![k].term = TRUE], \A h \in DOMAIN hosts : Spoken(h) => h = k,
         op' \in OpType, op'.h \in 0..Len(hosts), op'.r \in 0..Len(hosts), silent' \in BOOLEAN, loaded' = loaded,
         OpShape(op', loaded', silent'), WriterShape(op', loaded')
  PROVE  Inv'
<1> DEFINE y == [hosts[k] EXCEPT !.term = TRUE]
<1>1. Good(hosts[k])
  BY HostsTyped DEF Inv, HostsOK, Good
<1>2. Good(y) /\ Tame(hosts[k], y) /\ y.st = hosts[k].st /\ hosts' = [hosts EXCEPT ![k] = y]
  BY <1>1, TermIsTame
<1>3. hosts'[k].term
  <2>1. y.term
    BY <1>1 DEF Good, HostType
  <2> HIDE DEF y
  <2> QED BY <1>2, <2>1, HostsTyped DEF Inv
<1> HIDE DEF y
<1>4. Quiet /\ Settling
  BY <1>2, OneHostIsQuiet DEF Inv
<1>5. KnownAfter
  BY <1>3, NobodyKnown DEF Spoken
<1> QED BY <1>4, <1>5, OpTyped, BackendKeepsInv DEF meta

LEMMA ClosesKeepsInv ==
  ASSUME Inv, op.step = "handshake", Up(op.h), hosts[op.h].st = "serving", Closes(op.h, "fail") \/ Closes(op.h, "open") \/ Closes(op.h, "holder"),
         op.via = "launch" \/ ~Closes(op.h, "open"), silent' \in BOOLEAN, UNCHANGED << files, meta, loaded, backends, faults >>
  PROVE  Inv'
<1>1. op.h # 0 /\ op.h \in 0..Len(hosts) /\ op.kind \in { "resume", "reattach" } /\ loaded = 0 /\ op.argv # ""
  BY OpTyped DEF OpShape
<1>2. op.h \in DOMAIN hosts
  BY <1>1, Named
<1>3. \A h \in DOMAIN hosts : Spoken(h) => h = op.h
  BY DEF Inv, Known, KnownShape
<1>4. PICK next \in { "fail", "open", "holder" } :
         /\ op' = [op EXCEPT !.step = "closing", !.h = op.h, !.next = next]
         /\ next = "open" => op.via = "launch"
         /\ hosts' = [hosts EXCEPT ![op.h].term = TRUE]
  BY DEF Closes
<1>5. op' = [kind |-> op.kind, step |-> "closing", via |-> op.via, h |-> op.h, r |-> op.r, fresh |-> op.fresh,
             next |-> next, argv |-> op.argv]
  BY <1>4, OpTyped DEF OpType
<1>6. op' \in OpType
  BY <1>5, OpTyped DEF OpType, Steps
<1>7. next = "open" => NoWriter
  BY <1>4, OpTyped DEF WriterShape, Launches
<1>8. OpShape(op', loaded', silent')
  <2>1. hosts[op.h].st \notin ComingUp
    BY OpTyped DEF OpShape
  <2> QED BY <1>1, <1>5, <2>1 DEF OpShape, RetireSteps
<1>9. WriterShape(op', loaded')
  BY <1>1, <1>5, <1>7 DEF WriterShape, Launches, RetireSteps
<1>10. op'.h \in 0..Len(hosts) /\ op'.r \in 0..Len(hosts)
  BY <1>5, OpTyped
<1> QED BY <1>2, <1>3, <1>4, <1>6, <1>8, <1>9, <1>10, TermKeepsInv

LEMMA HandshakeTimesOutKeepsInv == Inv /\ HandshakeTimesOut => Inv'
<1> SUFFICES ASSUME Inv, HandshakeTimesOut PROVE Inv'
  OBVIOUS
<1>1. /\ op.step = "handshake" /\ hosts[op.h].st = "serving" /\ Up(op.h)
      /\ UNCHANGED << files, meta, loaded, backends, faults >>
  BY DEF HandshakeTimesOut, At
<1>2. CASE Done /\ UNCHANGED << hosts, silent >>
  BY <1>1, <1>2, HostsStay, OverKeepsInv DEF meta
<1>3. CASE Misses(op.h)
  <2>1. op.h \in DOMAIN hosts /\ op.kind \in { "resume", "reattach" }
    <3>1. op.h # 0 /\ op.h \in 0..Len(hosts) /\ op.kind \in { "resume", "reattach" }
      BY <1>1, OpTyped DEF OpShape
    <3> QED BY <3>1, HostsTyped DEF Inv
  <2>2. \A h \in DOMAIN hosts : Spoken(h) => h = op.h
    BY <1>1 DEF Inv, Known, KnownShape
  <2> QED BY <1>1, <1>3, <2>1, <2>2, MissesKeepsInv
<1>4. CASE /\ silent' = FALSE
           /\ Closes(op.h, "fail") \/ Closes(op.h, IF op.via = "launch" THEN "open" ELSE "holder")
  <2>1. \/ Closes(op.h, "fail") 
        \/ op.via = "launch" /\ Closes(op.h, "open")
        \/ Closes(op.h, "holder")
    BY <1>4
  <2>2. op.via = "launch" \/ ~Closes(op.h, "open")
    <3>1. ASSUME NEW next, Closes(op.h, next) PROVE op'.next = next
      BY <3>1, OpTyped DEF Closes, OpType
    <3> QED BY <2>1, <3>1
  <2> QED BY <1>1, <1>4, <2>1, <2>2, ClosesKeepsInv
<1> QED BY <1>2, <1>3, <1>4 DEF HandshakeTimesOut

\* The process that was spoken to has ended: there is none to be found.
LEMMA HandshakeFailsKeepsInv == Inv /\ HandshakeFails => Inv'
<1> SUFFICES ASSUME Inv, HandshakeFails PROVE Inv'
  OBVIOUS
<1>1. /\ op.step = "handshake" /\ (~Up(op.h) \/ ~Runs(op.h))
      /\ launch' \in { "", launch } /\ silent' = FALSE /\ Done
      /\ UNCHANGED << hosts, files, ran, loaded, backends, faults >>
  BY DEF HandshakeFails, At
<1>2. \A h \in DOMAIN hosts : ~Spoken(h)
  BY <1>1 DEF Inv, Known, KnownShape, Spoken, Runs
<1>3. KnownAfter
  BY <1>2, NobodyKnown
<1> QED BY <1>1, <1>3, HostsStay, OpTyped, DoneKeepsInv

LEMMA ClosingKeepsInv == Inv /\ Closing => Inv'
<1> SUFFICES ASSUME Inv, Closing PROVE Inv'
  OBVIOUS
<1>1. /\ op.step = "closing"
      /\ launch' \in { "", launch } /\ loaded' = 0 /\ silent' = silent
      /\ UNCHANGED << hosts, files, ran, backends, faults >>
      /\ IF op.next \in { "open", "holder" } THEN Goes(op.next) ELSE Done
  BY DEF Closing, At
<1>2. \A h \in DOMAIN hosts : ~Spoken(h)
  BY <1>1 DEF Inv, Known, KnownShape
<1>3. KnownAfter
  BY <1>2, NobodyKnown
<1>4. Quiet /\ Settling /\ silent' \in BOOLEAN
  BY <1>1, HostsStay, OpTyped
<1>5. CASE Done
  BY <1>1, <1>3, <1>4, <1>5, DoneKeepsInv
<1>6. op.next \in { "open", "holder" } => op.kind \in { "resume", "reattach" } /\ op.argv # ""
  BY <1>1, OpTyped DEF OpShape, OpType
<1>7. CASE op.next = "holder" /\ Goes("holder")
  BY <1>1, <1>3, <1>4, <1>6, <1>7, GoesOnKeepsInv
<1>8. CASE op.next = "open" /\ Goes("open")
  <2>1. NoWriter
    BY <1>1, <1>8, OpTyped DEF WriterShape, Launches
  <2>2. op' = [kind |-> op.kind, step |-> "open", via |-> op.via, h |-> 0, r |-> 0, fresh |-> FALSE,
               next |-> op.next, argv |-> op.argv]
    BY <1>8, GoesIs
  <2>3. op' \in OpType
    BY <2>2, OpTyped DEF OpType, Steps
  <2>4. OpShape(op', loaded', silent')
    BY <1>1, <1>6, <1>8, <2>2 DEF OpShape, RetireSteps
  <2>5. WriterShape(op', loaded')
    BY <1>1, <2>1, <2>2 DEF WriterShape, RetireSteps
  <2>6. op'.h \in 0..Len(hosts) /\ op'.r \in 0..Len(hosts) /\ loaded' \in 0..Len(hosts)
    BY <1>1, <2>2, Names
  <2>7. launch' \in { "", "new", "resume" }
    BY <1>1, OpTyped
  <2> QED BY <1>1, <1>3, <1>4, <2>3, <2>4, <2>5, <2>6, <2>7, BackendKeepsInv
<1> QED BY <1>1, <1>5, <1>7, <1>8

LEMMA SeesExitKeepsInv == Inv /\ SeesExit => Inv'
<1> SUFFICES ASSUME Inv, SeesExit PROVE Inv'
  OBVIOUS
<1>1. /\ loaded # 0 /\ op.step # "closing" /\ (~Up(loaded) \/ ~Runs(loaded))
      /\ launch' \in { "", launch } /\ loaded' = 0
      /\ UNCHANGED << hosts, files, ran, silent, op, backends, faults >>
  BY DEF SeesExit, At
<1>2. \A h \in DOMAIN hosts : ~Spoken(h)
  BY <1>1 DEF Inv, Known, KnownShape, Spoken, Runs
<1>3. KnownAfter
  BY <1>2, NobodyKnown
<1>4. OpShape(op', loaded', silent') /\ WriterShape(op', loaded')
  BY <1>1, OpTyped DEF OpShape, WriterShape
<1>5. launch' \in { "", "new", "resume" } /\ loaded' \in 0..Len(hosts)
  BY <1>1, OpTyped, Names
<1> QED BY <1>1, <1>3, <1>4, <1>5, HostsStay, OpTyped, BackendKeepsInv

LEMMA EndKeepsInv == Inv /\ End => Inv'
<1> SUFFICES ASSUME Inv, End PROVE Inv'
  OBVIOUS
<1>1. op.kind = "none" /\ op.step = "" /\ UNCHANGED << files, meta, loaded, silent, backends, faults >>
  BY OpTyped DEF End, OpShape
<1>2. CASE loaded # 0
  <2>1. /\ op' = [kind |-> "end", step |-> "closing", via |-> "", h |-> loaded, r |-> 0, fresh |-> FALSE,
                  next |-> "done", argv |-> ""]
        /\ hosts' = [hosts EXCEPT ![loaded].term = TRUE]
    BY <1>2 DEF End, NoOp
  <2>2. loaded \in 0..Len(hosts) /\ loaded \in DOMAIN hosts /\ loaded \in Nat /\ 0 \in 0..Len(hosts)
    <3>1. loaded \in 0..Len(hosts)
      BY OpTyped
    <3> QED BY <1>2, <3>1, HostsTyped DEF Inv
  <2>3. op' \in OpType
    BY <2>1, <2>2 DEF OpType, Steps
  <2>4. OpShape(op', loaded', silent')
    <3>1. hosts[loaded].st \notin ComingUp /\ ~silent
      BY <1>2, OpTyped DEF OpShape
    <3> QED BY <1>1, <1>2, <2>1, <3>1 DEF OpShape, RetireSteps
  <2>5. WriterShape(op', loaded')
    BY <1>1, <2>1, OpTyped DEF WriterShape, Launches, RetireSteps
  <2>6. \A h \in DOMAIN hosts : Spoken(h) => h = loaded
    BY <1>2 DEF Inv, Known, KnownShape
  <2> QED BY <1>1, <2>1, <2>2, <2>3, <2>4, <2>5, <2>6, OpTyped, TermKeepsInv
<1>3. CASE loaded = 0
  <2>1. /\ op' = [kind |-> "end", step |-> "retire", via |-> "", h |-> 0, r |-> record, fresh |-> FALSE,
                  next |-> "done", argv |-> ""]
        /\ hosts' = hosts
    BY <1>3 DEF End, NoOp
  <2>2. op' \in OpType
    BY <2>1, Names DEF OpType, Steps, RetireSteps
  <2>3. OpShape(op', loaded', silent') /\ WriterShape(op', loaded')
    BY <1>1, <1>3, <2>1 DEF OpShape, WriterShape, Launches, RetireSteps
  <2>4. \A h \in DOMAIN hosts : Spoken(h) => record = h
    BY DEF Inv, Known, KnownShape
  <2>5. Quiet /\ Settling
    BY <2>1, HostsStay
  <2>6. KnownAfter
    BY <1>1, <2>1, <2>4, <2>5, StillKnown DEF meta, RetireSteps
  <2>7. op'.h \in 0..Len(hosts) /\ op'.r \in 0..Len(hosts)
    BY <2>1, Names
  <2> QED BY <1>1, <2>2, <2>3, <2>5, <2>6, <2>7, OpTyped, BackendKeepsInv DEF meta
<1> QED BY <1>2, <1>3

\* A message is given to the process of the loaded session, beside which nobody writes.
LEMMA WorkKeepsInv == Inv /\ Work => Inv'
<1> SUFFICES ASSUME Inv, Work PROVE Inv'
  OBVIOUS
<1> DEFINE k == loaded
           x == hosts[k]
           y == [x EXCEPT !.worked = TRUE]
<1>1. /\ op.kind = "none" /\ loaded # 0 /\ x.st = "serving" /\ Up(k)
      /\ hosts' = [hosts EXCEPT ![k] = y] /\ ran' = TRUE
      /\ UNCHANGED << files, launch, loaded, silent, op, backends, faults >>
  BY DEF Work
<1>2. k \in DOMAIN hosts
  BY <1>1, OpTyped, Named
<1>3. Good(x) /\ x.reg /\ x.used /\ OnlyWriter(k) /\ ~silent /\ op.step = ""
  BY <1>1, <1>2, HostsTyped, OpTyped DEF Inv, HostsOK, Good, OpShape, WriterShape
<1>4. /\ y \in HostType /\ y.st = x.st /\ y.argv = x.argv /\ y.kid = x.kid /\ y.used = x.used /\ y.reg = x.reg
      /\ y.cut = x.cut /\ y.term = x.term /\ y.missed = x.missed
  BY <1>3 DEF Good, HostType
<1>5. HostOK(y)
  BY <1>1, <1>3, <1>4 DEF Good, HostOK, Up
<1> HIDE DEF y
<1>6. /\ hosts' \in Seq(HostType) /\ Len(hosts') = Len(hosts) /\ DOMAIN hosts' = DOMAIN hosts
      /\ hosts'[k] = y /\ \A h \in DOMAIN hosts : h # k => hosts'[h] = hosts[h]
  BY <1>1, <1>2, <1>4, HostsTyped, ExceptSeq, LenProperties DEF Inv
<1>7. TypeOK'
  BY <1>1, <1>6 DEF Inv, TypeOK, files
<1>8. HostsOK'
  BY <1>5, <1>6 DEF Inv, HostsOK
<1>9. \A h \in DOMAIN hosts : /\ hosts'[h].st = hosts[h].st /\ hosts'[h].cut = hosts[h].cut /\ hosts'[h].kid = hosts[h].kid
                              /\ hosts'[h].argv = hosts[h].argv /\ hosts'[h].used = hosts[h].used /\ hosts'[h].term = hosts[h].term
                              /\ hosts'[h].reg = hosts[h].reg /\ hosts'[h].missed = hosts[h].missed
  BY <1>4, <1>6
<1>10. OpOK'
  BY <1>1, <1>2, <1>3, <1>9, OpTyped DEF OpOK, OpShape, RetireSteps
<1>11. \A h \in DOMAIN hosts' \ {k} : ~Writes(h)'
  BY <1>3, <1>6 DEF OnlyWriter, Writes, Up
<1>12. Writer'
  BY <1>1, <1>2, <1>3, <1>9, <1>11 DEF Writer, WriterShape, Launches, OnlyWriter, RetireSteps, Up
<1>13. OneWriter'
  BY <1>11 DEF OneWriter, Writes
<1>14. Apart' /\ Filed'
  BY <1>1, <1>6, <1>9 DEF Inv, Apart, Filed, Live, files
<1>15. Known'
  <2> SUFFICES ASSUME NEW h \in DOMAIN hosts', Spoken(h)'
               PROVE  KnownShape(h, hosts[h].missed, op, loaded, silent, record, socket, launch)'
    BY DEF Known
  <2>1. h \in DOMAIN hosts /\ Spoken(h)
    BY <1>6, <1>9 DEF Spoken, Up
  <2>2. KnownShape(h, hosts[h].missed, op, loaded, silent, record, socket, launch)
    BY <2>1 DEF Inv, Known
  <2> QED BY <1>1, <1>3, <1>9, <2>1, <2>2 DEF KnownShape, files, RetireSteps
<1> QED BY <1>7, <1>8, <1>10, <1>12, <1>13, <1>14, <1>15 DEF Inv

-----------------------------------------------------------------------------
(***************************************************************************)
(* The retirement of a host.                                               *)
(***************************************************************************)

\* The operation goes on with the retirement.
LEMMA RetirementGoesOn ==
  ASSUME Inv, op.step \in RetireSteps, NEW step \in RetireSteps, NEW h \in 0..Len(hosts),
         op' = [op EXCEPT !.step = step, !.h = h], step = "asked" => h # 0
  PROVE  /\ op' \in OpType /\ op'.h \in 0..Len(hosts) /\ op'.r \in 0..Len(hosts)
         /\ OpShape(op', loaded, silent) /\ WriterShape(op', loaded)
         /\ op'.step = step /\ op'.r = op.r /\ op'.next = op.next
<1>1. op' = [kind |-> op.kind, step |-> step, via |-> op.via, h |-> h, r |-> op.r, fresh |-> op.fresh,
             next |-> op.next, argv |-> op.argv]
  BY OpTyped DEF OpType
<1>2. h \in Nat
  BY Names
<1>3. op' \in OpType
  BY <1>1, <1>2, OpTyped DEF OpType, Steps
<1>4. OpShape(op', loaded, silent)
  BY <1>1, OpTyped DEF OpShape, RetireSteps
<1>5. WriterShape(op', loaded)
  BY <1>1, OpTyped DEF WriterShape, Launches, RetireSteps
<1> QED BY <1>1, <1>3, <1>4, <1>5, OpTyped

\* A retirement that changes no host that was spoken to stays with the host of the record.
LEMMA RetirementKeepsInv ==
  ASSUME Inv, Quiet, Settling, UNCHANGED << files, meta, loaded, silent, backends, faults >>, op.step \in RetireSteps,
         op' \in OpType /\ op'.h \in 0..Len(hosts) /\ op'.r \in 0..Len(hosts),
         OpShape(op', loaded, silent) /\ WriterShape(op', loaded),
         op'.step \in RetireSteps /\ op'.r = op.r /\ op'.next = op.next
  PROVE  Inv'
<1>1. ASSUME NEW h \in DOMAIN hosts, Spoken(h)
      PROVE  op.r = h /\ (hosts[h].worked /\ op.next = "survivor" => hosts[h].missed > 0)
  BY <1>1 DEF Inv, Known, KnownShape
<1>2. KnownAfter
  BY <1>1, StillKnown DEF meta, RetireSteps
<1> QED BY <1>2, OpTyped, BackendKeepsInv DEF meta

LEMMA RetireKeepsInv == Inv /\ Retire => Inv'
<1> SUFFICES ASSUME Inv, Retire PROVE Inv'
  OBVIOUS
<1>1. op.step = "retire" /\ op.step \in RetireSteps /\ UNCHANGED << files, meta, loaded, silent, backends, faults >>
  BY DEF Retire, At, RetireSteps
<1>2. CASE /\ ~Refused
           /\ hosts' = [hosts EXCEPT ![socket].term = TRUE] /\ op' = [op EXCEPT !.step = "asked", !.h = socket]
  <2>1. socket \in DOMAIN hosts /\ socket \in 0..Len(hosts) /\ socket # 0
    BY <1>2, Names DEF Refused
  <2>2. \A h \in DOMAIN hosts : Spoken(h) => h = socket
    BY DEF Inv, Known, KnownShape
  <2>3. /\ op' \in OpType /\ op'.h \in 0..Len(hosts) /\ op'.r \in 0..Len(hosts)
        /\ OpShape(op', loaded, silent) /\ WriterShape(op', loaded)
    BY <1>1, <1>2, <2>1, RetirementGoesOn DEF RetireSteps
  <2> QED BY <1>1, <1>2, <2>1, <2>2, <2>3, OpTyped, TermKeepsInv
<1>3. CASE UNCHANGED hosts /\ op' = [op EXCEPT !.step = "signal"]
  <2>1. op' = [op EXCEPT !.step = "signal", !.h = op.h]
    BY <1>3, OpTyped DEF OpType
  <2>2. /\ op' \in OpType /\ op'.h \in 0..Len(hosts) /\ op'.r \in 0..Len(hosts)
        /\ OpShape(op', loaded, silent) /\ WriterShape(op', loaded)
        /\ op'.step \in RetireSteps /\ op'.r = op.r /\ op'.next = op.next
    BY <1>1, <2>1, RetirementGoesOn, OpTyped DEF RetireSteps
  <2> QED BY <1>1, <1>3, <2>2, HostsStay, RetirementKeepsInv
<1> QED BY <1>2, <1>3 DEF Retire

LEMMA AskedKeepsInv == Inv /\ Asked => Inv'
<1> SUFFICES ASSUME Inv, Asked PROVE Inv'
  OBVIOUS
<1>1. op.step = "asked" /\ op.step \in RetireSteps /\ UNCHANGED << hosts, files, meta, loaded, silent, backends, faults >>
      /\ op' = [op EXCEPT !.step = "signal", !.h = 0]
  BY DEF Asked, At, RetireSteps
<1>2. /\ op' \in OpType /\ op'.h \in 0..Len(hosts) /\ op'.r \in 0..Len(hosts)
      /\ OpShape(op', loaded, silent) /\ WriterShape(op', loaded)
      /\ op'.step \in RetireSteps /\ op'.r = op.r /\ op'.next = op.next
  BY <1>1, RetirementGoesOn, Names DEF RetireSteps
<1> QED BY <1>1, <1>2, HostsStay, RetirementKeepsInv

LEMMA SignalKeepsInv == Inv /\ Signal => Inv'
<1> SUFFICES ASSUME Inv, Signal PROVE Inv'
  OBVIOUS
<1>1. /\ op.step = "signal" /\ op.step \in RetireSteps /\ UNCHANGED << files, meta, loaded, silent, backends, faults >>
      /\ op' = [op EXCEPT !.step = "signalled"] /\ hosts' = [hosts EXCEPT ![op.r].term = TRUE] /\ op.r # 0
  BY DEF Signal, At, RetireSteps, RecordRuns
<1>2. op' = [op EXCEPT !.step = "signalled", !.h = op.h]
  BY <1>1, OpTyped DEF OpType
<1>3. /\ op' \in OpType /\ op'.h \in 0..Len(hosts) /\ op'.r \in 0..Len(hosts)
      /\ OpShape(op', loaded, silent) /\ WriterShape(op', loaded)
  BY <1>1, <1>2, RetirementGoesOn, OpTyped DEF RetireSteps
<1>4. op.r \in DOMAIN hosts
  BY <1>1, OpTyped, Named
<1>5. \A h \in DOMAIN hosts : Spoken(h) => h = op.r
  BY <1>1 DEF Inv, Known, KnownShape
<1> QED BY <1>1, <1>3, <1>4, <1>5, OpTyped, TermKeepsInv

LEMMA KillKeepsInv == Inv /\ Kill => Inv'
<1> SUFFICES ASSUME Inv, Kill PROVE Inv'
  OBVIOUS
<1>1. /\ op.step = "signalled" /\ op.step \in RetireSteps /\ UNCHANGED << files, meta, loaded, silent, backends, faults >>
      /\ op' = [op EXCEPT !.step = "killed"] /\ hosts' = [hosts EXCEPT ![op.r] = Without(@, "dead")] /\ op.r # 0
  BY DEF Kill, At, RetireSteps, RecordRuns
<1>2. op' = [op EXCEPT !.step = "killed", !.h = op.h]
  BY <1>1, OpTyped DEF OpType
<1>3. /\ op' \in OpType /\ op'.h \in 0..Len(hosts) /\ op'.r \in 0..Len(hosts)
      /\ OpShape(op', loaded, silent) /\ WriterShape(op', loaded)
      /\ op'.step \in RetireSteps /\ op'.r = op.r /\ op'.next = op.next
  BY <1>1, <1>2, RetirementGoesOn, OpTyped DEF RetireSteps
<1>4. op.r \in DOMAIN hosts
  BY <1>1, OpTyped, Named
<1>5. Good(hosts[op.r])
  BY <1>4, HostsTyped DEF Inv, HostsOK, Good
<1>6. Quiet /\ Settling
  <2>1. Good(Without(hosts[op.r], "dead")) /\ Tame(hosts[op.r], Without(hosts[op.r], "dead")) /\ Without(hosts[op.r], "dead").st = "dead"
    BY <1>5, WithoutIsTame
  <2> QED BY <1>1, <1>4, <2>1, OneHostIsQuiet DEF Inv
<1> QED BY <1>1, <1>3, <1>6, RetirementKeepsInv

\* The host of the record has ended, so none that was spoken to is left: both files may go.
LEMMA EndsRetireKeepsInv == Inv /\ EndsRetire => Inv'
<1> SUFFICES ASSUME Inv, EndsRetire PROVE Inv'
  OBVIOUS
<1>1. /\ op.step \in RetireSteps /\ ~RecordRuns /\ record' = 0 /\ socket' = 0
      /\ UNCHANGED << ran, loaded, backends, faults >>
      /\ hosts' = IF op.r # 0 /\ Up(op.r) THEN [hosts EXCEPT ![op.r] = EndKid(@)] ELSE hosts
  BY DEF EndsRetire, RetireSteps
<1>2. \A h \in DOMAIN hosts : ~Spoken(h)
  BY <1>1, Names DEF Inv, Known, KnownShape, RecordRuns, Runs, Spoken
<1>3. KnownAfter
  BY <1>2, NobodyKnown
<1>4. Quiet
  <2>1. CASE op.r # 0 /\ Up(op.r)
    <3>1. op.r \in DOMAIN hosts
      BY <2>1, OpTyped, Named
    <3>2. Good(hosts[op.r]) /\ hosts' = [hosts EXCEPT ![op.r] = EndKid(hosts[op.r])]
      BY <1>1, <2>1, <3>1, HostsTyped DEF Inv, HostsOK, Good
    <3>3. Good(EndKid(hosts[op.r])) /\ Tame(hosts[op.r], EndKid(hosts[op.r]))
      BY <2>1, <3>2, EndKidIsTame DEF Up
    <3> QED BY <3>1, <3>2, <3>3, OneHostIsQuiet DEF Inv
  <2>2. CASE ~(op.r # 0 /\ Up(op.r))
    BY <1>1, <2>2, HostsStay
  <2> QED BY <2>1, <2>2
<1>5. Filed'
  <2>1. \A h \in DOMAIN hosts' : h # 0
    BY <1>4, HostsTyped, LenProperties DEF Inv, Quiet
  <2> QED BY <1>1, <2>1 DEF Filed
<1>6. op.next \in { "start", "survivor", "done" } /\ (op.next # "done" => op.kind \in { "resume", "reattach" } /\ op.argv # "")
      /\ (op.kind \in { "resume", "reattach" } => loaded = 0)
  <2>1. op.kind \in { "resume", "reattach", "end" }
    BY <1>1, OpTyped DEF OpShape, OpType, RetireSteps
  <2> QED BY <1>1, <2>1, OpTyped DEF OpShape, RetireSteps
<1>7. ASSUME op' \in OpType, op'.h = 0, op'.r = 0, launch' \in { "", launch }, silent' \in BOOLEAN,
             OpShape(op', loaded', silent'), WriterShape(op', loaded')
      PROVE  Inv'
  <2>1. TypedAfter
    BY <1>1, <1>7, Names, OpTyped DEF TypedAfter, Inv, TypeOK
  <2> QED BY <1>3, <1>4, <1>5, <1>7, <2>1, QuietKeepsInv
<1>8. ASSUME NEW step \in { "start", "holder" }, Goes(step)
      PROVE  /\ op' = [kind |-> op.kind, step |-> step, via |-> op.via, h |-> 0, r |-> 0, fresh |-> FALSE,
                       next |-> op.next, argv |-> op.argv]
             /\ op' \in OpType
  <2>1. op' = [kind |-> op.kind, step |-> step, via |-> op.via, h |-> 0, r |-> 0, fresh |-> FALSE,
               next |-> op.next, argv |-> op.argv]
    BY <1>8, GoesIs
  <2> QED BY <2>1, OpTyped DEF OpType, Steps
<1>9. CASE op.next = "start"
  <2>1. Goes("start") /\ UNCHANGED << launch, silent >>
    BY <1>9 DEF EndsRetire
  <2>2. /\ op' = [kind |-> op.kind, step |-> "start", via |-> op.via, h |-> 0, r |-> 0, fresh |-> FALSE,
                  next |-> op.next, argv |-> op.argv]
        /\ op' \in OpType
    BY <1>8, <2>1
  <2>3. NoWriter
    BY <1>1, <1>9, OpTyped DEF WriterShape, Launches
  <2>4. OpShape(op', loaded', silent')
    BY <1>1, <1>6, <1>9, <2>2 DEF OpShape, RetireSteps
  <2>5. WriterShape(op', loaded')
    BY <1>1, <1>6, <1>9, <2>2, <2>3 DEF WriterShape, RetireSteps
  <2> QED BY <1>7, <2>1, <2>2, <2>4, <2>5, OpTyped
<1>10. CASE op.next = "survivor"
  <2>1. Goes("holder") /\ launch' = "" /\ silent' = FALSE
    BY <1>10 DEF EndsRetire
  <2>2. /\ op' = [kind |-> op.kind, step |-> "holder", via |-> op.via, h |-> 0, r |-> 0, fresh |-> FALSE,
                  next |-> op.next, argv |-> op.argv]
        /\ op' \in OpType
    BY <1>8, <2>1
  <2>3. OpShape(op', loaded', silent') /\ WriterShape(op', loaded')
    BY <1>1, <1>6, <1>10, <2>2 DEF OpShape, WriterShape, Launches, RetireSteps
  <2> QED BY <1>7, <2>1, <2>2, <2>3
<1>11. CASE op.next = "done"
  <2>1. op' = NoOp /\ launch' = "" /\ silent' = silent
    BY <1>11 DEF EndsRetire, Done
  <2>2. /\ op' \in OpType /\ op'.h = 0 /\ op'.r = 0 /\ op'.kind = "none" /\ op'.step = "" /\ op'.next = ""
    BY <2>1, EndedOp
  <2>3. OpShape(op', loaded', silent') /\ WriterShape(op', loaded')
    BY <1>1, <2>1, <2>2, OpTyped DEF OpShape, WriterShape, Launches, RetireSteps
  <2> QED BY <1>7, <2>1, <2>2, <2>3, OpTyped
<1> QED BY <1>6, <1>9, <1>10, <1>11

-----------------------------------------------------------------------------
\* A backend that starts anew has counted no silence, and knows of none.
LEMMA BackendDiesKeepsInv == Inv /\ BackendDies => Inv'
<1> SUFFICES ASSUME Inv, BackendDies PROVE Inv'
  OBVIOUS
<1>1. /\ backends < MaxBackends /\ backends' = backends + 1 /\ loaded' = 0 /\ silent' = FALSE /\ op' = NoOp
      /\ hosts' = [h \in DOMAIN hosts |-> [hosts[h] EXCEPT !.missed = 0]]
      /\ UNCHANGED << files, meta, faults >>
  BY DEF BackendDies, Done
<1>2. /\ op' \in OpType /\ op'.h = 0 /\ op'.r = 0 /\ op'.kind = "none" /\ op'.step = "" /\ op'.next = ""
  BY <1>1, EndedOp
<1>3. DOMAIN hosts = 1..Len(hosts) /\ Len(hosts) \in Nat /\ \A h \in DOMAIN hosts : hosts[h] \in HostType /\ HostOK(hosts[h])
  BY HostsTyped DEF Inv, HostsOK
<1>4. ASSUME NEW h \in DOMAIN hosts
      PROVE  /\ hosts'[h] \in HostType /\ hosts'[h].st = hosts[h].st /\ hosts'[h].cut = hosts[h].cut /\ hosts'[h].kid = hosts[h].kid
             /\ hosts'[h].argv = hosts[h].argv /\ hosts'[h].used = hosts[h].used /\ hosts'[h].term = hosts[h].term
             /\ hosts'[h].reg = hosts[h].reg /\ hosts'[h].worked = hosts[h].worked
  <2>1. hosts'[h] = [hosts[h] EXCEPT !.missed = 0] /\ hosts[h] \in HostType
    BY <1>1, <1>3
  <2> QED BY <2>1 DEF HostType
<1>5. hosts' \in Seq(HostType) /\ Len(hosts') = Len(hosts) /\ DOMAIN hosts' = DOMAIN hosts
  <2>1. hosts' = [h \in 1..Len(hosts) |-> hosts'[h]]
    BY <1>1, <1>3
  <2>2. \A h \in 1..Len(hosts) : hosts'[h] \in HostType
    BY <1>3, <1>4
  <2> QED BY <1>1, <1>3, <2>1, <2>2, IsASeq
<1>6. TypeOK'
  <2>1. backends' \in 1..MaxBackends
    <3>1. backends \in 1..MaxBackends /\ MaxBackends \in Nat
      BY BoundAssumption DEF Inv, TypeOK
    <3> QED BY <1>1, <3>1
  <2>2. op'.h \in 0..Len(hosts') /\ op'.r \in 0..Len(hosts') /\ loaded' \in 0..Len(hosts')
    BY <1>1, <1>2, <1>5, Names
  <2> QED BY <1>1, <1>2, <1>5, <2>1, <2>2 DEF Inv, TypeOK, files, meta
<1>7. HostsOK'
  BY <1>3, <1>4, <1>5 DEF HostsOK, HostOK
<1>8. OpOK' /\ Writer'
  BY <1>1, <1>2 DEF OpOK, OpShape, Writer, WriterShape, Launches, RetireSteps
<1>9. OneWriter' /\ Apart' /\ Filed'
  <2>1. OneWriter'
    BY <1>4, <1>5 DEF Inv, OneWriter, Up
  <2>2. Apart'
    BY <1>4, <1>5 DEF Inv, Apart, Live
  <2>3. Filed'
    BY <1>1, <1>4, <1>5 DEF Inv, Filed, files
  <2> QED BY <2>1, <2>2, <2>3
<1>10. Known'
  <2> SUFFICES ASSUME NEW h \in DOMAIN hosts', Spoken(h)'
               PROVE  KnownShape(h, hosts[h].missed, op, loaded, silent, record, socket, launch)'
    BY DEF Known
  <2>1. h \in DOMAIN hosts /\ Spoken(h) /\ hosts'[h].argv = hosts[h].argv
    BY <1>4, <1>5 DEF Spoken, Up
  <2>2. KnownShape(h, hosts[h].missed, op, loaded, silent, record, socket, launch)
    BY <2>1 DEF Inv, Known
  <2> QED BY <1>1, <1>2, <2>1, <2>2 DEF KnownShape, files, meta, RetireSteps
<1> QED BY <1>6, <1>7, <1>8, <1>9, <1>10 DEF Inv

-----------------------------------------------------------------------------
(***************************************************************************)
(* The invariant, and what it says.                                        *)
(***************************************************************************)
LEMMA NextKeepsInv == Inv /\ [Next]_vars => Inv'
<1> SUFFICES ASSUME Inv, [Next]_vars PROVE Inv'
  OBVIOUS
<1>1. CASE Backend
  BY <1>1, ResumeKeepsInv, AttachKeepsInv, HolderCheckKeepsInv, OpenKeepsInv, StartKeepsInv, StartingKeepsInv,
     HandshakeAnsweredKeepsInv, HandshakeTimesOutKeepsInv, HandshakeFailsKeepsInv, ClosingKeepsInv, SeesExitKeepsInv,
     EndKeepsInv, WorkKeepsInv, RetireKeepsInv, AskedKeepsInv, SignalKeepsInv, KillKeepsInv, EndsRetireKeepsInv
  DEF Backend
<1>2. CASE BackendDies
  BY <1>2, BackendDiesKeepsInv
<1>3. ASSUME NEW h \in DOMAIN hosts, Host(h) PROVE Inv'
  BY <1>3, ClaimsKeepsInv, ListensKeepsInv, ServesKeepsInv, StopKeepsInv, ProcessKeepsInv DEF Host
<1>4. CASE UNCHANGED vars
  <2>1. Quiet /\ Settling /\ UNCHANGED << files, meta, loaded, silent, op, backends, faults >>
    BY <1>4, HostsStay DEF vars
  <2>2. Filed' /\ faults' \in 0..MaxFaults
    BY <2>1, SettlingFiled DEF Inv, TypeOK
  <2>3. record' \in 0..Len(hosts) /\ socket' \in 0..Len(hosts) /\ record' = record /\ socket' = socket
    BY <2>1, Names DEF files
  <2> QED BY <2>1, <2>2, <2>3, HostKeepsInv
<1> QED BY <1>1, <1>2, <1>3, <1>4 DEF Next

LEMMA InvHolds == Spec => []Inv
BY InitInv, NextKeepsInv, PTL DEF Spec

\* The types: every host, record, socket and operation is one that the program can have.
THEOREM LifecycleTypes == Spec => []TypeOK
<1>1. Inv => TypeOK
  BY DEF Inv
<1> QED BY <1>1, InvHolds, PTL

\* At most one live process was given work, however many backends and hosts follow each other: the
\* registry is asked before a launch, the process that is found again is checked against it, and
\* nobody writes from the answer to the end of the launch.
THEOREM OneProcessWrites == Spec => []OneWriter
<1>1. Inv => OneWriter
  BY DEF Inv
<1> QED BY <1>1, InvHolds, PTL

\* A process that was spoken to can be found again after any step of any process: its host's
\* record, its socket and the launch record agree.
THEOREM SpokenToIsFoundAgain == Spec => []FoundAgain
<1>1. Inv => FoundAgain
  BY DEF Inv, Known, KnownShape, FoundAgain
<1> QED BY <1>1, InvHolds, PTL

\* A step that leaves a process and its host as they are, but for what is counted of them.
LEMMA NotDoomed ==
  ASSUME Inv, NEW h \in DOMAIN hosts, ~Doomed(hosts[h]),
         \/ hosts' = hosts
         \/ \E k \in DOMAIN hosts : Misses(k)
         \/ \E k \in DOMAIN hosts : \E via, argv : BringUp(k, via, argv)
  PROVE  ~Doomed(hosts'[h])
<1>1. hosts[h] \in HostType
  BY HostsTyped DEF Inv
<1>2. CASE hosts' = hosts
  BY <1>2
<1>3. ASSUME NEW k \in DOMAIN hosts, Misses(k) PROVE ~Doomed(hosts'[h])
  <2>1. hosts'[h].term = hosts[h].term /\ hosts'[h].kid = hosts[h].kid /\ hosts'[h].st = hosts[h].st
    <3>1. PICK m : hosts' = [hosts EXCEPT ![k].missed = m]
      BY <1>3 DEF Misses
    <3> QED BY <1>1, <3>1 DEF HostType
  <2> QED BY <2>1 DEF Doomed
<1>4. ASSUME NEW k \in DOMAIN hosts, NEW via, NEW argv, BringUp(k, via, argv) PROVE ~Doomed(hosts'[h])
  <2>1. hosts'[h].term = hosts[h].term /\ hosts'[h].kid = hosts[h].kid /\ hosts'[h].st = hosts[h].st
    BY <1>1, <1>4 DEF BringUp, HostType
  <2> QED BY <2>1 DEF Doomed
<1> QED BY <1>2, <1>3, <1>4

LEMMA StepKeepsWorker == Inv /\ [Next]_vars => 
          \A h \in DOMAIN hosts :
            (Opening /\ op' # op /\ hosts[h].worked /\ ~Doomed(hosts[h]) /\ ~hosts[h].cut /\ backends' = backends)
               => ~Doomed(hosts'[h]) \/ hosts[h].missed > 0
<1> SUFFICES ASSUME Inv, [Next]_vars, NEW h \in DOMAIN hosts, Opening, op' # op, hosts[h].worked, ~Doomed(hosts[h]),
                    ~hosts[h].cut, backends' = backends
             PROVE  ~Doomed(hosts'[h]) \/ hosts[h].missed > 0
  OBVIOUS
<1>1. hosts[h] \in HostType /\ HostOK(hosts[h])
  BY HostsTyped DEF Inv, HostsOK
<1>2. Spoken(h) /\ Writes(h)
  BY <1>1 DEF Doomed, HostType, HostOK, Spoken, Up, Writes
<1>3. KnownShape(h, hosts[h].missed, op, loaded, silent, record, socket, launch)
  BY <1>2 DEF Inv, Known
<1>4. ~Launches(op)
  BY <1>2, OpTyped DEF WriterShape, NoWriter
<1>5. op.kind \in { "resume", "reattach" } /\ op.kind # "none" /\ op.kind # "end"
  BY DEF Opening
<1>6. ASSUME \/ hosts' = hosts
             \/ \E k \in DOMAIN hosts : Misses(k)
             \/ \E k \in DOMAIN hosts : \E via, argv : BringUp(k, via, argv)
      PROVE  ~Doomed(hosts'[h])
  BY <1>6, NotDoomed
<1>7. CASE Attach
  <2>1. Silent \/ Answers => socket \in DOMAIN hosts
    BY DEF Silent, Answers, Refused
  <2> QED BY <1>6, <1>7, <2>1 DEF Attach, NoSurvivor
<1>8. CASE Open \/ Start \/ Starting
  BY <1>4, <1>8 DEF Open, Start, Starting, At, Launches
<1>9. CASE HandshakeTimesOut
  <2>1. op.step = "handshake" /\ op.via # "launch" /\ op.h = h
    BY <1>3, <1>4, <1>9 DEF HandshakeTimesOut, At, Launches, KnownShape
  <2>2. silent \/ hosts' = hosts \/ Misses(op.h)
    BY <1>9, <2>1 DEF HandshakeTimesOut, Busy
  <2> QED BY <1>3, <1>6, <2>1, <2>2 DEF KnownShape
<1>10. CASE Retire \/ Asked \/ Signal \/ Kill \/ EndsRetire
  <2>1. op.step \in RetireSteps
    BY <1>10 DEF Retire, Asked, Signal, Kill, EndsRetire, At, RetireSteps
  <2>2. op.next = "survivor"
    BY <1>4, <1>5, <2>1, OpTyped DEF OpShape, Launches
  <2> QED BY <1>3, <2>1, <2>2 DEF KnownShape
<1>11. CASE HolderCheck \/ HandshakeAnswered \/ HandshakeFails \/ Closing
  <2>1. hosts' = hosts
    BY <1>11 DEF HolderCheck, HandshakeAnswered, HandshakeFails, Closing
  <2> QED BY <1>6, <2>1
<1>12. ~(Resume \/ Reattach \/ End \/ Work \/ SeesExit)
  BY <1>5 DEF Resume, Reattach, End, Work, SeesExit
<1>13. ~BackendDies
  <2>1. backends \in 1..MaxBackends /\ MaxBackends \in Nat
    BY BoundAssumption DEF Inv, TypeOK
  <2> QED BY <2>1 DEF BackendDies
<1>14. ~\E k \in DOMAIN hosts : Host(k)
  BY DEF Host, Claims, Listens, Serves, EndsKid, Stops, Leaves, Registers, KidEnds, Hangs, Stalls, Dies, Recovers, HostSteps, Fault
<1>15. ~UNCHANGED vars
  BY DEF vars
<1> QED BY <1>7, <1>8, <1>9, <1>10, <1>11, <1>12, <1>13, <1>14, <1>15 DEF Next, Backend

\* No open ends a process that was given work and has answered every open of this backend: neither
\* a launch, which the registry forbids, nor the retirement of a survivor, nor a handshake that
\* takes too long.
THEOREM WorkIsNotEnded == Spec => KeptUnlessSilent
BY InvHolds, StepKeepsWorker, PTL DEF Spec, KeptUnlessSilent

=============================================================================
