--------------------------- MODULE RelayContract ---------------------------
(***************************************************************************)
(* What a session host promises the backend that reads a provider through  *)
(* it, without sockets, buffers or replays: every client reads ONE          *)
(* unbroken stretch of the provider's output.  It knows where the stretch  *)
(* begins (a gap it was told of, or its own choice to see live output      *)
(* only); from there it reads line after line; and it is told of the       *)
(* provider's end only after the last line before it.                      *)
(***************************************************************************)
EXTENDS Integers

CONSTANT Clients

VARIABLES
  printed,   \* lines the provider has printed
  ended,     \* the provider has been declared ended
  endAt,     \* lines it had printed by then
  stream     \* per client: how far it has read and where that began

vars == << printed, ended, endAt, stream >>

Init ==
    /\ printed = 0 /\ endAt = 0
    /\ ended \in BOOLEAN          \* a provider that could not be started has ended
    /\ stream = [c \in Clients |-> [state |-> "none", from |-> 0, to |-> 0]]

Output ==
    /\ printed' = printed + 1
    /\ UNCHANGED << ended, endAt, stream >>

ProviderEnds ==
    /\ ~ended
    /\ ended' = TRUE /\ endAt' = printed
    /\ UNCHANGED << printed, stream >>

\* The client learns where its stretch begins: nothing beyond what was printed.
Begin(s) == { [state |-> "open", from |-> n, to |-> n] : n \in IF s.state = "none" THEN 0..printed ELSE {} }

ReadLine(s) == IF s.state = "open" /\ s.to < printed THEN { [s EXCEPT !.to = @ + 1] } ELSE {}

LearnEnd(s) == IF s.state = "open" /\ ended /\ s.to >= endAt THEN { [s EXCEPT !.state = "exited"] } ELSE {}

\* Backend crash, host crash, replaced by another client, dropped for not reading.
Lose(s) == IF s.state \in { "none", "open" } THEN { [s EXCEPT !.state = "lost"] } ELSE {}

\* One client takes a step, or none that it would notice; the others none.
ClientStep ==
    /\ UNCHANGED << printed, ended, endAt >>
    /\ \E before \in {stream}, after \in {stream'} :
         \E c \in Clients :
           /\ \/ after[c] = before[c]
              \/ after[c] \in Begin(before[c]) \cup ReadLine(before[c]) \cup LearnEnd(before[c]) \cup Lose(before[c])
           /\ after = [before EXCEPT ![c] = after[c]]

Next == Output \/ ProviderEnds \/ ClientStep

Spec == Init /\ [][Next]_vars
=============================================================================
