---------------------------- MODULE ReplayBuffer ----------------------------
(***************************************************************************)
(* The replay buffer of a session host: the newest stdout lines of the     *)
(* provider child, bounded by bytes and by age                             *)
(* (src/apps/server/src/providers/transport/session-host.ts, ReplayBuffer).*)
(*                                                                         *)
(* A buffer is a sequence of entries, oldest first.  The clock is not      *)
(* modelled: the age bound may expire any number of the oldest entries     *)
(* whenever the code trims, so trimming returns the SET of buffers that    *)
(* some clock reading can leave.                                           *)
(***************************************************************************)
EXTENDS Integers, Sequences, SequencesExt

CONSTANTS MaxBytes,   \* REPLAY_MAX_BYTES
          LineBytes   \* the sizes a line may have

ASSUME BytesAssumption == MaxBytes \in Nat /\ LineBytes \subseteq Nat

\* The stored line itself is abstracted to its number: the nth line the child printed.
Entry == [seq : Nat, bytes : Nat]

\* The running total `bytes` of the class, recomputed from the entries.
TotalBytes(buf) == FoldSeq(LAMBDA e, total : e.bytes + total, 0, buf)

DropFirst(buf, k) == SubSeq(buf, k + 1, Len(buf))

\* trim(now): shift entries while they exceed the bytes or the oldest is too old.
Trims(buf) ==
    { DropFirst(buf, k) : k \in { n \in 0..Len(buf) : TotalBytes(DropFirst(buf, n)) <= MaxBytes } }

\* push(line, now): a line above the whole budget empties the buffer, any other
\* is appended (at age zero, so the age bound spares it) and the rest trimmed.
Pushes(buf, entry) ==
    IF entry.bytes > MaxBytes
      THEN { << >> }
      ELSE Trims(Append(buf, entry)) \ { << >> }

\* The oldest buffered line, or the next one when nothing is buffered.
FirstSeq(buf, lastSeq) == IF buf = << >> THEN lastSeq + 1 ELSE buf[1].seq

\* Mutant of HasGap: off by one at the oldest buffered line.
HasGapOffByOne(buf, lastSeq, sinceSeq) ==
    \/ sinceSeq > lastSeq
    \/ sinceSeq < lastSeq /\ sinceSeq + 2 < FirstSeq(buf, lastSeq)

\* since(sinceSeq): whether a line after the cursor is gone, or the cursor is ahead of this host.
HasGap(buf, lastSeq, sinceSeq) ==
    \/ sinceSeq > lastSeq
    \/ sinceSeq < lastSeq /\ sinceSeq + 1 < FirstSeq(buf, lastSeq)

\* The entries after the cursor.  Entries ascend, so the filter keeps a suffix.
EntriesAfter(buf, lastSeq, sinceSeq) ==
    IF sinceSeq >= lastSeq
      THEN << >>
      ELSE DropFirst(buf, CHOOSE n \in 0..Len(buf) :
                            \A i \in 1..Len(buf) : (buf[i].seq > sinceSeq) <=> (i > n))

\* No line between the oldest buffered one and the newest printed one is missing.
Contiguous(buf, lastSeq) ==
    \A i \in 1..Len(buf) : buf[i].seq = lastSeq - Len(buf) + i
=============================================================================
