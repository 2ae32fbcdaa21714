--------------------------- MODULE MCSessionHost ---------------------------
(* Constants of the model-checking runs of SessionHost.                    *)
EXTENDS SessionHost

ClientSymmetry == Permutations(Clients)

\* Live output only, or everything from the start: a replay of more than one line.
FromStart == { LiveOnly, 0 }
=============================================================================
