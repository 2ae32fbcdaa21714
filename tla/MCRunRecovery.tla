--------------------------- MODULE MCRunRecovery ---------------------------
(* Constants of the model-checking runs of RunRecovery.                    *)
EXTENDS RunRecovery

TwoDelays == << 1, 1 >>
=============================================================================
