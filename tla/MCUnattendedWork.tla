-------------------------- MODULE MCUnattendedWork --------------------------
(* Constants of the model-checking runs of UnattendedWork.                 *)
EXTENDS UnattendedWork, TLC

SignalSymmetry == Permutations(Signals)
=============================================================================
