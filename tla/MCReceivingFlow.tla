--------------------------- MODULE MCReceivingFlow ---------------------------
(* Small instances of ReceivingFlow.                                        *)
EXTENDS ReceivingFlow, TLC

FlowSymmetry == Permutations(Payloads)
=============================================================================
