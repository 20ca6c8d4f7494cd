------------------------ MODULE MCCredentialRotation ------------------------
(* A small instance of CredentialRotation: two overlapping calls of one     *)
(* Bridge and its owner.                                                    *)
EXTENDS CredentialRotation, TLC

CallSymmetry == Permutations(Calls)
=============================================================================
