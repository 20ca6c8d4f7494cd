----------------------------- MODULE MCTransport -----------------------------
(* A small instance of Transport.  The environment is chosen in Init.       *)
EXTENDS Transport
=============================================================================
