------------------------- MODULE MCCredentialBroker -------------------------
(* A small instance of CredentialBroker for TLC. *)
EXTENDS CredentialBroker, TLC

(* No action and no property tells one thread from another.                *)
ThreadSymmetry == Permutations(Handlers)
=============================================================================
