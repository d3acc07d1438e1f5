------------------------------ MODULE MCGateway ------------------------------
(* A small instance of Gateway for TLC: one request id and one person.     *)
EXTENDS Gateway

CONSTANT a1

MCNamed == {[named |-> {a1}, min |-> 1]}
=============================================================================
