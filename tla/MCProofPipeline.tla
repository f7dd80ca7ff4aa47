-------------------------- MODULE MCProofPipeline --------------------------
(* Requests, command lines and session lengths for TLC. *)
EXTENDS ProofPipeline

SomeRequests == {<<"q", Malformed, "p">>, <<Malformed>>}
SomeCommands == {<<"q", "p">>}
SomeSizes    == [p \in Paths |-> IF p = "p" THEN {1, 2} ELSE {1}]
=============================================================================
