-------------------------- MODULE MCReferenceRetries --------------------------
(* Two workers that take one operation at a time; one of the two operations    *)
(* fails at every attempt once its reference is there.                         *)
EXTENDS ReferenceRetries
CONSTANTS refund, rollback, alice, bob
MCOperations == {refund, rollback}
MCWorkers == {alice, bob}
MCOverflowing == {rollback}
=============================================================================
