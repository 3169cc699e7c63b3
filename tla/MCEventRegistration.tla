------------------------- MODULE MCEventRegistration -------------------------
(* Instances of EventRegistration for TLC. *)
EXTENDS EventRegistration

JustOne == {1}
=============================================================================
