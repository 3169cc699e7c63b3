------------------------------- MODULE MCChat -------------------------------
(* An instance of Chat for TLC: the customer writes, and anybody reads.    *)
EXTENDS Chat

CONSTANTS m1, m2, other, customer, host, stranger

Two == {m1, m2}
OneWriter == [m \in Two |-> customer]
InOrder == [m \in Two \cup {other} |-> CASE m = m1 -> 1 [] m = other -> 2 [] OTHER -> 3]
=============================================================================
