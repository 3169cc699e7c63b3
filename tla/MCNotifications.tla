--------------------------- MODULE MCNotifications ---------------------------
(* An instance of Notifications for TLC: the customer writes to the host,  *)
(* who may switch digests off, and attends an event; the host may be       *)
(* suspended.  Two attempts: a first that is retried and a last; two       *)
(* faults: a job stalls once and again.                                    *)
EXTENDS Notifications

HostDigests == {<<"digest", Host>>}
OnlyHost == {Host}
OnlyCustomer == {Customer}
=============================================================================
