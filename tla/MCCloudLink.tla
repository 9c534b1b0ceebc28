----------------------------- MODULE MCCloudLink -----------------------------
(* CloudLink for TLC: a ladder of two topics.                                *)
EXTENDS CloudLink

CONSTANTS t1, t2

MCLadder == <<t1, t2>>

=============================================================================
