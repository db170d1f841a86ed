---------------------------- MODULE MCLeaseTable ----------------------------
(* Instance of LeaseTable for TLC.                                         *)
EXTENDS LeaseTable

CONSTANTS s1, s2

MCDeadlines == 0 .. 1
MCGenerations == 1 .. 2

=============================================================================
