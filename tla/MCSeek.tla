------------------------------- MODULE MCSeek -------------------------------
(* The instance of Seek for TLC.                                           *)
EXTENDS Seek

CONSTANTS h1

=============================================================================
