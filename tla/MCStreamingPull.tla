-------------------------- MODULE MCStreamingPull ---------------------------
(* Instances of StreamingPull for TLC.                                     *)
EXTENDS StreamingPull, TLC

CONSTANTS s1, a, b

MCHandlers == Streams \X {"send", "recv"}

Symmetry == Permutations(Streams)

=============================================================================
