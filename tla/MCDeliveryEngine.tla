-------------------------- MODULE MCDeliveryEngine --------------------------
(* Instances of DeliveryEngine for TLC.                                    *)
EXTENDS DeliveryEngine, TLC

CONSTANTS s1, s2, h1, h2

\* The filter of s1 rejects the second message, that of s2 the first.
MCNoMatch == {<<s1, 2>>, <<s2, 1>>}

Symmetry == Permutations(Handlers)

=============================================================================
