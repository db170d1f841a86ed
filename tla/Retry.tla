-------------------------------- MODULE Retry --------------------------------
(***************************************************************************)
(* The pure decisions lease_next takes about a message that was delivered  *)
(* before: exponential backoff (delivery/retry.rs) and dead-lettering      *)
(* (delivery/dead_letter.rs).  Times are in clock units; one unit stands   *)
(* for MIN_POSSIBLE_BACKOFF (100 ms), the floor under every backoff.       *)
(***************************************************************************)
EXTENDS Integers

Larger(a, b) == IF a >= b THEN a ELSE b
Smaller(a, b) == IF a <= b THEN a ELSE b

MIN_POSSIBLE_BACKOFF == 1

backoff_for_attempts(attempts, min_backoff, max_backoff) ==
    LET lo == Larger(Larger(min_backoff, 0), MIN_POSSIBLE_BACKOFF)
        hi == Larger(Larger(max_backoff, 0), lo)
        shift == Smaller(Larger(attempts - 1, 0), 20)
    IN Smaller(lo * 2^shift, hi)

next_eligible_at(now, attempts, min_backoff, max_backoff) ==
    now + backoff_for_attempts(attempts, min_backoff, max_backoff)

\* Mutant: one delivery too many.
should_dead_letter_late(prior_attempts, max_delivery_attempts) ==
    max_delivery_attempts > 0 /\ prior_attempts > max_delivery_attempts

\* max_delivery_attempts <= 0 stands for "no policy", with or without a topic.
should_dead_letter(prior_attempts, max_delivery_attempts) ==
    max_delivery_attempts > 0 /\ prior_attempts >= max_delivery_attempts

=============================================================================
