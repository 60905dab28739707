--------------------------- MODULE MCRateLimiter ---------------------------
(***************************************************************************)
(* An instance of RateLimiter for TLC: the clock stops at MaxTime and a    *)
(* client is admitted at most MaxAdmissions times between two resets.      *)
(***************************************************************************)
EXTENDS RateLimiter, TLC

CONSTANTS MaxTime, MaxAdmissions

KeySymmetry == Permutations(Keys)

Bounded ==
    /\ now <= MaxTime
    /\ \A k \in Keys : Len(admitted[k]) <= MaxAdmissions
=============================================================================
