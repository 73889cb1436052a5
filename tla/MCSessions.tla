----------------------------- MODULE MCSessions -----------------------------
(* Instances of Sessions for TLC.                                            *)
EXTENDS Sessions, TLC

CONSTANTS single, double, outside, red, blue

\* A user with one tenant, one with two and one with none.
MCMembers == [u \in Users |-> CASE u = single -> {red}
                                [] u = double -> {red, blue}
                                [] u = outside -> {}]

\* Requests, tokens and browsers are interchangeable.
Symmetry == Permutations(Procs) \cup Permutations(Tokens) \cup Permutations(Browsers)
=============================================================================
