-------------------------- MODULE MCModelLifecycle --------------------------
(***************************************************************************)
(* Small instances of ModelLifecycle.                                      *)
(***************************************************************************)
EXTENDS ModelLifecycle, TLC

CONSTANTS w1, w2, r1, r2, a1, a2

\* Runners, requests and artifacts are interchangeable; the safety run says so.
Symmetry == Permutations({w1, w2}) \cup Permutations({r1, r2}) \cup Permutations({a1, a2})
=============================================================================
