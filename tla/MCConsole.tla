---- MODULE MCConsole ----
(* Instance of Console for TLC: two requests of one user with two sessions *)
(* of two units, tokens of one and permissions that change once; three     *)
(* creators of versions of two prompts; two clients with two requests each *)
(* on a table of up to three rows; three rows at three times, read in      *)
(* pages of one and in buckets of two.                                     *)
EXTENDS Console, TLC

CONSTANTS c1, c2, s1, s2, q1, q2, q3, u1, u2, d1, d2, d3, n1, n2

MCCalls == {c1, c2}
MCSessionIds == {s1, s2}
MCRequests == {q1, q2, q3}
MCRepoIds == {u1, u2}
MCRowIds == {d1, d2, d3}
MCNames == {n1, n2}
MCLogIds == {1, 2, 3}

Symmetry == Permutations(MCCalls) \cup Permutations(MCSessionIds)
====
