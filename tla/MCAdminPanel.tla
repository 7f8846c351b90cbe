---------------------------- MODULE MCAdminPanel ----------------------------
(***************************************************************************)
(* Two sessions and two requests at a time, so that an answer for the      *)
(* first session can arrive while the page has the second.                 *)
(***************************************************************************)
EXTENDS AdminPanel, TLC

CONSTANTS s1, s2, c1, c2

MCIds == {s1, s2}
MCCalls == {c1, c2}
Symmetry == Permutations(MCIds) \union Permutations(MCCalls)
=============================================================================
