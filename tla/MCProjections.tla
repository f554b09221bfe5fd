--------------------------- MODULE MCProjections ---------------------------
(***************************************************************************)
(* Two writers of a stream with two events, two projectors, two versions   *)
(* of the reducer and one rebuild, appends of one or two events, pages of  *)
(* one: a page is seldom all there is.                                     *)
(***************************************************************************)
EXTENDS Projections, TLC

CONSTANTS w1, w2, e1, e2, p1, p2, s1, r1

Symmetric == Permutations(Writers) \cup Permutations(EventIds) \cup Permutations(Projectors)
=============================================================================
