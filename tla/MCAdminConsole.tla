--------------------------- MODULE MCAdminConsole ---------------------------
(***************************************************************************)
(* One product with two variants, worked on in one console.                *)
(***************************************************************************)
EXTENDS AdminConsole, TLC

CONSTANTS a, p1, v1, v2, r1, r2, i1, g1, g2, x, y, full, k1, k2

MCSymmetry ==
  Permutations(Variants) \cup Permutations(Prices) \cup Permutations(Categories)
    \cup Permutations(Handlers)

=============================================================================
