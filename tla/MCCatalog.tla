----------------------------- MODULE MCCatalog -----------------------------
(***************************************************************************)
(* A catalogue for TLC: two categories, the first of which overflows its   *)
(* part of the grid of numbers when both its services are offered.         *)
(***************************************************************************)
EXTENDS Catalog, TLC

CONSTANTS a, b, a1, a2, b1, f1, f2

MCCategories == <<a, b>>
MCServices == <<a1, a2, b1>>
MCCategoryOf == (a1 :> a) @@ (a2 :> a) @@ (b1 :> b)
MCOffers ==
    (f1 :> {(a1 :> {0, 1}) @@ (a2 :> {}) @@ (b1 :> {}),
            (a1 :> {0}) @@ (a2 :> {1}) @@ (b1 :> {})})
    @@ (f2 :> {(a1 :> {}) @@ (a2 :> {}) @@ (b1 :> {1})})
=============================================================================
