------------------------------ MODULE MCScopes ------------------------------
(* Two menus under each other and one that may be added, with one button.    *)
EXTENDS Scopes

CONSTANTS m1, m2, m3, a1, r1, t1, t2

MCSeedParent == m1 :> Root @@ m2 :> m1
MCButtonMenu == a1 :> m2

MCSymmetry == Permutations(Tenants)
=============================================================================
