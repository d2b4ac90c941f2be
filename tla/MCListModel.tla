---------------------------- MODULE MCListModel ----------------------------
(* Three servers or results; one of the two askers is one of the servers.  *)
EXTENDS ListModel, TLC

CONSTANTS i1, i2, i3, a1, a2

MCItem == {i1, i2, i3}
MCOwn == (a1 :> i1) @@ (a2 :> None)

(* i2 and i3 are alike.                                                    *)
Symmetry == Permutations({i2, i3})
=============================================================================
