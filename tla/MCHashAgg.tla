----------------------------- MODULE MCHashAgg -----------------------------
(***************************************************************************)
(* Small tables whose keys collide at the last bucket.                     *)
(***************************************************************************)
EXTENDS HashAgg, TLC

CONSTANTS k1, k2, k3

MCHash == (k1 :> TableSize - 1) @@ (k2 :> 2 * TableSize - 1) @@ (k3 :> TableSize)

MCValues == {-2, 3, Null}
=============================================================================
