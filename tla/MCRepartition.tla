--------------------------- MODULE MCRepartition ---------------------------
(***************************************************************************)
(* Keys of two columns whose last one decides, and collide or not.         *)
(***************************************************************************)
EXTENDS Repartition

MCRows == {<<1, 1>>, <<2, 1>>, <<1, 2>>}
MCHash == <<3, 4>>
=============================================================================
