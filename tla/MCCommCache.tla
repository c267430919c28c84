----------------------------- MODULE MCCommCache -----------------------------
(***************************************************************************)
(* Model-checking instance of CommCache over a world of four PEs.          *)
(***************************************************************************)
EXTENDS CommCache

(* Shapes of collectives a program may issue: the whole world, the first  *)
(* two PEs (stride 1), every other PE (stride 2), PEs 2 and 3, PE 1 alone *)
(* and PEs 1..3.                                                           *)
MCShapes == {<<0, 0, 4>>, <<0, 0, 2>>, <<0, 1, 2>>, <<2, 0, 2>>, <<1, 0, 1>>,
             <<1, 0, 3>>}
=============================================================================
