------------------------- MODULE MCGraphPreparation -------------------------
(* The shapes of inputs for checking GraphPreparation. *)
EXTENDS GraphPreparation

VectorsAndSquares == {<< 1 >>, << 1, 1 >>}
=============================================================================
