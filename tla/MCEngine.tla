------------------------------ MODULE MCEngine ------------------------------
(* Engine with both periodic outputs on, small delays around the ring size. *)
EXTENDS Engine

MCDelays == {0, 1, 3, 4, 6}
=============================================================================
