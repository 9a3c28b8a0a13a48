------------------------------- MODULE MCBus -------------------------------
(* Bus with reads that start later than writes asked for after them. *)
EXTENDS Bus

MCDelays == {0, 3, 5}
=============================================================================
