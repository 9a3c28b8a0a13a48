--------------------------- MODULE MCOldPolicies ---------------------------
(* Two processes of two pages each that share a policy with two frames. *)
EXTENDS OldPolicies

Flags(second, aging, history, pending) ==
    [second |-> second, aging |-> aging, history |-> history, pending |-> pending]
MCFlags == {Flags(TRUE, TRUE, TRUE, TRUE), Flags(FALSE, FALSE, TRUE, FALSE)}

MCTrace == [p \in Pages |-> IF p = <<0, 0>> THEN <<1, 0, 2>> ELSE IF p[2] = 0 THEN <<0, 3, 1>> ELSE <<2, 1, 0>>]
MCWeights == <<2, 1>>
MCPages == {<<0, 0>>, <<0, 1>>, <<0, 2>>, <<1, 0>>}
=============================================================================
