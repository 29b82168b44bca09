---------------------------- MODULE MCKeyboards ----------------------------
(* Two buttons, one of which shares its key with a touch mapping, a mapping  *)
(* that triggers once, and two keyboards of one key each.                    *)
EXTENDS Keyboards

MCKey       == {"W", "E", "SPACE"}
MCSupported == <<"E", "W", "SPACE">>
MCPin       == {1, 2}
MCPinKey    == <<"W", "E">>
MCMappings  == <<[areas |-> {"A1"}, hold |-> 1, key |-> "W", once |-> FALSE],
                 [areas |-> {"A1", "B1"}, hold |-> 1, key |-> "SPACE", once |-> TRUE]>>
MCIdBits    == (0 :> {0} @@ 4 :> {1})
MCPlaced    == {<<0, 0>>, <<4, 1>>}
=============================================================================
