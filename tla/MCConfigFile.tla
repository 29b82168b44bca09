---------------------------- MODULE MCConfigFile ----------------------------
(* An instance of ConfigFile: sensitivities with a byte that ends a string, *)
(* ones that open or close an object, a pair that balances, and a blank;   *)
(* chunks that end at every symbol; and restarts enough for settings to be *)
(* saved and read back.                                                    *)
EXTENDS ConfigFile

MCBytes ==
  [v \in Value \cup {None} |->
     CASE v = None -> <<>>
       [] v = 15   -> <<"15", "15">>
       [] v = 32   -> <<" ", "32">>
       [] v = 34   -> <<"15", Q>>
       [] v = 123  -> <<"{", "15">>
       [] v = 125  -> <<"15", "}">>
       [] v = 150  -> <<"{", "}">>]
=============================================================================
