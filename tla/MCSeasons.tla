----------------------------- MODULE MCSeasons -----------------------------
EXTENDS Seasons, TLC

Autumn == [year |-> 2026, month |-> 11]

MCShipped ==
    [season |-> 37, themed |-> TRUE, events |-> {}, rotation |-> FALSE, first |-> 0,
     last |-> 0, anchor |-> [year |-> 2026, month |-> 12], mode |-> "weekly", number |-> 0,
     themes |-> 0 :> {"swarm"} @@ 36 :> {"shards"} @@ 37 :> {"kanai"} @@ 39 :> {"clones"}]

(* A rotation over a bounded list with a gap, from a month to come, and an   *)
(* extra event; and one with added seasons, from a month long past, and a     *)
(* fixed rift.                                                                *)
MCFiles ==
    {[rotation |-> TRUE, first |-> 37, events |-> {"goblins"}],
     [rotation |-> TRUE, anchor |-> [year |-> 1970, month |-> 1], season |-> 36,
      themes |-> 420 :> {} @@ 36 :> {"kanai"}, mode |-> "fixed", number |-> 4]}

MCEvents == {"swarm", "shards", "kanai", "clones", "goblins"}

MCRifts == <<"r0", "r1">>

=============================================================================
