---------------------------- MODULE MCMai2Light -----------------------------
(* Two lamps, a ring of two messages read in one or two. *)
EXTENDS Mai2Light

MCLamps     == {0, 1}
MCColours   == {0, 1}
MCFadeTimes == {0, 2}
MCNodes     == {0}
MCAddresses == {0, 1, Broadcast}
=============================================================================
