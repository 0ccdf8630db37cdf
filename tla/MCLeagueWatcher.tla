--------------------------- MODULE MCLeagueWatcher ---------------------------
(* LeagueWatcher for TLC: one player, two matches, one channel.              *)
EXTENDS LeagueWatcher, TLC

CONSTANTS p1, c1
MCPlayers  == {p1}
MCOneToOne == [p \in MCPlayers |-> p]
MCChannels == {c1}
=============================================================================
