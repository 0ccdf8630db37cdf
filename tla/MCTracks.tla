------------------------------ MODULE MCTracks -------------------------------
(* Tracks for TLC: two channels, two calls of Track, two commands in progress, *)
(* a match and an error signal that comes again and again.                     *)
EXTENDS Tracks

CONSTANTS c1, c2, h1, h2, m1, e1
MCChannels == {c1, c2}
MCHandlers == {h1, h2}
MCMatches  == {m1, e1}
MCSignals  == {e1}
=============================================================================
