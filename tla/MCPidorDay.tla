----------------------------- MODULE MCPidorDay ------------------------------
(* PidorStats for TLC: a channel, three users (one with a bad entry in the   *)
(* file), two commands in progress, two days, one import.  The second user   *)
(* takes the name the first had in the file; the third is renamed in between.*)
EXTENDS PidorStats

CONSTANTS c1, h1, h2
MCChannels == {c1}
MCHandlers == {h1, h2}
MCFile     == [c \in MCChannels |-> <<2, 0, 1>>]
MCNameOn   == <<[d \in 0 .. 2 |-> IF d = 0 THEN 1 ELSE 4],
                [d \in 0 .. 2 |-> 1],
                [d \in 0 .. 2 |-> IF d = 2 THEN 3 ELSE 2]>>
=============================================================================
