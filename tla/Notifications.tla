---------------------------- MODULE Notifications ----------------------------
(***************************************************************************)
(* What the service promises to a Discord channel, whatever goroutines,    *)
(* caches, channels and retries it is made of: a match of a watched player *)
(* is posted to the channel at most once, and only after it was played.    *)
(* Not every match is posted, and re-tracking a channel may let a newer    *)
(* match overtake an older one.                                            *)
(***************************************************************************)
EXTENDS Naturals

CONSTANTS Players, Channels, MaxMatch

VARIABLES
    played,     \* number of matches a player has played
    posted      \* [Channels \X Players \X Ids -> 0 .. 1]

Init ==
    /\ played = [p \in Players |-> 0]
    /\ posted = [x \in Channels \X Players \X (1 .. MaxMatch) |-> 0]

Play(p) ==
    /\ played[p] < MaxMatch
    /\ played' = [played EXCEPT ![p] = @ + 1]
    /\ UNCHANGED posted

Post(c, p, i) ==
    /\ i <= played[p]
    /\ posted[<<c, p, i>>] = 0
    /\ posted' = [posted EXCEPT ![<<c, p, i>>] = 1]
    /\ UNCHANGED played

Next ==
    \E p \in Players :
        Play(p) \/ \E c \in Channels, i \in 1 .. MaxMatch : Post(c, p, i)

Spec == Init /\ [][Next]_<<played, posted>>
=============================================================================
