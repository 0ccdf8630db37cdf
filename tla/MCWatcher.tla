------------------------------ MODULE MCWatcher ------------------------------
(***************************************************************************)
(* Watcher for TLC: two configuration entries, mapped to accounts and      *)
(* store keys in the ways a configuration can map them.                    *)
(***************************************************************************)
EXTENDS Watcher, TLC

CONSTANTS p1, p2

MCPlayers == {p1, p2}
\* Every entry its own account and every account its own store key: the same
\* model values stand for all three, which makes the two interchangeable.
MCOneToOne == [p \in MCPlayers |-> p]
MCSymmetry == Permutations(MCPlayers)
\* Two accounts that differ in the tag only share a store key.
MCSameName == [p \in MCPlayers |-> p1]
=============================================================================
