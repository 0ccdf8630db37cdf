------------------------------- MODULE MCChat --------------------------------
(* Chat for TLC: two handlers, two listings that load and one that does not, *)
(* a table of two keys and two texts.                                        *)
EXTENDS Chat, TLC

CONSTANTS h1, h2, k1, k2, x
MCHandlers == {h1, h2}
MCAskers   == {h1}
MCRules    == {k1, k2}

\* If k1 is the last key, the first text is left as it is; if k2 is, the second
\* is fatal.
MCTexts == {[rules |-> {k1}, gi |-> {}], [rules |-> {k2}, gi |-> {k2}]}

Full == [period |-> 1, gap |-> 1, players |-> {x}, threshold |-> 2,
         channel |-> x, token |-> x, owner |-> x,
         tofa |-> x, tavily |-> x, searchTime |-> 1, askTime |-> 2]

\* The second disables the Khaleesi, has no model, and defaults for the budgets;
\* the third would change the search, but has no owner.
MCListings ==
    {Full,
     [Full EXCEPT !.threshold = Missing, !.tofa = Missing, !.searchTime = Bad, !.askTime = 0],
     [Full EXCEPT !.owner = Missing, !.tavily = Missing]}
=============================================================================
