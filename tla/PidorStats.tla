------------------------------ MODULE PidorStats ------------------------------
(***************************************************************************)
(* What the channel is told about its rolls: !pidorstats and !pidorok      *)
(* (bot/pidor.go) over Stats (bot/repository/pidor_store_pg.go).  Both     *)
(* commands only read: what they would answer is a function of the table,  *)
(* at any moment of PidorDay.                                              *)
(***************************************************************************)
EXTENDS PidorDay

CONSTANTS
    NameOn,     \* a user's name on a day; on day 0, that of the file
    StatsLen    \* pidorStatsLen: how many rows are shown (10 in the code)

ASSUME StatsAssumption ==
    /\ NameOn \in [Users -> [0 .. MaxDay -> Nat]]
    /\ StatsLen \in Nat \ {0}

S == INSTANCE SequencesExt
F == INSTANCE FiniteSetsExt

Times(rows) == F!MapThenSumSet(LAMBDA x : x.times, rows)
RowsOf(c)   == {x \in rolls : x.channel = c}

\* Stats: who has rows, with the name on the latest of them, and the sum.
Stats(c) ==
    LET Own(u)    == {x \in RowsOf(c) : x.user = u}
        Latest(u) == F!Max({x.on : x \in Own(u)} \cup {0})
    IN {[user |-> u, name |-> NameOn[u][Latest(u)], count |-> Times(Own(u))] :
            u \in {x.user : x \in RowsOf(c)}}

\* MUTANT of Precedes: the counts are compared the wrong way round.
PrecedesUp(a, b) ==
    \/ a.count < b.count
    \/ a.count = b.count /\ a.name < b.name

\* The order of sortPidors.
Precedes(a, b) ==
    \/ a.count > b.count
    \/ a.count = b.count /\ a.name < b.name

\* The rows of a random walk over the map, by a sort that is not stable: those
\* that are equal in both come in any order.
sortPidors(stats) ==
    {rows \in S!SetToSeqs(stats) :
        \A i, j \in 1 .. Len(rows) : i < j => ~Precedes(rows[j], rows[i])}

\* !pidorok: the first row with the author's name.
Rating(rows, v) == S!SelectInSeq(rows, LAMBDA a : a.name = v.name)

\* !pidorstats: the sum of all rows, and the first few of them.
Total(stats) == F!MapThenSumSet(LAMBDA v : v.count, stats)
Shown(rows)  == SubSeq(rows, 1, F!Min({Len(rows), StatsLen}))

-----------------------------------------------------------------------------
(* Properties *)

Place(stats, v) == 1 + Cardinality({a \in stats : a.count > v.count})
Ties(stats, v)  == Cardinality({a \in stats \ {v} : a.count = v.count})
Alone(stats, v) == \A a \in stats \ {v} : a.name # v.name /\ a.count # v.count

\* The statistics agree with the rolls.  Who is told a place holds no worse one;
\* it is his own if no other has his name or his count, whatever names were
\* recorded before and after an import or a late roll.  The total is what was
\* rolled, live and before, and nobody left out beats one who is shown, in
\* whatever order the sort leaves equal rows.
StatsTrue ==
    \A c \in Channels :
        LET stats == Stats(c)
        IN /\ Total(stats) = Times(RowsOf(c))
           /\ sortPidors(stats) # {}
           /\ \A rows \in sortPidors(stats) :
                LET shown == S!ToSet(Shown(rows)) IN
                /\ \A v \in stats :
                     /\ Rating(rows, v) \in 1 .. Place(stats, v) + Ties(stats, v)
                     /\ Alone(stats, v) => Rating(rows, v) = Place(stats, v)
                /\ \A v \in stats \ shown, a \in shown : a.count >= v.count
=============================================================================
