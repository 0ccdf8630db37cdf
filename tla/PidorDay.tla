------------------------------- MODULE PidorDay -------------------------------
(***************************************************************************)
(* The daily roll of a channel: the handlers of !pidorday (bot/pidor.go),  *)
(* the table pidor_rolls behind them (bot/repository/pidor_store_pg.go and *)
(* db/migrations/0002_pidor_rolls.up.sql), and the import of the old JSON  *)
(* statistics (tools/pidors-backfill), which rewrites that table.          *)
(*                                                                         *)
(* Handlers run concurrently, each in a goroutine of its own.  The bot can *)
(* die at any step and comes back with no memory of its handlers.          *)
(***************************************************************************)
EXTENDS Integers, Sequences, FiniteSets

CONSTANTS
    Channels,
    MaxUser,    \* users are numbered in the order of their ids
    Handlers,   \* bound: commands in progress at a time
    MaxDay,     \* bound: days
    MaxImports, \* bound: committed imports
    File        \* pidors.json: the count of a user in a channel, <= 0 if bad

ASSUME PidorAssumption ==
    /\ MaxUser \in Nat \ {0} /\ MaxDay \in Nat \ {0} /\ MaxImports \in Nat
    /\ Channels # {} /\ IsFiniteSet(Handlers)
    /\ File \in [Channels -> [1 .. MaxUser -> Int]]

VARIABLES
    rolls,      \* the rows of pidor_rolls that are committed
    today,      \* the date in Moscow
    hpc, hch, hwin, hday,   \* a handler: where it is, channel, winner, date
    bf,         \* where the import's transaction is
    backup,     \* the snapshot it took
    imports,    \* number of committed imports
    backups,    \* rows in the backup tables of committed imports
    told,       \* history: winners announced for a channel and a date
    ever,       \* history: rolls recorded
    late        \* history: those recorded between a snapshot and its TRUNCATE

handlerVars == <<hpc, hch, hwin, hday>>
importVars  == <<bf, backup, imports, backups>>
vars        == <<rolls, today, handlerVars, importVars, told, ever, late>>

Users == 1 .. MaxUser
Days  == 1 .. MaxDay

\* Rows: channel_id, user_id, rolled_on, times_rolled.  The synthetic dates of
\* imported rows, 1970-01-01 and on, are the numbers up to 0.
Row == [channel : Channels, user : Users, on : (1 - MaxUser) .. MaxDay,
        times : Nat]
Roll(c, u, d) == [channel |-> c, user |-> u, on |-> d, times |-> 1]
Live(rows)    == {x \in rows : x.on >= 1}

TypeOK ==
    /\ \A rows \in {rolls, backup, backups} : rows \subseteq Row
    /\ today \in Days
    /\ hpc \in [Handlers -> {"idle", "members", "choose", "won"}]
    /\ hch \in [Handlers -> Channels]
    /\ hwin \in [Handlers -> Users]
    /\ hday \in [Handlers -> Days]
    /\ bf \in {"idle", "backed", "truncated"}
    /\ imports \in 0 .. MaxImports
    /\ told \in [Channels \X Days -> Seq(Users)]
    /\ late \subseteq ever /\ ever \subseteq Row
    /\ \A x, y \in rolls : x.channel = y.channel /\ x.on = y.on => x = y

Init ==
    /\ rolls = {}
    /\ today = 1
    /\ hpc = [h \in Handlers |-> "idle"]
    /\ hch = [h \in Handlers |-> CHOOSE c \in Channels : TRUE]
    /\ hwin = [h \in Handlers |-> 1]
    /\ hday = [h \in Handlers |-> 1]
    /\ bf = "idle" /\ backup = {} /\ imports = 0 /\ backups = {}
    /\ told = [cd \in Channels \X Days |-> <<>>]
    /\ ever = {} /\ late = {}

-----------------------------------------------------------------------------
(* !pidorday *)

Handler(h, from, to) == hpc[h] = from /\ hpc' = [hpc EXCEPT ![h] = to]

dbRest == <<rolls, importVars, ever, late>>

PidorCmd(h, c) ==
    /\ Handler(h, "idle", "members")
    /\ hch' = [hch EXCEPT ![h] = c]
    /\ UNCHANGED <<hwin, hday, today, dbRest, told>>

\* The members arrive; one who is no bot is drawn, then the date is read.
Draw(h, u) ==
    /\ Handler(h, "members", "choose")
    /\ hwin' = [hwin EXCEPT ![h] = u]
    /\ hday' = [hday EXCEPT ![h] = today]
    /\ UNCHANGED <<hch, today, dbRest, told>>

\* The early returns of the handler: nobody to draw, the call to Discord or the
\* statement fails, another one has today's slot.
GiveUp(h) ==
    /\ hpc[h] # "idle"
    /\ Handler(h, hpc[h], "idle")
    /\ UNCHANGED <<hch, hwin, hday, today, dbRest, told>>

Slot(c, d) == {x \in rolls : x.channel = c /\ x.on = d}

Record(h) ==
    LET x == Roll(hch[h], hwin[h], hday[h]) IN
    /\ rolls' = rolls \cup {x}
    /\ ever' = ever \cup {x}
    /\ late' = IF bf = "backed" THEN late \cup {x} ELSE late \ {x}

\* MUTANT of TryChooseToday: the table has no unique constraint.
TryChooseUnchecked(h) ==
    /\ bf # "truncated"
    /\ Record(h)
    /\ Handler(h, "choose", "won")
    /\ UNCHANGED <<hch, hwin, hday, today, importVars, told>>

\* The INSERT .. ON CONFLICT DO NOTHING returns an id if the slot was free.  If
\* the answer is lost the row is there all the same and the handler reports a
\* database error.  A TRUNCATE that is not committed holds it up.
TryChooseToday(h) ==
    /\ bf # "truncated"
    /\ Slot(hch[h], hday[h]) = {}
    /\ Record(h)
    /\ Handler(h, "choose", "won") \/ Handler(h, "choose", "idle")
    /\ UNCHANGED <<hch, hwin, hday, today, importVars, told>>

Announce(h) ==
    /\ Handler(h, "won", "idle")
    /\ told' = [told EXCEPT ![<<hch[h], hday[h]>>] = Append(@, hwin[h])]
    /\ UNCHANGED <<hch, hwin, hday, today, dbRest>>

Restart ==
    /\ hpc' = [h \in Handlers |-> "idle"]
    /\ UNCHANGED <<hch, hwin, hday, today, dbRest, told>>

Midnight ==
    /\ today < MaxDay
    /\ today' = today + 1
    /\ UNCHANGED <<handlerVars, dbRest, told>>

-----------------------------------------------------------------------------
(* pidors-backfill: one transaction *)

Valid(c) == {u \in Users : File[c][u] > 0}

\* MUTANT of PlanRows: every row of a channel gets the first synthetic date.
PlanSameDate ==
    UNION {{[channel |-> c, user |-> u, on |-> 1 - MaxUser,
             times |-> File[c][u]] : u \in Valid(c)} : c \in Channels}

\* computePlan: the valid users of a channel, in the order of their ids, get
\* consecutive synthetic dates.
PlanRows ==
    LET Rank(c, u) == Cardinality({w \in Valid(c) : w < u})
    IN UNION {{[channel |-> c, user |-> u, on |-> Rank(c, u) + 1 - MaxUser,
                times |-> File[c][u]] : u \in Valid(c)} : c \in Channels}

importRest == <<today, handlerVars, told, ever, late>>

ImportSnapshot ==       \* CREATE TABLE .. AS TABLE, which blocks nobody
    /\ bf = "idle" /\ imports < MaxImports
    /\ bf' = "backed"
    /\ backup' = rolls
    /\ UNCHANGED <<rolls, imports, backups, importRest>>

\* MUTANT of ImportTruncate: the snapshot is taken of the emptied table.
ImportTruncateFirst ==
    /\ bf = "backed"
    /\ bf' = "truncated"
    /\ backup' = {}
    /\ UNCHANGED <<rolls, imports, backups, importRest>>

ImportTruncate ==       \* from here on the table is locked
    /\ bf = "backed"
    /\ bf' = "truncated"
    /\ UNCHANGED <<rolls, backup, imports, backups, importRest>>

ImportCommit ==         \* the INSERTs of the plan, COMMIT
    /\ bf = "truncated"
    /\ bf' = "idle"
    /\ rolls' = PlanRows
    /\ backups' = backups \cup backup
    /\ backup' = {}
    /\ imports' = imports + 1
    /\ UNCHANGED importRest

ImportFail ==
    /\ bf # "idle"
    /\ bf' = "idle"
    /\ backup' = {}
    /\ UNCHANGED <<rolls, imports, backups, importRest>>

Next ==
    \/ \E h \in Handlers :
         \/ \E c \in Channels : PidorCmd(h, c)
         \/ \E u \in Users : Draw(h, u)
         \/ GiveUp(h) \/ TryChooseToday(h) \/ Announce(h)
    \/ Restart \/ Midnight
    \/ ImportSnapshot \/ ImportTruncate \/ ImportCommit \/ ImportFail

Spec == Init /\ [][Next]_vars

-----------------------------------------------------------------------------
(* Properties *)

\* A day of a channel has one winner: two announcements for it need an import
\* between them, and without an import what was announced is on record.
OneWinner ==
    \A c \in Channels, d \in Days :
        /\ Len(told[<<c, d>>]) <= 1 + imports
        /\ imports = 0 =>
             \A i \in 1 .. Len(told[<<c, d>>]) :
                 Roll(c, told[<<c, d>>][i], d) \in rolls

\* Every roll ever recorded is in the table or in the backup of an import,
\* unless it was recorded between the snapshot and the TRUNCATE of one.
Recoverable == ever \subseteq rolls \cup backups \cup late
=============================================================================
