------------------------------ MODULE PidorProofs ------------------------------
(***************************************************************************)
(* Proofs about PidorDay and PidorStats, for any channels, users, days,    *)
(* names, statistics file, number of imports and any finite number of      *)
(* commands in progress.                                                   *)
(*                                                                         *)
(* For OneWinner, the announcements for a day, the handlers that are about *)
(* to make one, and the slot if it is free, are counted together: only an  *)
(* import adds to them, and it adds one.  For Recoverable, whatever an     *)
(* import is going to remove is in its snapshot or came too late for it.   *)
(*                                                                         *)
(* For StatsTrue, a sum over a set is the number of units its elements     *)
(* weigh, so that sums of disjoint sets add up by counting; a sorted list  *)
(* exists because the number of lines that come before one is its place.   *)
(***************************************************************************)
EXTENDS PidorStats, FiniteSetTheorems, TLAPS

-----------------------------------------------------------------------------
(* What the import writes *)

Rank(c, u) == Cardinality({w \in Valid(c) : w < u})

LEMMA RankType ==
    ASSUME NEW c \in Channels, NEW u \in Users
    PROVE  /\ IsFiniteSet({w \in Valid(c) : w < u})
           /\ Rank(c, u) \in 0 .. u - 1
<1> USE PidorAssumption
<1> DEFINE B == {w \in Valid(c) : w < u}
<1>1. B \subseteq 1 .. u - 1
  BY DEF Valid, Users
<1>2. /\ IsFiniteSet(1 .. u - 1)
      /\ Cardinality(1 .. u - 1) = (IF 1 > u - 1 THEN 0 ELSE u - 1 - 1 + 1)
  BY FS_Interval DEF Users
<1>3. IsFiniteSet(B) /\ Cardinality(B) <= Cardinality(1 .. u - 1)
  BY <1>1, <1>2, FS_Subset
<1>4. Cardinality(B) \in Nat
  BY <1>3, FS_CardinalityType
<1> QED BY <1>2, <1>3, <1>4 DEF Rank, Users

\* Users of a channel get different dates.
LEMMA RankGrows ==
    ASSUME NEW c \in Channels, NEW u \in Valid(c), NEW v \in Users, u < v
    PROVE  Rank(c, u) < Rank(c, v)
<1> USE PidorAssumption
<1> DEFINE B(x) == {w \in Valid(c) : w < x}
<1>1. u \in Users
  BY DEF Valid
<1>2. /\ IsFiniteSet(B(u)) /\ IsFiniteSet(B(v))
      /\ Cardinality(B(u)) \in Nat
  <2>1. IsFiniteSet(B(u)) /\ IsFiniteSet(B(v))
    BY <1>1, RankType
  <2> QED BY <2>1, FS_CardinalityType
<1>3. B(u) \cup {u} \subseteq B(v) /\ u \notin B(u)
  BY <1>1 DEF Users, Valid
<1>4. Cardinality(B(u) \cup {u}) = Cardinality(B(u)) + 1
  BY <1>2, <1>3, FS_AddElement
<1>5. Cardinality(B(u) \cup {u}) <= Cardinality(B(v))
  BY <1>2, <1>3, FS_Subset
<1>6. Cardinality(B(v)) \in Nat
  BY <1>2, FS_CardinalityType
<1> QED BY <1>2, <1>4, <1>5, <1>6 DEF Rank

PlanRow(c, u) == [channel |-> c, user |-> u, on |-> Rank(c, u) + 1 - MaxUser,
                  times |-> File[c][u]]

\* The plan has rows of the past, one per channel and date.
LEMMA PlanTypes ==
    /\ PlanRows \subseteq Row
    /\ \A x \in PlanRows : x.on < 1
    /\ \A x, y \in PlanRows : x.channel = y.channel /\ x.on = y.on => x = y
<1> USE PidorAssumption
<1>1. \A x \in PlanRows : \E c \in Channels : \E u \in Valid(c) : x = PlanRow(c, u)
  BY DEF PlanRows, Rank, PlanRow
<1>2. ASSUME NEW c \in Channels, NEW u \in Valid(c)
      PROVE  /\ u \in Users /\ File[c][u] \in Nat
             /\ Rank(c, u) \in 0 .. u - 1
  <2>1. u \in Users /\ File[c][u] > 0
    BY DEF Valid
  <2>2. File[c][u] \in Int
    BY <2>1 DEF Users
  <2>3. Rank(c, u) \in 0 .. u - 1
    BY <2>1, RankType
  <2> QED BY <2>1, <2>2, <2>3
<1>3. ASSUME NEW x \in PlanRows PROVE x \in Row /\ x.on < 1
  <2>1. PICK c \in Channels : \E u \in Valid(c) : x = PlanRow(c, u)
    BY <1>1
  <2>2. PICK u \in Valid(c) : x = PlanRow(c, u)
    BY <2>1
  <2> QED BY <1>2, <2>2 DEF PlanRow, Row, Users
<1>4. ASSUME NEW x \in PlanRows, NEW y \in PlanRows,
             x.channel = y.channel, x.on = y.on
      PROVE  x = y
  <2>1. PICK c \in Channels : \E u \in Valid(c) : x = PlanRow(c, u)
    BY <1>1
  <2>2. PICK u \in Valid(c) : x = PlanRow(c, u)
    BY <2>1
  <2>3. PICK d \in Channels : \E v \in Valid(d) : y = PlanRow(d, v)
    BY <1>1
  <2>4. PICK v \in Valid(d) : y = PlanRow(d, v)
    BY <2>3
  <2>5. c = d /\ Rank(c, u) + 1 - MaxUser = Rank(d, v) + 1 - MaxUser
    BY <1>4, <2>2, <2>4 DEF PlanRow
  <2>6. /\ u \in Users /\ v \in Users
        /\ Rank(c, u) \in Int /\ Rank(d, v) \in Int
    BY <1>2 DEF Users
  <2>7. Rank(c, u) = Rank(c, v)
    BY <2>5, <2>6
  <2>8. ~(u < v) /\ ~(v < u)
    BY <2>5, <2>6, <2>7, RankGrows
  <2>9. u = v
    BY <2>6, <2>8 DEF Users
  <2> QED BY <2>2, <2>4, <2>5, <2>9
<1> QED BY <1>3, <1>4

-----------------------------------------------------------------------------
(* Types *)

LEMMA RollType ==
    ASSUME NEW c \in Channels, NEW u \in Users, NEW d \in Days
    PROVE  Roll(c, u, d) \in Row
BY PidorAssumption DEF Roll, Row, Days, Users

\* An import under way is one that is still allowed.
TypeInv == TypeOK /\ (bf # "idle" => imports < MaxImports)

LEMMA TypeInit == Init => TypeInv
<1> USE PidorAssumption DEF TypeInv
<1> SUFFICES ASSUME Init PROVE TypeInv
  OBVIOUS
<1>1. (CHOOSE c \in Channels : TRUE) \in Channels
  OBVIOUS
<1>2. 1 \in Users /\ 1 \in Days
  BY DEF Users, Days
<1> QED BY <1>1, <1>2 DEF Init, TypeOK, Row

LEMMA TypeStep == TypeInv /\ [Next]_vars => TypeInv'
<1> USE PidorAssumption DEF TypeOK, TypeInv
<1> SUFFICES ASSUME TypeInv, [Next]_vars PROVE TypeInv'
  OBVIOUS
<1> USE DEF dbRest, importVars, handlerVars, importRest
<1>1. ASSUME NEW h \in Handlers, NEW c \in Channels, PidorCmd(h, c)
      PROVE  TypeInv'
  BY <1>1 DEF PidorCmd, Handler
<1>2. ASSUME NEW h \in Handlers, NEW u \in Users, Draw(h, u)
      PROVE  TypeInv'
  BY <1>2 DEF Draw, Handler
<1>3. ASSUME NEW h \in Handlers, GiveUp(h)
      PROVE  TypeInv'
  BY <1>3 DEF GiveUp, Handler
<1>4. ASSUME NEW h \in Handlers, TryChooseToday(h)
      PROVE  TypeInv'
  <2> DEFINE x == Roll(hch[h], hwin[h], hday[h])
  <2>1. x \in Row /\ x.channel = hch[h] /\ x.on = hday[h]
    <3>1. hch[h] \in Channels /\ hwin[h] \in Users /\ hday[h] \in Days
      OBVIOUS
    <3> QED BY <3>1, RollType DEF Roll
  <2>2. /\ rolls' = rolls \cup {x} /\ ever' = ever \cup {x}
        /\ late' \in {late \cup {x}, late \ {x}}
    BY <1>4 DEF TryChooseToday, Record
  <2>3. \A y \in rolls : ~(y.channel = x.channel /\ y.on = x.on)
    BY <1>4, <2>1 DEF TryChooseToday, Slot
  <2>4. hpc' \in [Handlers -> {"idle", "members", "choose", "won"}]
    BY <1>4 DEF TryChooseToday, Handler
  <2>5. UNCHANGED <<hch, hwin, hday, today, importVars, told>>
    BY <1>4 DEF TryChooseToday
  <2> HIDE DEF x
  <2>6. late' \subseteq ever' /\ ever' \subseteq Row /\ rolls' \subseteq Row
    BY <2>1, <2>2
  <2>7. \A y, z \in rolls' : y.channel = z.channel /\ y.on = z.on => y = z
    BY <2>2, <2>3
  <2> QED BY <2>4, <2>5, <2>6, <2>7
<1>5. ASSUME NEW h \in Handlers, Announce(h)
      PROVE  TypeInv'
  <2>1. told' \in [Channels \X Days -> Seq(Users)]
    BY <1>5 DEF Announce
  <2> QED BY <1>5, <2>1 DEF Announce, Handler
<1>6. CASE Restart
  BY <1>6 DEF Restart
<1>7. CASE Midnight
  BY <1>7 DEF Midnight, Days
<1>8. CASE ImportSnapshot
  BY <1>8 DEF ImportSnapshot
<1>9. CASE ImportTruncate
  BY <1>9 DEF ImportTruncate
<1>10. CASE ImportCommit
  <2>1. imports' \in 0 .. MaxImports
    BY <1>10 DEF ImportCommit
  <2>2. rolls' \subseteq Row /\ backup' \subseteq Row /\ backups' \subseteq Row
    BY <1>10, PlanTypes DEF ImportCommit
  <2>3. \A y, z \in rolls' : y.channel = z.channel /\ y.on = z.on => y = z
    BY <1>10, PlanTypes DEF ImportCommit
  <2> QED BY <1>10, <2>1, <2>2, <2>3 DEF ImportCommit
<1>11. CASE ImportFail
  BY <1>11 DEF ImportFail
<1>12. CASE UNCHANGED vars
  BY <1>12 DEF vars
<1> QED
  BY <1>1, <1>2, <1>3, <1>4, <1>5, <1>6, <1>7, <1>8, <1>9, <1>10, <1>11, <1>12
     DEF Next

\* Types hold, and no two rows of the table share a channel and a date.
THEOREM TypeCorrect == Spec => []TypeOK
<1>1. TypeInv => TypeOK
  BY DEF TypeInv
<1> QED BY <1>1, TypeInit, TypeStep, PTL DEF Spec

-----------------------------------------------------------------------------
(* What an import removes *)

RemovedKept == bf # "idle" => rolls \subseteq backup \cup late

RecoverInv == TypeInv /\ RemovedKept /\ Recoverable

LEMMA RecoverStep ==
    ASSUME RecoverInv, [Next]_vars
    PROVE  RemovedKept' /\ Recoverable'
<1> USE DEF RecoverInv, RemovedKept, Recoverable, TypeInv, TypeOK
<1> USE DEF dbRest, importVars, handlerVars, importRest
<1>1. ASSUME NEW h \in Handlers,
             \/ \E c \in Channels : PidorCmd(h, c)
             \/ \E u \in Users : Draw(h, u)
             \/ GiveUp(h) \/ Announce(h)
      PROVE  RemovedKept' /\ Recoverable'
  BY <1>1 DEF PidorCmd, Draw, GiveUp, Announce
<1>2. ASSUME NEW h \in Handlers, TryChooseToday(h)
      PROVE  RemovedKept' /\ Recoverable'
  <2> DEFINE x == Roll(hch[h], hwin[h], hday[h])
  <2>1. /\ rolls' = rolls \cup {x} /\ ever' = ever \cup {x}
        /\ late' = IF bf = "backed" THEN late \cup {x} ELSE late \ {x}
    BY <1>2 DEF TryChooseToday, Record
  <2>2. bf \in {"idle", "backed"} /\ UNCHANGED <<bf, backup, backups>>
    BY <1>2 DEF TryChooseToday
  <2> HIDE DEF x
  <2> QED BY <2>1, <2>2
<1>3. CASE Restart \/ Midnight
  BY <1>3 DEF Restart, Midnight
<1>4. CASE ImportSnapshot
  BY <1>4 DEF ImportSnapshot
<1>5. CASE ImportTruncate
  BY <1>5 DEF ImportTruncate
<1>6. CASE ImportCommit
  BY <1>6 DEF ImportCommit
<1>7. CASE ImportFail
  BY <1>7 DEF ImportFail
<1>8. CASE UNCHANGED vars
  BY <1>8 DEF vars
<1> QED BY <1>1, <1>2, <1>3, <1>4, <1>5, <1>6, <1>7, <1>8 DEF RecoverInv, Next

\* A roll is lost only if it was recorded between a snapshot and its TRUNCATE.
THEOREM RecoverableHolds == Spec => []Recoverable
<1>1. Init => RecoverInv
  BY TypeInit DEF Init, RecoverInv, RemovedKept, Recoverable
<1>2. RecoverInv /\ [Next]_vars => RecoverInv'
  BY TypeStep, RecoverStep DEF RecoverInv
<1>3. RecoverInv => Recoverable
  BY DEF RecoverInv
<1> QED BY <1>1, <1>2, <1>3, PTL DEF Spec

-----------------------------------------------------------------------------
(* Announcements of a day *)

\* The handlers that are about to announce a winner of the day, and the slot
\* of the day as long as one of them can still take it.
Pending(c, d) ==
    {h \in Handlers : hpc[h] = "won" /\ hch[h] = c /\ hday[h] = d}
Free(c, d) == IF Slot(c, d) = {} THEN 1 ELSE 0

Counted(c, d) ==
    Len(told[<<c, d>>]) + Cardinality(Pending(c, d)) + Free(c, d) <= 1 + imports

OnRecord(c, d) ==
    imports = 0 =>
        /\ \A i \in 1 .. Len(told[<<c, d>>]) :
             Roll(c, told[<<c, d>>][i], d) \in rolls
        /\ \A h \in Pending(c, d) : Roll(c, hwin[h], d) \in rolls

WinnerInv ==
    TypeInv /\ \A c \in Channels, d \in Days : Counted(c, d) /\ OnRecord(c, d)

LEMMA PendingFinite ==
    ASSUME NEW c, NEW d
    PROVE  /\ IsFiniteSet(Pending(c, d)) /\ Cardinality(Pending(c, d)) \in Nat
           /\ \A P : P \subseteq Pending(c, d) =>
                  IsFiniteSet(P) /\ Cardinality(P) \in Nat
                  /\ Cardinality(P) <= Cardinality(Pending(c, d))
<1>1. Pending(c, d) \subseteq Handlers
  BY DEF Pending
<1>2. IsFiniteSet(Pending(c, d))
  BY <1>1, PidorAssumption, FS_Subset
<1> QED BY <1>2, FS_Subset, FS_CardinalityType

LEMMA WinnerInit == Init => WinnerInv
<1> SUFFICES ASSUME Init, NEW c \in Channels, NEW d \in Days
             PROVE  Counted(c, d) /\ OnRecord(c, d)
  BY TypeInit DEF WinnerInv
<1>1. Pending(c, d) = {} /\ told[<<c, d>>] = <<>> /\ imports = 0
  BY DEF Init, Pending
<1>2. Cardinality(Pending(c, d)) = 0
  BY <1>1, FS_EmptySet
<1> QED BY <1>1, <1>2 DEF Counted, OnRecord, Free

\* A step that announces nothing, changes no row and brings no handler to
\* "won" disturbs nothing.
LEMMA WinnerFrame ==
    ASSUME WinnerInv, TypeInv', NEW c \in Channels, NEW d \in Days,
           UNCHANGED <<rolls, told, imports>>,
           \A h \in Handlers :
               hpc'[h] = "won" => hpc[h] = "won" /\ hch'[h] = hch[h]
                                  /\ hwin'[h] = hwin[h] /\ hday'[h] = hday[h]
    PROVE  Counted(c, d)' /\ OnRecord(c, d)'
<1> USE DEF WinnerInv, TypeInv, TypeOK
<1>1. Pending(c, d)' \subseteq Pending(c, d)
  BY DEF Pending
<1>2. Cardinality(Pending(c, d)') <= Cardinality(Pending(c, d))
      /\ Cardinality(Pending(c, d)') \in Nat
      /\ Cardinality(Pending(c, d)) \in Nat
  BY <1>1, PendingFinite
<1>3. Counted(c, d) /\ OnRecord(c, d)
  OBVIOUS
<1>4. Free(c, d)' = Free(c, d) /\ Free(c, d) \in {0, 1}
  BY DEF Free, Slot
<1>5. Len(told[<<c, d>>]) \in Nat /\ imports \in Nat
  OBVIOUS
<1>6. Counted(c, d)'
  BY <1>2, <1>3, <1>4, <1>5 DEF Counted
<1>7. \A h \in Pending(c, d)' : h \in Pending(c, d) /\ hwin'[h] = hwin[h]
  BY <1>1 DEF Pending
<1>8. OnRecord(c, d)'
  BY <1>3, <1>7 DEF OnRecord
<1> QED BY <1>6, <1>8

LEMMA WinnerChoose ==
    ASSUME WinnerInv, NEW h \in Handlers, TryChooseToday(h),
           NEW c \in Channels, NEW d \in Days
    PROVE  Counted(c, d)' /\ OnRecord(c, d)'
<1> USE DEF WinnerInv, TypeInv, TypeOK
<1> DEFINE x == Roll(hch[h], hwin[h], hday[h])
<1>1. /\ hch[h] \in Channels /\ hwin[h] \in Users /\ hday[h] \in Days
      /\ x.channel = hch[h] /\ x.on = hday[h]
  BY DEF Roll
<1>2. rolls' = rolls \cup {x} /\ UNCHANGED <<told, imports, hch, hwin, hday>>
  BY DEF TryChooseToday, Record, importVars
<1>3. hpc[h] = "choose" /\ hpc' \in {[hpc EXCEPT ![h] = "won"],
                                   [hpc EXCEPT ![h] = "idle"]}
  BY DEF TryChooseToday, Handler
<1>4. Counted(c, d) /\ OnRecord(c, d)
  OBVIOUS
<1>5. h \notin Pending(c, d)
  BY <1>3 DEF Pending
<1>6. Len(told[<<c, d>>]) \in Nat /\ imports \in Nat
  OBVIOUS
<1>7. /\ IsFiniteSet(Pending(c, d)) /\ Cardinality(Pending(c, d)) \in Nat
  BY PendingFinite
<1> HIDE DEF x
<1>8. CASE c = hch[h] /\ d = hday[h]
  <2>1. Free(c, d) = 1
    BY <1>8 DEF TryChooseToday, Free
  <2>2. Free(c, d)' = 0
    <3>1. x \in Slot(c, d)'
      BY <1>1, <1>2, <1>8 DEF Slot
    <3> QED BY <3>1 DEF Free
  <2>3. Pending(c, d)' \subseteq Pending(c, d) \cup {h}
    BY <1>2, <1>3 DEF Pending
  <2>4. /\ Cardinality(Pending(c, d) \cup {h}) = Cardinality(Pending(c, d)) + 1
        /\ IsFiniteSet(Pending(c, d) \cup {h})
    BY <1>5, <1>7, FS_AddElement
  <2>5. /\ Cardinality(Pending(c, d)') <= Cardinality(Pending(c, d)) + 1
        /\ Cardinality(Pending(c, d)') \in Nat
    BY <2>3, <2>4, FS_Subset, FS_CardinalityType
  <2>6. Counted(c, d)'
    BY <1>2, <1>4, <1>6, <1>7, <2>1, <2>2, <2>5 DEF Counted
  <2>7. \A k \in Pending(c, d)' : Roll(c, hwin'[k], d) \in rolls' \/ imports # 0
    <3> SUFFICES ASSUME NEW k \in Pending(c, d)', imports = 0
                 PROVE  Roll(c, hwin'[k], d) \in rolls'
      OBVIOUS
    <3>1. CASE k = h
      BY <1>2, <1>8, <3>1 DEF x
    <3>2. CASE k \in Pending(c, d)
      BY <1>2, <1>4, <3>2 DEF OnRecord
    <3> QED BY <2>3, <3>1, <3>2
  <2>8. OnRecord(c, d)'
    BY <1>2, <1>4, <2>7 DEF OnRecord
  <2> QED BY <2>6, <2>8
<1>9. CASE ~(c = hch[h] /\ d = hday[h])
  <2>1. Slot(c, d)' = Slot(c, d)
    BY <1>1, <1>2, <1>9 DEF Slot
  <2>2. Pending(c, d)' = Pending(c, d)
    BY <1>2, <1>3, <1>9 DEF Pending
  <2>3. Counted(c, d)'
    BY <1>2, <1>4, <2>1, <2>2 DEF Counted, Free
  <2>4. OnRecord(c, d)'
    BY <1>2, <1>4, <2>2 DEF OnRecord
  <2> QED BY <2>3, <2>4
<1> QED BY <1>8, <1>9

LEMMA WinnerAnnounce ==
    ASSUME WinnerInv, NEW h \in Handlers, Announce(h),
           NEW c \in Channels, NEW d \in Days
    PROVE  Counted(c, d)' /\ OnRecord(c, d)'
<1> USE DEF WinnerInv, TypeInv, TypeOK
<1>1. /\ hch[h] \in Channels /\ hwin[h] \in Users /\ hday[h] \in Days
  OBVIOUS
<1>2. /\ UNCHANGED <<rolls, imports, hch, hwin, hday>>
      /\ told' = [told EXCEPT ![<<hch[h], hday[h]>>] = Append(@, hwin[h])]
      /\ hpc[h] = "won" /\ hpc' = [hpc EXCEPT ![h] = "idle"]
  BY DEF Announce, dbRest, importVars, Handler
<1>3. Counted(c, d) /\ OnRecord(c, d)
  OBVIOUS
<1>4. told[<<c, d>>] \in Seq(Users) /\ imports \in Nat
      /\ Len(told[<<c, d>>]) \in Nat
  OBVIOUS
<1>5. /\ IsFiniteSet(Pending(c, d)) /\ Cardinality(Pending(c, d)) \in Nat
  BY PendingFinite
<1>6. Free(c, d)' = Free(c, d) /\ Free(c, d) \in {0, 1}
  BY <1>2 DEF Free, Slot
<1>7. Pending(c, d)' = Pending(c, d) \ {h}
  BY <1>2 DEF Pending
<1>8. CASE c = hch[h] /\ d = hday[h]
  <2>1. h \in Pending(c, d)
    BY <1>2, <1>8 DEF Pending
  <2>2. Cardinality(Pending(c, d)') = Cardinality(Pending(c, d)) - 1
    BY <1>5, <1>7, <2>1, FS_RemoveElement
  <2>3. told'[<<c, d>>] = Append(told[<<c, d>>], hwin[h])
    BY <1>2, <1>4, <1>8
  <2>4. Len(told'[<<c, d>>]) = Len(told[<<c, d>>]) + 1
    BY <1>1, <1>4, <2>3
  <2>5. Counted(c, d)'
    BY <1>2, <1>3, <1>4, <1>5, <1>6, <2>2, <2>4 DEF Counted
  <2>6. ASSUME imports = 0, NEW i \in 1 .. Len(told'[<<c, d>>])
        PROVE  Roll(c, told'[<<c, d>>][i], d) \in rolls
    <3>1. CASE i <= Len(told[<<c, d>>])
      <4>1. told'[<<c, d>>][i] = told[<<c, d>>][i] /\ i \in 1 .. Len(told[<<c, d>>])
        BY <1>1, <1>4, <2>3, <2>4, <2>6, <3>1
      <4> QED BY <1>3, <2>6, <4>1 DEF OnRecord
    <3>2. CASE i = Len(told[<<c, d>>]) + 1
      <4>1. told'[<<c, d>>][i] = hwin[h]
        BY <1>1, <1>4, <2>3, <3>2
      <4> QED BY <1>3, <2>1, <2>6, <4>1 DEF OnRecord
    <3> QED BY <1>4, <2>4, <2>6, <3>1, <3>2
  <2>7. OnRecord(c, d)'
    BY <1>2, <1>3, <1>7, <2>6 DEF OnRecord
  <2> QED BY <2>5, <2>7
<1>9. CASE ~(c = hch[h] /\ d = hday[h])
  <2>1. h \notin Pending(c, d)
    BY <1>9 DEF Pending
  <2>2. Pending(c, d)' = Pending(c, d)
    BY <1>7, <2>1
  <2>3. told'[<<c, d>>] = told[<<c, d>>]
    BY <1>1, <1>2, <1>9
  <2> QED BY <1>2, <1>3, <1>6, <2>2, <2>3 DEF Counted, OnRecord
<1> QED BY <1>8, <1>9

\* An import empties the slot of every day, and pays for it.
LEMMA WinnerImport ==
    ASSUME WinnerInv, ImportCommit, NEW c \in Channels, NEW d \in Days
    PROVE  Counted(c, d)' /\ OnRecord(c, d)'
<1> USE DEF WinnerInv, TypeInv, TypeOK
<1>1. imports' = imports + 1 /\ UNCHANGED <<told, hpc, hch, hday, hwin>>
  BY DEF ImportCommit, importRest, handlerVars
<1>2. Pending(c, d)' = Pending(c, d)
  BY <1>1 DEF Pending
<1>3. Free(c, d) \in {0, 1} /\ Free(c, d)' \in {0, 1}
  BY DEF Free
<1>4. /\ Cardinality(Pending(c, d)) \in Nat /\ imports \in Nat
      /\ Len(told[<<c, d>>]) \in Nat
  BY PendingFinite
<1>5. Counted(c, d)
  OBVIOUS
<1> QED BY <1>1, <1>2, <1>3, <1>4, <1>5 DEF Counted, OnRecord

LEMMA WinnerStep == WinnerInv /\ [Next]_vars => WinnerInv'
<1> SUFFICES ASSUME WinnerInv, [Next]_vars, NEW c \in Channels, NEW d \in Days
             PROVE  Counted(c, d)' /\ OnRecord(c, d)'
  BY TypeStep DEF WinnerInv
<1>1. TypeInv /\ TypeInv'
  BY TypeStep DEF WinnerInv
<1> USE DEF dbRest, importVars, handlerVars, importRest, Handler
<1>2. ASSUME NEW h \in Handlers, NEW e \in Channels, PidorCmd(h, e)
      PROVE  Counted(c, d)' /\ OnRecord(c, d)'
  BY <1>1, <1>2, WinnerFrame DEF PidorCmd, TypeInv, TypeOK
<1>3. ASSUME NEW h \in Handlers, NEW u \in Users, Draw(h, u)
      PROVE  Counted(c, d)' /\ OnRecord(c, d)'
  BY <1>1, <1>3, WinnerFrame DEF Draw, TypeInv, TypeOK
<1>4. ASSUME NEW h \in Handlers, GiveUp(h)
      PROVE  Counted(c, d)' /\ OnRecord(c, d)'
  BY <1>1, <1>4, WinnerFrame DEF GiveUp, TypeInv, TypeOK
<1>5. CASE Restart \/ Midnight
  BY <1>1, <1>5, WinnerFrame DEF Restart, Midnight, TypeInv, TypeOK
<1>6. CASE ImportSnapshot \/ ImportTruncate \/ ImportFail
  BY <1>1, <1>6, WinnerFrame DEF ImportSnapshot, ImportTruncate, ImportFail
<1>7. CASE UNCHANGED vars
  BY <1>1, <1>7, WinnerFrame DEF vars
<1> QED
  BY <1>2, <1>3, <1>4, <1>5, <1>6, <1>7, WinnerChoose, WinnerAnnounce,
     WinnerImport DEF Next

\* A day of a channel has one announcement, and one more for every import.
THEOREM OneWinnerHolds == Spec => []OneWinner
<1>1. WinnerInv => OneWinner
  <2> SUFFICES ASSUME WinnerInv, NEW c \in Channels, NEW d \in Days
               PROVE  /\ Len(told[<<c, d>>]) <= 1 + imports
                      /\ imports = 0 =>
                           \A i \in 1 .. Len(told[<<c, d>>]) :
                               Roll(c, told[<<c, d>>][i], d) \in rolls
    BY DEF OneWinner
  <2>1. Counted(c, d) /\ OnRecord(c, d)
    BY DEF WinnerInv
  <2>2. /\ Cardinality(Pending(c, d)) \in Nat /\ imports \in Nat
        /\ Len(told[<<c, d>>]) \in Nat /\ Free(c, d) \in {0, 1}
    BY PendingFinite DEF WinnerInv, TypeInv, TypeOK, Free
  <2> QED BY <2>1, <2>2 DEF Counted, OnRecord
<1> QED BY <1>1, WinnerInit, WinnerStep, PTL DEF Spec

-----------------------------------------------------------------------------
(* Sums and orders of finite sets, as the statistics use them *)

\* Some element of a set.
Pick(s) == CHOOSE x \in s : TRUE

\* Induction over the subsets of T: Good holds all of them.
LEMMA SubsetInduction ==
    ASSUME NEW T, IsFiniteSet(T), NEW Good, {} \in Good,
           \A s \in SUBSET T : s # {} /\ s \ {Pick(s)} \in Good => s \in Good
    PROVE  SUBSET T \subseteq Good
<1> DEFINE Bad == (SUBSET T) \ Good
<1> SUFFICES ASSUME Bad # {} PROVE FALSE
  OBVIOUS
<1>1. IsWellFoundedOn(StrictSubsetOrdering(T), SUBSET T)
  BY FS_StrictSubsetOrderingWellFounded, FS_FiniteSubsetsOfFinite
<1>2. \E s \in Bad : \A r \in Bad : ~ (<<r, s>> \in StrictSubsetOrdering(T))
  <2>1. Bad \subseteq SUBSET T
    OBVIOUS
  <2> HIDE DEF Bad
  <2> QED BY ONLY <1>1, <2>1, Bad # {}, WFMin
<1>3. PICK s \in SUBSET T :
         s \notin Good /\ \A r \in Bad : <<r, s>> \notin StrictSubsetOrdering(T)
  BY <1>2
<1>4. s # {} /\ Pick(s) \in s
  <2>1. s # {}
    BY <1>3
  <2> QED BY <2>1 DEF Pick
<1>5. s \ {Pick(s)} \in Bad
  BY <1>3, <1>4
<1>6. <<s \ {Pick(s)}, s>> \in StrictSubsetOrdering(T)
  BY <1>3, <1>4 DEF StrictSubsetOrdering
<1> QED BY <1>3, <1>5, <1>6

\* The least of a set of naturals is one of them, the greatest of a bounded one.
LEMMA MinIs ==
    ASSUME NEW A \in SUBSET Nat, A # {}
    PROVE  S!Min(A) \in A /\ \A a \in A : S!Min(A) <= a
<1>1. PICK a \in A : \A b \in A : <<b, a>> \notin OpToRel(<, Nat)
  BY NatLessThanWellFounded, WFMin
<1>2. \A b \in A : a <= b
  <2> SUFFICES ASSUME NEW b \in A PROVE ~(b < a)
    OBVIOUS
  <2> QED BY <1>1 DEF OpToRel
<1> QED BY <1>2 DEF S!Min

LEMMA MaxIs ==
    ASSUME NEW n \in Int, NEW A \in SUBSET Int, A # {}, \A a \in A : a <= n
    PROVE  F!Max(A) \in A /\ \A a \in A : F!Max(A) >= a
<1> DEFINE B == {n - a : a \in A}
<1>1. B \in SUBSET Nat /\ B # {}
  <2>1. \A a \in A : n - a \in Nat
    OBVIOUS
  <2> QED BY <2>1
<1>2. PICK a \in A : \A b \in B : n - a <= b
  <2>1. S!Min(B) \in B /\ \A b \in B : S!Min(B) <= b
    BY <1>1, MinIs
  <2> QED BY <2>1
<1>3. \A b \in A : a >= b
  BY <1>2
<1> QED BY <1>3 DEF F!Max

\* The units of a set whose elements x weigh w[x].
Units(A, w) == {u \in A \X Nat : u[2] \in 1 .. w[u[1]]}

LEMMA UnitsOfOne ==
    ASSUME NEW x, NEW w, w[x] \in Nat
    PROVE  IsFiniteSet(Units({x}, w)) /\ Cardinality(Units({x}, w)) = w[x]
<1> DEFINE f == [k \in 1 .. w[x] |-> <<x, k>>]
<1>1. f \in Bijection(1 .. w[x], Units({x}, w))
  <2>1. f \in [1 .. w[x] -> Units({x}, w)]
    BY DEF Units
  <2>2. \A j, k \in 1 .. w[x] : f[j] = f[k] => j = k
    OBVIOUS
  <2>3. \A u \in Units({x}, w) : \E k \in 1 .. w[x] : f[k] = u
    BY DEF Units
  <2> QED BY <2>1, <2>2, <2>3 DEF Bijection, Injection, Surjection, IsInjective
<1>2. ExistsBijection(1 .. w[x], Units({x}, w))
  BY <1>1 DEF ExistsBijection
<1> QED BY <1>2, FS_CountingElements, FS_NatBijection

\* Disjoint sets weigh what they weigh together.
LEMMA UnitsOfBoth ==
    ASSUME NEW A, NEW B, NEW w, A \cap B = {},
           IsFiniteSet(Units(A, w)), IsFiniteSet(Units(B, w))
    PROVE  /\ IsFiniteSet(Units(A \cup B, w))
           /\ Cardinality(Units(A \cup B, w))
                = Cardinality(Units(A, w)) + Cardinality(Units(B, w))
<1>1. /\ Units(A \cup B, w) = Units(A, w) \cup Units(B, w)
      /\ Units(A, w) \cap Units(B, w) = {}
  BY DEF Units
<1>2. /\ Cardinality(Units(A, w)) \in Nat /\ Cardinality(Units(B, w)) \in Nat
      /\ Cardinality({}) = 0
  BY FS_CardinalityType, FS_EmptySet
<1>3. /\ IsFiniteSet(Units(A, w) \cup Units(B, w))
      /\ Cardinality(Units(A, w) \cup Units(B, w))
           = Cardinality(Units(A, w)) + Cardinality(Units(B, w))
               - Cardinality(Units(A, w) \cap Units(B, w))
  BY FS_Union
<1>4. Cardinality(Units(A, w) \cap Units(B, w)) = 0
  BY <1>1, <1>2
<1>5. /\ IsFiniteSet(Units(A, w) \cup Units(B, w))
      /\ Cardinality(Units(A, w) \cup Units(B, w))
           = Cardinality(Units(A, w)) + Cardinality(Units(B, w))
  BY <1>2, <1>3, <1>4
<1> QED BY <1>1, <1>5

Weighs(A, w) == \A x \in A : w[x] \in Nat

LEMMA UnitsAdd ==
    ASSUME NEW A, IsFiniteSet(A), NEW w, Weighs(A, w)
    PROVE  /\ Units({}, w) = {}
           /\ \A s \in SUBSET A : IsFiniteSet(Units(s, w))
           /\ \A s \in SUBSET A : \A x \in s :
                Cardinality(Units(s, w)) = w[x] + Cardinality(Units(s \ {x}, w))
<1>1. Units({}, w) = {}
  BY DEF Units
<1>2. ASSUME NEW s \in SUBSET A, NEW x \in s, IsFiniteSet(Units(s \ {x}, w))
      PROVE  /\ IsFiniteSet(Units(s, w))
             /\ Cardinality(Units(s, w)) = w[x] + Cardinality(Units(s \ {x}, w))
  <2> DEFINE rest == s \ {x}
  <2>1. s = {x} \cup rest /\ {x} \cap rest = {} /\ w[x] \in Nat
    BY DEF Weighs
  <2>2. IsFiniteSet(Units({x}, w)) /\ Cardinality(Units({x}, w)) = w[x]
    BY <2>1, UnitsOfOne
  <2>3. IsFiniteSet(Units(rest, w))
    BY <1>2
  <2> HIDE DEF rest
  <2>4. /\ IsFiniteSet(Units({x} \cup rest, w))
        /\ Cardinality(Units({x} \cup rest, w))
             = Cardinality(Units({x}, w)) + Cardinality(Units(rest, w))
    BY ONLY <2>1, <2>2, <2>3, UnitsOfBoth
  <2> QED BY ONLY <2>1, <2>2, <2>4 DEF rest
<1>3. \A s \in SUBSET A : IsFiniteSet(Units(s, w))
  <2> DEFINE Good == {s \in SUBSET A : IsFiniteSet(Units(s, w))}
  <2>1. {} \in Good
    BY <1>1, FS_EmptySet
  <2>2. \A s \in SUBSET A : s # {} /\ s \ {Pick(s)} \in Good => s \in Good
    BY <1>2 DEF Pick
  <2> HIDE DEF Good
  <2>3. SUBSET A \subseteq Good
    BY <2>1, <2>2, SubsetInduction
  <2> QED BY <2>3 DEF Good
<1> QED BY <1>1, <1>2, <1>3

\* The recursion of MapThenSumSet for the weights w.
IsSum(sum, A, w) ==
    sum = [s \in SUBSET A |->
             IF s = {} THEN 0 ELSE w[Pick(s)] + sum[s \ {Pick(s)}]]

\* It has a solution, and only one: the number of units.
LEMMA SumExists ==
    ASSUME NEW A, IsFiniteSet(A), NEW w, Weighs(A, w)
    PROVE  IsSum([s \in SUBSET A |-> Cardinality(Units(s, w))], A, w)
<1> DEFINE n == [s \in SUBSET A |-> Cardinality(Units(s, w))]
<1>1. ASSUME NEW s \in SUBSET A
      PROVE  n[s] = IF s = {} THEN 0 ELSE w[Pick(s)] + n[s \ {Pick(s)}]
  <2>1. CASE s = {}
    BY <2>1, UnitsAdd, FS_EmptySet
  <2>2. CASE s # {}
    <3>1. Pick(s) \in s /\ s \ {Pick(s)} \in SUBSET A
      BY <2>2 DEF Pick
    <3> QED BY <2>2, <3>1, UnitsAdd
  <2> QED BY <2>1, <2>2
<1>2. n = [s \in SUBSET A |-> IF s = {} THEN 0 ELSE w[Pick(s)] + n[s \ {Pick(s)}]]
  BY <1>1
<1> QED BY <1>2 DEF IsSum

LEMMA SumUnique ==
    ASSUME NEW A, IsFiniteSet(A), NEW w, Weighs(A, w), NEW sum, IsSum(sum, A, w)
    PROVE  sum[A] = Cardinality(Units(A, w))
<1> DEFINE Good == {s \in SUBSET A : sum[s] = Cardinality(Units(s, w))}
<1>1. {} \in Good
  BY UnitsAdd, FS_EmptySet DEF IsSum
<1>2. ASSUME NEW s \in SUBSET A, s # {}, s \ {Pick(s)} \in Good PROVE s \in Good
  <2>1. Pick(s) \in s
    BY <1>2 DEF Pick
  <2>2. sum[s] = w[Pick(s)] + sum[s \ {Pick(s)}]
    BY <1>2 DEF IsSum
  <2> QED BY <1>2, <2>1, <2>2, UnitsAdd
<1>3. SUBSET A \subseteq Good
  <2> HIDE DEF Good
  <2> QED BY <1>1, <1>2, SubsetInduction
<1> QED BY <1>3

LEMMA TimesIs ==
    ASSUME NEW A, IsFiniteSet(A), NEW w, Weighs(A, w), \A x \in A : w[x] = x.times
    PROVE  Times(A) = Cardinality(Units(A, w))
<1> DEFINE P(i) == i = [s \in SUBSET A |->
                          IF s = {} THEN 0 ELSE Pick(s).times + i[s \ {Pick(s)}]]
           sum == CHOOSE i : P(i)
<1>1. Times(A) = sum[A]
  BY DEF Times, F!MapThenSumSet, F!MapThenFoldSet, Pick
<1>2. \A s \in SUBSET A : s # {} => w[Pick(s)] = Pick(s).times
  BY DEF Pick
<1>3. \A i : P(i) <=> IsSum(i, A, w)
  BY <1>2 DEF IsSum
<1>4. \E i : IsSum(i, A, w)
  BY SumExists
<1> HIDE DEF P
<1>5. IsSum(sum, A, w)
  BY <1>3, <1>4
<1> QED BY <1>1, <1>5, SumUnique

LEMMA TotalIs ==
    ASSUME NEW A, IsFiniteSet(A), NEW w, Weighs(A, w), \A v \in A : w[v] = v.count
    PROVE  Total(A) = Cardinality(Units(A, w))
<1> DEFINE P(i) == i = [s \in SUBSET A |->
                          IF s = {} THEN 0 ELSE Pick(s).count + i[s \ {Pick(s)}]]
           sum == CHOOSE i : P(i)
<1>1. Total(A) = sum[A]
  BY DEF Total, F!MapThenSumSet, F!MapThenFoldSet, Pick
<1>2. \A s \in SUBSET A : s # {} => w[Pick(s)] = Pick(s).count
  BY DEF Pick
<1>3. \A i : P(i) <=> IsSum(i, A, w)
  BY <1>2 DEF IsSum
<1>4. \E i : IsSum(i, A, w)
  BY SumExists
<1> HIDE DEF P
<1>5. IsSum(sum, A, w)
  BY <1>3, <1>4
<1> QED BY <1>1, <1>5, SumUnique

-----------------------------------------------------------------------------
(* The statistics of a channel *)

Own(c, u) == {x \in RowsOf(c) : x.user = u}
LatestOf(c, u) == F!Max({x.on : x \in Own(c, u)} \cup {0})
Stat(c, u) == [user |-> u, name |-> NameOn[u][LatestOf(c, u)],
               count |-> Times(Own(c, u))]

LEMMA RowsFinite ==
    ASSUME TypeOK, NEW c \in Channels
    PROVE  RowsOf(c) \subseteq Row /\ IsFiniteSet(RowsOf(c))
<1> DEFINE D == (1 - MaxUser) .. MaxDay
           f == [x \in RowsOf(c) |-> x.on]
<1>1. RowsOf(c) \subseteq Row
  BY DEF TypeOK, RowsOf
<1>2. f \in Injection(RowsOf(c), D)
  <2>1. f \in [RowsOf(c) -> D]
    BY <1>1 DEF Row
  <2>2. \A x, y \in RowsOf(c) : f[x] = f[y] => x = y
    BY DEF TypeOK, RowsOf
  <2> QED BY <2>1, <2>2 DEF Injection, IsInjective
<1>3. IsFiniteSet(D)
  BY PidorAssumption, FS_Interval
<1> QED BY <1>1, <1>2, <1>3, FS_Injection

Weight(c) == [x \in RowsOf(c) |-> x.times]

LEMMA RowsWeigh ==
    ASSUME TypeOK, NEW c \in Channels
    PROVE  \A rows \in SUBSET RowsOf(c) :
              /\ IsFiniteSet(rows) /\ Weighs(rows, Weight(c))
              /\ IsFiniteSet(Units(rows, Weight(c)))
              /\ Times(rows) = Cardinality(Units(rows, Weight(c)))
<1> SUFFICES ASSUME NEW rows \in SUBSET RowsOf(c)
             PROVE  /\ IsFiniteSet(rows) /\ Weighs(rows, Weight(c))
                    /\ IsFiniteSet(Units(rows, Weight(c)))
                    /\ Times(rows) = Cardinality(Units(rows, Weight(c)))
  OBVIOUS
<1>1. IsFiniteSet(rows)
  BY RowsFinite, FS_Subset
<1>2. \A x \in rows : Weight(c)[x] = x.times /\ x.times \in Nat
  BY RowsFinite DEF Weight, Row
<1>3. Weighs(rows, Weight(c))
  BY <1>2 DEF Weighs
<1>4. IsFiniteSet(Units(rows, Weight(c)))
  BY <1>1, <1>3, UnitsAdd
<1> QED BY <1>1, <1>2, <1>3, <1>4, TimesIs

\* One line of statistics for every user who has rows.
LEMMA StatsAre ==
    ASSUME TypeOK, NEW c \in Channels
    PROVE  /\ Stats(c) = {Stat(c, u) : u \in {x.user : x \in RowsOf(c)}}
           /\ IsFiniteSet(Stats(c))
           /\ \A v \in Stats(c) : /\ v = Stat(c, v.user)
                                  /\ v.user \in Users
                                  /\ v.name \in Nat
                                  /\ v.count \in Nat
<1>1. Stats(c) = {Stat(c, u) : u \in {x.user : x \in RowsOf(c)}}
  BY DEF Stats, Stat, Own, LatestOf
<1>2. ASSUME NEW u \in Users
      PROVE  LatestOf(c, u) \in 0 .. MaxDay /\ Times(Own(c, u)) \in Nat
  <2> DEFINE D == {x.on : x \in Own(c, u)} \cup {0}
  <2>1. \A d \in D : d \in Int /\ d <= MaxDay
    BY RowsFinite, PidorAssumption DEF Own, Row
  <2>2. F!Max(D) \in D /\ F!Max(D) >= 0
    <3>1. 0 \in D /\ D \in SUBSET Int /\ D # {} /\ MaxDay \in Int
      BY <2>1, PidorAssumption
    <3> HIDE DEF D
    <3> QED BY <2>1, <3>1, MaxIs
  <2>3. LatestOf(c, u) \in 0 .. MaxDay
    BY <2>1, <2>2, PidorAssumption DEF LatestOf
  <2>4. Own(c, u) \subseteq RowsOf(c)
    BY DEF Own
  <2>5. Times(Own(c, u)) \in Nat
    BY <2>4, RowsWeigh, FS_CardinalityType
  <2> QED BY <2>3, <2>5
<1>3. ASSUME NEW v \in Stats(c)
      PROVE  v = Stat(c, v.user) /\ v.user \in Users /\ v.name \in Nat /\ v.count \in Nat
  <2>1. PICK x \in RowsOf(c) : v = Stat(c, x.user)
    BY <1>1
  <2>2. x.user \in Users
    BY RowsFinite DEF Row
  <2>3. v.user = x.user /\ v.name = NameOn[x.user][LatestOf(c, x.user)]
        /\ v.count = Times(Own(c, x.user))
    BY <2>1 DEF Stat
  <2> QED BY <1>2, <2>1, <2>2, <2>3, StatsAssumption
<1>4. IsFiniteSet(Stats(c))
  <2> DEFINE f == [v \in Stats(c) |-> v.user]
  <2>1. f \in Injection(Stats(c), Users)
    BY <1>3 DEF Injection, IsInjective
  <2>2. IsFiniteSet(Users)
    BY PidorAssumption, FS_Interval DEF Users
  <2> QED BY <2>1, <2>2, FS_Injection
<1> QED BY <1>1, <1>3, <1>4

\* The total of the lines is the total of the rows.
LEMMA TotalTrue ==
    ASSUME TypeOK, NEW c \in Channels
    PROVE  Total(Stats(c)) = Times(RowsOf(c))
<1> DEFINE A == Stats(c)
           w == [v \in A |-> v.count]
           RowsBy(s) == {x \in RowsOf(c) : \E v \in s : v.user = x.user}
           Good == {s \in SUBSET A : Cardinality(Units(s, w))
                                     = Cardinality(Units(RowsBy(s), Weight(c)))}
<1>1. /\ IsFiniteSet(A) /\ Weighs(A, w) /\ \A v \in A : w[v] = v.count
  BY StatsAre DEF Weighs
<1>2. Total(A) = Cardinality(Units(A, w))
  BY <1>1, TotalIs
<1>3. {} \in Good
  <2>1. RowsBy({}) = {}
    OBVIOUS
  <2>2. Units({}, w) = {} /\ Units({}, Weight(c)) = {}
    BY DEF Units
  <2> QED BY <2>1, <2>2
<1>4. ASSUME NEW s \in SUBSET A, s # {}, s \ {Pick(s)} \in Good PROVE s \in Good
  <2> DEFINE v == Pick(s)
  <2>1. v \in s /\ v \in A
    BY <1>4 DEF Pick
  <2> HIDE DEF v
  <2>2. Cardinality(Units(s, w)) = w[v] + Cardinality(Units(s \ {v}, w))
    BY <1>1, <2>1, UnitsAdd
  <2>3. w[v] = Cardinality(Units(Own(c, v.user), Weight(c)))
    <3>1. w[v] = Times(Own(c, v.user))
      BY <2>1, StatsAre DEF Stat
    <3>2. Own(c, v.user) \in SUBSET RowsOf(c)
      BY DEF Own
    <3> QED BY <3>1, <3>2, RowsWeigh
  <2>4. /\ RowsBy(s) = Own(c, v.user) \cup RowsBy(s \ {v})
        /\ Own(c, v.user) \cap RowsBy(s \ {v}) = {}
    <3>1. \A a \in s \ {v} : a.user # v.user
      BY <2>1, StatsAre
    <3> QED BY <2>1, <3>1 DEF Own
  <2>5. /\ Own(c, v.user) \in SUBSET RowsOf(c)
        /\ RowsBy(s \ {v}) \in SUBSET RowsOf(c)
    BY DEF Own
  <2> HIDE DEF RowsBy, w, A
  <2>6. /\ IsFiniteSet(Units(Own(c, v.user), Weight(c)))
        /\ IsFiniteSet(Units(RowsBy(s \ {v}), Weight(c)))
    BY <2>5, RowsWeigh
  <2>7. Cardinality(Units(RowsBy(s), Weight(c)))
          = Cardinality(Units(Own(c, v.user), Weight(c)))
              + Cardinality(Units(RowsBy(s \ {v}), Weight(c)))
    BY <2>4, <2>6, UnitsOfBoth
  <2> QED BY <1>4, <2>2, <2>3, <2>7 DEF v
<1>5. A \in Good
  <2> HIDE DEF Good, A
  <2>1. SUBSET A \subseteq Good
    BY <1>1, <1>3, <1>4, SubsetInduction
  <2> QED BY <2>1
<1>6. RowsBy(A) = RowsOf(c)
  <2>1. ASSUME NEW x \in RowsOf(c) PROVE \E v \in A : v.user = x.user
    <3>1. Stat(c, x.user) \in A /\ Stat(c, x.user).user = x.user
      BY StatsAre DEF Stat
    <3> QED BY <3>1
  <2> QED BY <2>1
<1>7. Times(RowsOf(c)) = Cardinality(Units(RowsOf(c), Weight(c)))
  BY RowsWeigh
<1> QED BY <1>2, <1>5, <1>6, <1>7

-----------------------------------------------------------------------------
(* Their order *)

\* Lines as Stats makes them.
Lines(stats) ==
    /\ IsFiniteSet(stats)
    /\ \A v \in stats : v.user \in Nat /\ v.name \in Nat /\ v.count \in Nat
    /\ \A v, a \in stats : v.user = a.user => v = a

\* The comparison of sortPidors, with the users to settle what it leaves open.
Before(a, b) == Precedes(a, b) \/ (~Precedes(b, a) /\ a.user < b.user)

LEMMA BeforeIsOrder ==
    ASSUME NEW stats, Lines(stats)
    PROVE  /\ \A a, b \in stats : a # b => Before(a, b) \/ Before(b, a)
           /\ \A a \in stats : ~Before(a, a)
           /\ \A a, b, v \in stats : Before(a, b) /\ Before(b, v) => Before(a, v)
BY DEF Lines, Before, Precedes

LEMMA UpTo ==
    ASSUME NEW n \in Nat
    PROVE  IsFiniteSet(1 .. n) /\ Cardinality(1 .. n) = n
BY FS_Interval

\* What sortPidors may return: the lines, each once, none before a better one.
LEMMA SortedIs ==
    ASSUME NEW stats, Lines(stats), NEW rows
    PROVE  rows \in sortPidors(stats) <=>
             /\ rows \in [1 .. Cardinality(stats) -> stats]
             /\ \A i, j \in 1 .. Cardinality(stats) : i # j => rows[i] # rows[j]
             /\ \A i, j \in 1 .. Cardinality(stats) :
                  i < j => ~Precedes(rows[j], rows[i])
<1>1. S!Cardinality(stats) = Cardinality(stats)
  BY DEF S!Cardinality, Cardinality, S!IsFiniteSet, IsFiniteSet
<1>2. Cardinality(stats) \in Nat
  BY FS_CardinalityType DEF Lines
<1>3. rows \in [1 .. Cardinality(stats) -> stats] => Len(rows) = Cardinality(stats)
  BY <1>2
<1> QED BY <1>1, <1>3 DEF sortPidors, S!SetToSeqs

\* The lines can be sorted: a line's position is how many come before it.
LEMMA OrderExists ==
    ASSUME NEW stats, Lines(stats)
    PROVE  sortPidors(stats) # {}
<1> DEFINE n == Cardinality(stats)
           Ahead(v) == {a \in stats : Before(a, v)}
           pos == [v \in stats |-> 1 + Cardinality(Ahead(v))]
           rows == [i \in 1 .. n |-> CHOOSE v \in stats : pos[v] = i]
<1>1. n \in Nat /\ IsFiniteSet(stats)
  BY FS_CardinalityType DEF Lines
<1>2. ASSUME NEW v \in stats
      PROVE  /\ IsFiniteSet(Ahead(v)) /\ Cardinality(Ahead(v)) \in Nat
             /\ Cardinality(Ahead(v)) < n
  <2>1. Ahead(v) \subseteq stats /\ v \notin Ahead(v)
    BY BeforeIsOrder
  <2>2. /\ IsFiniteSet(Ahead(v)) /\ Cardinality(Ahead(v)) <= n
        /\ n = Cardinality(Ahead(v)) => stats = Ahead(v)
    BY <1>1, <2>1, FS_Subset
  <2>3. Cardinality(Ahead(v)) \in Nat
    BY <2>2, FS_CardinalityType
  <2> HIDE DEF Ahead, n
  <2> QED BY <1>1, <2>1, <2>2, <2>3
<1>3. ASSUME NEW a \in stats, NEW b \in stats, Before(a, b)
      PROVE  pos[a] < pos[b]
  <2>1. Ahead(a) \subseteq Ahead(b) /\ a \in Ahead(b) /\ a \notin Ahead(a)
    BY <1>3, BeforeIsOrder
  <2>2. /\ Cardinality(Ahead(a)) <= Cardinality(Ahead(b))
        /\ Cardinality(Ahead(a)) = Cardinality(Ahead(b)) => Ahead(a) = Ahead(b)
    BY <1>2, <2>1, FS_Subset
  <2>3. Cardinality(Ahead(a)) < Cardinality(Ahead(b))
    <3>1. Cardinality(Ahead(a)) \in Nat /\ Cardinality(Ahead(b)) \in Nat
      BY <1>2
    <3> HIDE DEF Ahead
    <3> QED BY <2>1, <2>2, <3>1
  <2>4. Cardinality(Ahead(a)) \in Nat /\ Cardinality(Ahead(b)) \in Nat
    BY <1>2
  <2> HIDE DEF Ahead
  <2> QED BY <2>3, <2>4
<1>4. pos \in [stats -> 1 .. n]
  <2> HIDE DEF Ahead, n
  <2> QED BY <1>1, <1>2
<1>5. \A a, b \in stats : pos[a] = pos[b] => a = b
  <2> SUFFICES ASSUME NEW a \in stats, NEW b \in stats, a # b PROVE pos[a] # pos[b]
    OBVIOUS
  <2>1. pos[a] < pos[b] \/ pos[b] < pos[a]
    BY <1>3, BeforeIsOrder
  <2>2. pos[a] \in 1 .. n /\ pos[b] \in 1 .. n
    BY <1>4
  <2> HIDE DEF pos, n
  <2> QED BY <1>1, <2>1, <2>2
<1> HIDE DEF pos
<1>6. \A i \in 1 .. n : \E v \in stats : pos[v] = i
  <2>1. pos \in Injection(stats, 1 .. n)
    BY <1>4, <1>5 DEF Injection, IsInjective
  <2>2. IsFiniteSet(1 .. n) /\ Cardinality(1 .. n) = Cardinality(stats)
    BY <1>1, UpTo
  <2>3. pos \in Surjection(stats, 1 .. n)
    BY <2>1, <2>2, FS_Injection
  <2> QED BY <2>3 DEF Surjection
<1>7. \A i \in 1 .. n : rows[i] \in stats /\ pos[rows[i]] = i
  BY <1>6
<1>8. rows \in [1 .. n -> stats]
  BY <1>7
<1> HIDE DEF rows, n
<1>9. \A i, j \in 1 .. n : i # j => rows[i] # rows[j]
  BY <1>7
<1>10. ASSUME NEW i \in 1 .. n, NEW j \in 1 .. n, i < j
       PROVE  ~Precedes(rows[j], rows[i])
  <2>1. ~Before(rows[j], rows[i])
    BY <1>1, <1>3, <1>7, <1>10
  <2> QED BY <2>1 DEF Before
<1>11. rows \in sortPidors(stats)
  BY <1>8, <1>9, <1>10, SortedIs DEF n
<1> QED BY <1>11

\* Everyone is listed.
LEMMA EveryoneListed ==
    ASSUME NEW stats, Lines(stats), NEW rows \in sortPidors(stats)
    PROVE  /\ Cardinality(stats) \in Nat /\ Len(rows) = Cardinality(stats)
           /\ \A v \in stats : \E k \in 1 .. Cardinality(stats) : rows[k] = v
<1> DEFINE n == Cardinality(stats)
<1>1. n \in Nat /\ IsFiniteSet(stats)
  BY FS_CardinalityType DEF Lines
<1>2. rows \in [1 .. n -> stats] /\ \A i, j \in 1 .. n : i # j => rows[i] # rows[j]
  BY SortedIs
<1>3. rows \in Injection(1 .. n, stats)
  BY <1>2 DEF Injection, IsInjective
<1>4. IsFiniteSet(1 .. n) /\ Cardinality(1 .. n) = n
  BY <1>1, UpTo
<1>5. rows \in Surjection(1 .. n, stats)
  <2> HIDE DEF n
  <2> QED BY <1>1, <1>3, <1>4, FS_Injection DEF n
<1>6. Len(rows) = n
  BY <1>1, <1>2
<1> QED BY <1>1, <1>5, <1>6 DEF Surjection

\* Whoever has the place k has k - 1 lines before him that are not worse, and
\* after him none that is better.
LEMMA PlaceIs ==
    ASSUME NEW stats, Lines(stats), NEW rows \in sortPidors(stats),
           NEW k \in 1 .. Cardinality(stats)
    PROVE  /\ Place(stats, rows[k]) \in Nat /\ Ties(stats, rows[k]) \in Nat
           /\ k <= Place(stats, rows[k]) + Ties(stats, rows[k])
           /\ Alone(stats, rows[k]) => k = Place(stats, rows[k])
<1> DEFINE n == Cardinality(stats)
           v == rows[k]
           Higher == {a \in stats : a.count > v.count}
           Equal == {a \in stats \ {v} : a.count = v.count}
           f == [i \in 1 .. k - 1 |-> rows[i]]
<1>1. n \in Nat /\ k \in Nat /\ k - 1 \in Nat /\ k - 1 < n /\ v \in stats
  <2>1. n \in Nat
    BY FS_CardinalityType DEF Lines
  <2> QED BY <2>1, SortedIs
<1>2. /\ IsFiniteSet(Higher) /\ IsFiniteSet(Equal) /\ IsFiniteSet(Higher \cup Equal)
      /\ Cardinality(Higher) \in Nat /\ Cardinality(Equal) \in Nat
      /\ Cardinality(Higher \cup Equal) \in Nat
      /\ Cardinality(Higher \cup Equal) <= Cardinality(Higher) + Cardinality(Equal)
  <2>1. /\ Higher \subseteq stats /\ Equal \subseteq stats /\ Higher \cup Equal \subseteq stats
        /\ Higher \cap Equal = {} /\ IsFiniteSet(stats)
    BY <1>1 DEF Lines
  <2> HIDE DEF Higher, Equal
  <2>2. /\ IsFiniteSet(Higher) /\ IsFiniteSet(Equal) /\ IsFiniteSet(Higher \cup Equal)
    BY <2>1, FS_Subset
  <2>3. /\ Cardinality(Higher) \in Nat /\ Cardinality(Equal) \in Nat
        /\ Cardinality(Higher \cup Equal) \in Nat
    BY <2>2, FS_CardinalityType
  <2>4. Cardinality(Higher \cup Equal)
          = Cardinality(Higher) + Cardinality(Equal) - Cardinality(Higher \cap Equal)
    BY <2>2, FS_Union
  <2>5. Cardinality(Higher \cap Equal) = 0
    BY <2>1, FS_EmptySet
  <2> QED BY <2>2, <2>3, <2>4, <2>5
<1>3. \A i \in 1 .. n : i < k => rows[i] \in Higher \cup Equal
  <2> SUFFICES ASSUME NEW i \in 1 .. n, i < k PROVE rows[i] \in Higher \cup Equal
    OBVIOUS
  <2>1. rows[i] \in stats /\ rows[i] # v /\ ~Precedes(v, rows[i])
    BY <1>1, SortedIs
  <2> QED BY <1>1, <2>1 DEF Lines, Precedes
<1>4. \A i \in 1 .. n : rows[i] \in Higher => i < k
  <2> SUFFICES ASSUME NEW i \in 1 .. n, rows[i] \in Higher, ~(i < k) PROVE FALSE
    OBVIOUS
  <2>1. k < i
    BY <1>1 DEF Lines
  <2>2. ~Precedes(rows[i], v)
    BY <2>1, SortedIs
  <2> QED BY <2>2 DEF Precedes
<1>5. /\ f \in Injection(1 .. k - 1, Higher \cup Equal)
      /\ IsFiniteSet(1 .. k - 1) /\ Cardinality(1 .. k - 1) = k - 1
  <2>1. \A i \in 1 .. k - 1 : i \in 1 .. n /\ i < k
    BY <1>1
  <2>2. f \in [1 .. k - 1 -> Higher \cup Equal]
    BY <1>3, <2>1
  <2>3. \A i, j \in 1 .. k - 1 : f[i] = f[j] => i = j
    BY <2>1, SortedIs
  <2>4. IsFiniteSet(1 .. k - 1) /\ Cardinality(1 .. k - 1) = k - 1
    BY <1>1, UpTo
  <2> QED BY <2>2, <2>3, <2>4 DEF Injection, IsInjective
<1>6. k - 1 <= Cardinality(Higher \cup Equal)
  <2> HIDE DEF f, Higher, Equal
  <2> QED BY <1>2, <1>5, FS_Injection
<1>7. Place(stats, v) = 1 + Cardinality(Higher) /\ Ties(stats, v) = Cardinality(Equal)
  BY DEF Place, Ties
<1>8. ASSUME Alone(stats, v) PROVE k - 1 = Cardinality(Higher)
  <2>1. Equal = {}
    BY <1>8 DEF Alone
  <2>2. \A a \in Higher : \E i \in 1 .. k - 1 : f[i] = a
    <3> SUFFICES ASSUME NEW a \in Higher PROVE \E i \in 1 .. k - 1 : f[i] = a
      OBVIOUS
    <3>1. PICK i \in 1 .. n : rows[i] = a
      BY EveryoneListed
    <3>2. i \in 1 .. k - 1
      BY <1>1, <1>4, <3>1
    <3> QED BY <3>1, <3>2
  <2>3. f \in Bijection(1 .. k - 1, Higher)
    <3> HIDE DEF f, Higher, Equal
    <3>1. Higher \cup Equal = Higher
      BY <2>1
    <3> QED BY <1>5, <2>2, <3>1 DEF Bijection, Injection, Surjection
  <2> HIDE DEF f, Higher, Equal
  <2> QED BY <1>1, <2>3, FS_CountingElements DEF ExistsBijection
<1>9. k \in Nat
  BY <1>1
<1> HIDE DEF Higher, Equal, f, n
<1>10. /\ Place(stats, v) \in Nat /\ Ties(stats, v) \in Nat
       /\ k <= Place(stats, v) + Ties(stats, v)
  BY ONLY <1>2, <1>6, <1>7, <1>9
<1>11. Alone(stats, v) => k = Place(stats, v)
  BY <1>7, <1>8, <1>9, <1>2
<1> QED BY <1>10, <1>11

\* A rating is the first place with the author's name.
LEMMA RatingIs ==
    ASSUME NEW stats, Lines(stats), NEW rows \in sortPidors(stats), NEW v \in stats
    PROVE  /\ Rating(rows, v) \in 1 .. Place(stats, v) + Ties(stats, v)
           /\ Alone(stats, v) => Rating(rows, v) = Place(stats, v)
<1> DEFINE n == Cardinality(stats)
           I == {i \in 1 .. Len(rows) : rows[i].name = v.name}
           r == S!Min(I)
<1>1. n \in Nat /\ Len(rows) = n /\ rows \in [1 .. n -> stats]
  BY EveryoneListed, SortedIs
<1>2. PICK k \in 1 .. n : rows[k] = v
  BY EveryoneListed
<1>3. k \in I /\ I \in SUBSET Nat
  BY <1>1, <1>2
<1>4. r \in I /\ r <= k
  <2> HIDE DEF I
  <2> QED BY <1>3, MinIs
<1>5. Rating(rows, v) = r
  <2>1. I # {}
    BY <1>3
  <2> QED BY <2>1 DEF Rating, S!SelectInSeq, S!Min
<1>6. r \in 1 .. n /\ rows[r] \in stats /\ rows[r].name = v.name
  BY <1>1, <1>4
<1>7. /\ Place(stats, v) \in Nat /\ Ties(stats, v) \in Nat
      /\ k <= Place(stats, v) + Ties(stats, v)
      /\ Alone(stats, v) => k = Place(stats, v)
  BY <1>2, PlaceIs
<1>8. Alone(stats, v) => r = k
  <2> SUFFICES ASSUME Alone(stats, v) PROVE r = k
    OBVIOUS
  <2>1. rows[r] = rows[k]
    BY <1>2, <1>6 DEF Alone
  <2> HIDE DEF r
  <2> QED BY <1>2, <1>6, <2>1, SortedIs
<1> HIDE DEF r, I, n
<1> QED BY <1>1, <1>2, <1>4, <1>5, <1>6, <1>7, <1>8

\* Nobody left out has more than one who is shown.
LEMMA ShownAre ==
    ASSUME NEW stats, Lines(stats), NEW rows \in sortPidors(stats),
           NEW v \in stats \ S!ToSet(Shown(rows)), NEW a \in S!ToSet(Shown(rows))
    PROVE  a.count >= v.count
<1> DEFINE n == Cardinality(stats)
           m == F!Min({Len(rows), StatsLen})
<1>1. n \in Nat /\ Len(rows) = n /\ rows \in [1 .. n -> stats]
  BY EveryoneListed, SortedIs
<1>2. m \in Nat /\ m <= n
  <2>1. StatsLen \in Nat
    BY StatsAssumption
  <2> QED BY <1>1, <2>1 DEF F!Min
<1> HIDE DEF m
<1>3. S!ToSet(Shown(rows)) = {rows[i] : i \in 1 .. m}
  <2>1. rows \in Seq(stats)
    BY <1>1
  <2>2. /\ DOMAIN SubSeq(rows, 1, m) = 1 .. m
        /\ \A i \in 1 .. m : SubSeq(rows, 1, m)[i] = rows[i]
    BY <1>1, <1>2, <2>1
  <2>3. Shown(rows) = SubSeq(rows, 1, m)
    BY DEF Shown, m
  <2> QED BY ONLY <2>2, <2>3 DEF S!ToSet
<1>4. PICK i \in 1 .. m : a = rows[i]
  BY <1>3
<1>5. PICK k \in 1 .. n : v = rows[k]
  BY EveryoneListed
<1>6. m < k
  BY <1>2, <1>3, <1>5
<1>7. i \in 1 .. n /\ i < k
  BY <1>1, <1>2, <1>6
<1>8. ~Precedes(v, a)
  BY <1>4, <1>5, <1>7, SortedIs
<1>9. a \in stats /\ a.count \in Nat /\ v.count \in Nat
  BY <1>1, <1>4, <1>7 DEF Lines
<1> QED BY <1>8, <1>9 DEF Precedes

\* The statistics agree with the rolls at any moment, by a sort that may leave
\* equal lines in any order.
LEMMA StatsAgree ==
    ASSUME TypeOK
    PROVE  StatsTrue
<1> SUFFICES ASSUME NEW c \in Channels
             PROVE  /\ Total(Stats(c)) = Times(RowsOf(c))
                    /\ sortPidors(Stats(c)) # {}
                    /\ \A rows \in sortPidors(Stats(c)) :
                         /\ \A v \in Stats(c) :
                              /\ Rating(rows, v) \in 1 .. Place(Stats(c), v) + Ties(Stats(c), v)
                              /\ Alone(Stats(c), v) => Rating(rows, v) = Place(Stats(c), v)
                         /\ \A v \in Stats(c) \ S!ToSet(Shown(rows)),
                               a \in S!ToSet(Shown(rows)) : a.count >= v.count
  BY DEF StatsTrue
<1>1. Lines(Stats(c))
  <2>1. \A v \in Stats(c) : v.user \in Nat
    BY StatsAre, PidorAssumption DEF Users
  <2> QED BY <2>1, StatsAre DEF Lines
<1>2. Total(Stats(c)) = Times(RowsOf(c))
  BY TotalTrue
<1> QED BY <1>1, <1>2, OrderExists, RatingIs, ShownAre

\* StatsTrue for any channels, users, names, file and length of the list.
THEOREM StatsHolds == Spec => []StatsTrue
<1>1. TypeOK => StatsTrue
  BY StatsAgree
<1> QED BY <1>1, TypeCorrect, PTL
=============================================================================
