----------------------------- MODULE CookieProofs -----------------------------
(***************************************************************************)
(* Proofs about CookieGetter, for any finite number of callers and any     *)
(* number of changes of the challenge.                                     *)
(*                                                                         *)
(* Types need that no more waiters are counted than callers are parked.    *)
(* OneSolver is mutual exclusion by the mutex of the Once: as long as no   *)
(* zero Once was assigned while somebody used the old one, a caller inside *)
(* holds the mutex and is alone.                                           *)
(***************************************************************************)
EXTENDS CookieGetter, FiniteSetTheorems, TLAPS

Parked == {u \in Callers : pc[u] = "parked"}

TypeInv ==
    /\ TypeOK
    /\ once.waiters <= Cardinality(Parked)

InMutex == {"inside", "solve", "store", "unlock"}

MutexInv ==
    ~overlap =>
        /\ \A t \in Callers : pc[t] \in InMutex => once.locked
        /\ \A t, u \in Callers : pc[t] \in InMutex /\ pc[u] \in InMutex => t = u

Once == [done : BOOLEAN, locked : BOOLEAN, woken : BOOLEAN, waiters : Nat]

LEMMA ParkedFinite ==
    /\ IsFiniteSet(Parked) /\ Cardinality(Parked) \in Nat
    /\ Cardinality(Parked) <= Cardinality(Callers) /\ Cardinality(Callers) \in Nat
<1>1. IsFiniteSet(Callers) /\ Parked \subseteq Callers
  BY CookieAssumption DEF Parked
<1> QED BY <1>1, FS_Subset, FS_CardinalityType

\* The waiter counter through a step that parks and unparks nobody.
LEMMA SameParked ==
    ASSUME NEW t \in Callers, NEW l, pc \in [Callers -> CallerPc],
           Goto(t, l), l # "parked", pc[t] # "parked"
    PROVE  Parked' = Parked
BY DEF Goto, Parked

LEMMA TypeFacts ==
    ASSUME TypeOK
    PROVE  /\ pc \in [Callers -> CallerPc] /\ cur \in [Callers -> Cookies]
           /\ cookie \in Cookies /\ epoch \in Cookies /\ clientCookie \in Cookies
           /\ Torn \in Cookies /\ NoCookie \in Cookies /\ Torn \in 1 .. Torn
           /\ once \in Once
           /\ \A c \in Cookies : c # NoCookie => c \in 1 .. Torn
BY CookieAssumption, ParkedFinite
   DEF TypeOK, Cookies, NoCookie, Torn, Once

-----------------------------------------------------------------------------
(* Types *)

LEMMA TypeInit == Init => TypeInv
<1> SUFFICES ASSUME Init PROVE TypeInv
  OBVIOUS
<1>1. Parked = {} /\ once.waiters = 0
  BY DEF Init, Parked, ZeroOnce
<1>2. Cardinality(Parked) = 0 /\ Cardinality(Callers) \in Nat
  BY <1>1, FS_EmptySet, ParkedFinite
<1>3. TypeOK
  <2>1. once \in [done : BOOLEAN, locked : BOOLEAN, woken : BOOLEAN,
                 waiters : 0 .. Cardinality(Callers)]
    BY <1>2 DEF Init, ZeroOnce
  <2>2. stopped \in BOOLEAN /\ crashed \in BOOLEAN /\ overlap \in BOOLEAN
        /\ fresh \in BOOLEAN
    BY DEF Init
  <2>3. /\ pc \in [Callers -> CallerPc] /\ cur \in [Callers -> Cookies]
        /\ bg \in {"sleep", "solve", "store", "gone"}
        /\ epoch \in 1 .. MaxEpoch /\ clientCookie \in Cookies
        /\ cookie \in NoCookie .. MaxEpoch /\ bgCookie \in NoCookie .. MaxEpoch
    BY CookieAssumption DEF Init, CallerPc, Cookies, NoCookie, Torn
  <2> QED BY <2>1, <2>2, <2>3 DEF TypeOK, Init
<1> QED BY <1>1, <1>2, <1>3 DEF TypeInv

\* What Lock and Woken have in common: o is the Once, or the Once without its
\* woken bit.
LEMMA AcquireTypes ==
    ASSUME TypeInv, NEW t \in Callers, pc[t] # "parked",
           NEW o \in Once, o.waiters = once.waiters, Acquire(t, o)
    PROVE  /\ once' \in Once /\ once'.waiters <= Cardinality(Parked')
           /\ pc' \in [Callers -> CallerPc]
<1>1. /\ pc \in [Callers -> CallerPc] /\ once.waiters <= Cardinality(Parked)
      /\ once.waiters \in Nat
  BY TypeFacts DEF TypeInv, Once
<1>2. IsFiniteSet(Parked) /\ Cardinality(Parked) \in Nat
  BY ParkedFinite
<1>3. CASE o.locked
  <2>1. /\ once' = [o EXCEPT !.waiters = @ + 1] /\ pc' = [pc EXCEPT ![t] = "parked"]
    BY <1>3 DEF Acquire, Goto
  <2>2. Parked' = Parked \cup {t} /\ t \notin Parked
    BY <1>1, <2>1 DEF Parked
  <2>3. Cardinality(Parked') = Cardinality(Parked) + 1
    BY <1>2, <2>2, FS_AddElement
  <2>4. once' \in Once /\ once'.waiters = once.waiters + 1
    BY <2>1 DEF Once
  <2>5. pc' \in [Callers -> CallerPc]
    BY <1>1, <2>1 DEF CallerPc, InOnce
  <2> QED BY <1>1, <1>2, <2>3, <2>4, <2>5
<1>4. CASE ~o.locked
  <2>1. /\ once' = [o EXCEPT !.locked = TRUE] /\ pc' = [pc EXCEPT ![t] = "inside"]
    BY <1>4 DEF Acquire, Goto
  <2>2. Parked' = Parked
    BY <1>1, <2>1 DEF Parked
  <2>3. once' \in Once /\ once'.waiters = once.waiters
    BY <2>1 DEF Once
  <2>4. pc' \in [Callers -> CallerPc]
    BY <1>1, <2>1 DEF CallerPc, InOnce
  <2> QED BY <1>1, <2>2, <2>3, <2>4
<1> QED BY <1>3, <1>4

\* The waiters of a Once are also bounded by the number of callers.
LEMMA OnceBound ==
    ASSUME once' \in Once, once'.waiters <= Cardinality(Parked'),
           pc' \in [Callers -> CallerPc]
    PROVE  once' \in [done : BOOLEAN, locked : BOOLEAN, woken : BOOLEAN,
                     waiters : 0 .. Cardinality(Callers)]
<1>1. IsFiniteSet(Callers) /\ Parked' \subseteq Callers
  BY CookieAssumption DEF Parked
<1>2. /\ Cardinality(Parked') <= Cardinality(Callers)
      /\ Cardinality(Parked') \in Nat /\ Cardinality(Callers) \in Nat
  BY <1>1, FS_Subset, FS_CardinalityType
<1> QED BY <1>2 DEF Once

LEMMA UnlockTypes ==
    ASSUME TypeInv, NEW t \in Callers, Unlock(t)
    PROVE  /\ once' \in Once /\ once'.waiters <= Cardinality(Parked')
           /\ pc' \in [Callers -> CallerPc] /\ crashed' \in BOOLEAN
<1>1. /\ pc \in [Callers -> CallerPc] /\ once.waiters <= Cardinality(Parked)
      /\ once \in Once /\ once.waiters \in Nat /\ pc[t] = "unlock"
      /\ crashed \in BOOLEAN
  BY TypeFacts DEF TypeInv, TypeOK, Once, Unlock, At
<1>2. IsFiniteSet(Parked) /\ Cardinality(Parked) \in Nat
  BY ParkedFinite
<1>3. CASE ~once.locked
  <2>1. crashed' = TRUE /\ UNCHANGED <<once, pc>>
    BY <1>3 DEF Unlock
  <2>2. Parked' = Parked
    BY <2>1 DEF Parked
  <2> QED BY <1>1, <2>1, <2>2
<1>4. CASE once.locked /\ once.waiters > 0 /\ ~once.woken
  <2>1. once' = [once EXCEPT !.locked = FALSE, !.woken = TRUE, !.waiters = @ - 1]
        /\ crashed' = crashed
    BY <1>4 DEF Unlock
  <2>2. PICK u \in Callers : /\ pc[u] = "parked"
                             /\ pc' = [pc EXCEPT ![u] = "woken", ![t] = "check"]
    BY <1>4 DEF Unlock
  <2>3. Parked' = Parked \ {u} /\ u \in Parked
    BY <1>1, <2>2 DEF Parked
  <2>4. Cardinality(Parked') = Cardinality(Parked) - 1
    BY <1>2, <2>3, FS_RemoveElement
  <2>5. once' \in Once /\ once'.waiters = once.waiters - 1
    <3>1. once.waiters - 1 \in Nat
      BY <1>1, <1>4
    <3>2. once \in [done : BOOLEAN, locked : BOOLEAN, woken : BOOLEAN, waiters : Nat]
      BY <1>1 DEF Once
    <3> QED BY <2>1, <3>1, <3>2 DEF Once
  <2>6. pc' \in [Callers -> CallerPc]
    BY <1>1, <2>2 DEF CallerPc, InOnce
  <2> QED BY <1>1, <1>2, <2>1, <2>4, <2>5, <2>6
<1>5. CASE once.locked /\ ~(once.waiters > 0 /\ ~once.woken)
  <2>1. once' = [once EXCEPT !.locked = FALSE] /\ crashed' = crashed
        /\ pc' = [pc EXCEPT ![t] = "check"]
    BY <1>5 DEF Unlock, Goto
  <2>2. Parked' = Parked
    BY <1>1, <2>1 DEF Parked
  <2>3. once' \in Once /\ once'.waiters = once.waiters
    BY <1>1, <2>1 DEF Once
  <2>4. pc' \in [Callers -> CallerPc]
    BY <1>1, <2>1 DEF CallerPc
  <2> QED BY <1>1, <2>1, <2>2, <2>3, <2>4
<1> QED BY <1>3, <1>4, <1>5

\* A step that keeps or only marks the Once, and parks nobody.
LEMMA OnceKept ==
    ASSUME TypeInv, Parked' = Parked, pc' \in [Callers -> CallerPc],
           \/ once' = once
           \/ once' = ZeroOnce
           \/ once' = [once EXCEPT !.done = TRUE]
    PROVE  /\ once'.waiters <= Cardinality(Parked')
           /\ once' \in [done : BOOLEAN, locked : BOOLEAN, woken : BOOLEAN,
                        waiters : 0 .. Cardinality(Callers)]
<1>1. once \in Once /\ once.waiters <= Cardinality(Parked)
  BY TypeFacts DEF TypeInv
<1>2. Cardinality(Parked) \in Nat
  BY ParkedFinite
<1>3. once' \in Once /\ once'.waiters \in {0, once.waiters}
  <2>1. CASE once' = ZeroOnce
    BY <2>1 DEF Once, ZeroOnce
  <2>2. CASE once' = once
    BY <1>1, <2>2
  <2>3. CASE once' = [once EXCEPT !.done = TRUE]
    BY <1>1, <2>3 DEF Once
  <2> QED BY <2>1, <2>2, <2>3
<1>4. once'.waiters <= Cardinality(Parked')
  BY <1>1, <1>2, <1>3
<1> QED BY <1>3, <1>4, OnceBound

\* A caller goes on without touching the Once, or as OnceKept says.
LEMMA CallFrame ==
    ASSUME TypeInv, NEW t \in Callers, NEW l \in CallerPc \ {"parked"},
           pc[t] # "parked", Goto(t, l),
           \/ once' = once
           \/ once' = ZeroOnce
           \/ once' = [once EXCEPT !.done = TRUE]
    PROVE  /\ pc' \in [Callers -> CallerPc]
           /\ once'.waiters <= Cardinality(Parked')
           /\ once' \in [done : BOOLEAN, locked : BOOLEAN, woken : BOOLEAN,
                        waiters : 0 .. Cardinality(Callers)]
<1>1. pc \in [Callers -> CallerPc]
  BY DEF TypeInv, TypeOK
<1>2. Parked' = Parked /\ pc' \in [Callers -> CallerPc]
  BY <1>1 DEF Goto, Parked
<1> QED BY <1>2, OnceKept

\* A caller that is about to store a cookie holds one.
Held == \A u \in Callers : pc[u] = "store" => cur[u] \in 1 .. MaxEpoch

LEMMA HeldKept ==
    ASSUME Held,
           \A u \in Callers : pc'[u] = "store" => pc[u] = "store" /\ cur'[u] = cur[u]
    PROVE  Held'
BY DEF Held

LEMMA HeldStep ==
    ASSUME TypeOK, NEW t \in Callers, Call(t)
    PROVE  Held'
<1> USE DEF flareVars, At, Goto, Hold
<1>1. /\ pc \in [Callers -> CallerPc] /\ cur \in [Callers -> Cookies]
      /\ epoch \in 1 .. MaxEpoch /\ Held
  BY DEF TypeOK, Held
<1> DEFINE Kept == \A u \in Callers : pc'[u] = "store" =>
                                        pc[u] = "store" /\ cur'[u] = cur[u]
<1>2. CASE ReadClient(t) \/ Hit(t) \/ Return(t)
  <2>1. \E c : cur' = [cur EXCEPT ![t] = c]
    BY <1>2 DEF ReadClient, Hit, Return
  <2>2. PICK l \in {"request", "flare", "keep"} : pc' = [pc EXCEPT ![t] = l]
    BY <1>2 DEF ReadClient, Hit, Return
  <2>3. \A u \in Callers \ {t} : pc'[u] = pc[u] /\ cur'[u] = cur[u]
    BY <1>1, <2>1, <2>2
  <2>4. pc'[t] # "store"
    BY <1>1, <2>2
  <2>5. Kept
    BY <2>3, <2>4
  <2> QED BY <1>1, <2>5, HeldKept
<1>3. CASE SolveOK(t)
  <2>1. pc' = [pc EXCEPT ![t] = "store"] /\ cur' = [cur EXCEPT ![t] = epoch]
    BY <1>3 DEF SolveOK
  <2> QED BY <1>1, <2>1 DEF Held
<1>4. CASE \/ Keep(t) \/ ReadFlare(t) \/ OnceFast(t) \/ Inside(t) \/ Check(t)
           \/ Answered(t) \/ Clear(t) \/ SolveStore(t) \/ SolveFail(t)
           \/ Reset(t) \/ Forbidden(t)
  <2>1. cur' = cur /\ \E l \in CallerPc \ {"store"} : pc' = [pc EXCEPT ![t] = l]
    BY <1>4 DEF Keep, ReadFlare, OnceFast, Inside, Check, Answered, Clear,
                SolveStore, SolveFail, Reset, Forbidden, CallerPc, InOnce
  <2>2. Kept
    BY <1>1, <2>1
  <2> QED BY <1>1, <2>2, HeldKept
<1>5. CASE Lock(t) \/ Woken(t)
  <2>1. cur' = cur
    BY <1>5 DEF Lock, Woken
  <2>2. pc' = pc \/ \E l \in {"parked", "inside"} : pc' = [pc EXCEPT ![t] = l]
    BY <1>5 DEF Lock, Woken, Acquire
  <2>3. Kept
    BY <1>1, <2>1, <2>2
  <2> QED BY <1>1, <2>3, HeldKept
<1>6. CASE Unlock(t)
  <2>1. cur' = cur
    BY <1>6 DEF Unlock
  <2>2. \/ pc' = pc
        \/ pc' = [pc EXCEPT ![t] = "check"]
        \/ \E u \in Callers : pc' = [pc EXCEPT ![u] = "woken", ![t] = "check"]
    BY <1>6 DEF Unlock
  <2>3. Kept
    BY <1>1, <2>1, <2>2
  <2> QED BY <1>1, <2>3, HeldKept
<1> QED BY <1>2, <1>3, <1>4, <1>5, <1>6 DEF Call

LEMMA TypeCallStep ==
    ASSUME TypeInv, NEW t \in Callers, Call(t)
    PROVE  TypeInv'
<1> USE DEF flareVars, envVars, history, At
<1>1. pc \in [Callers -> CallerPc] /\ pc[t] \in CallerPc
  BY DEF TypeInv, TypeOK
<1> DEFINE OnceOK == /\ pc' \in [Callers -> CallerPc]
                     /\ once'.waiters <= Cardinality(Parked')
                     /\ once' \in [done : BOOLEAN, locked : BOOLEAN, woken : BOOLEAN,
                                  waiters : 0 .. Cardinality(Callers)]
<1>9. Held'
  BY HeldStep DEF TypeInv
<1>2. CASE ReadClient(t) \/ Keep(t) \/ ReadFlare(t) \/ OnceFast(t) \/ Inside(t)
           \/ Check(t) \/ Answered(t) \/ Clear(t)
  <2>1. OnceOK
    <3>1. \E l \in CallerPc \ {"parked"} : Goto(t, l)
      BY <1>2 DEF ReadClient, Keep, ReadFlare, OnceFast, Inside, Check, Answered,
                  Clear, CallerPc, InOnce
    <3>2. pc[t] # "parked" /\ once' = once
      BY <1>2 DEF ReadClient, Keep, ReadFlare, OnceFast, Inside, Check, Answered, Clear
    <3> QED BY <3>1, <3>2, CallFrame
  <2>2. clientCookie' \in Cookies /\ cur' \in [Callers -> Cookies]
    BY <1>2, TypeFacts
       DEF ReadClient, Keep, ReadFlare, OnceFast, Inside, Check, Answered, Clear,
           Hold, TypeInv
  <2>3. UNCHANGED <<epoch, cookie, fresh, bg, bgCookie, stopped, crashed, overlap, refused>>
    BY <1>2 DEF ReadClient, Keep, ReadFlare, OnceFast, Inside, Check, Answered, Clear
  <2> QED BY <1>9, <2>1, <2>2, <2>3 DEF TypeInv, TypeOK, Held
<1>3. CASE Hit(t) \/ Return(t)
  <2>1. Goto(t, "keep") /\ pc[t] # "parked" /\ once' = once
    BY <1>3 DEF Hit, Return
  <2>2. OnceOK
    BY <2>1, CallFrame DEF CallerPc
  <2>3. cur' \in [Callers -> Cookies]
    BY <1>3, TypeFacts DEF Hit, Return, Hold, TypeInv
  <2>4. UNCHANGED <<epoch, clientCookie, cookie, fresh, bg, bgCookie, stopped, crashed,
                    overlap, refused>>
    BY <1>3 DEF Hit, Return
  <2> QED BY <1>9, <2>2, <2>3, <2>4 DEF TypeInv, TypeOK, Held
<1>4. CASE Lock(t) \/ Woken(t)
  <2>1. UNCHANGED <<epoch, clientCookie, cur, cookie, fresh, bg, bgCookie, stopped, overlap,
                    refused>>
    BY <1>4 DEF Lock, Woken
  <2>2. CASE Lock(t)
    <3>1. pc[t] # "parked" /\ Acquire(t, once) /\ crashed' = crashed
      BY <2>2 DEF Lock
    <3>2. OnceOK
      BY <3>1, AcquireTypes, TypeFacts, OnceBound DEF TypeInv
    <3> QED BY <1>9, <2>1, <3>1, <3>2 DEF TypeInv, TypeOK, Held
  <2>3. CASE Woken(t) /\ once.woken
    <3> DEFINE o == [once EXCEPT !.woken = FALSE]
    <3>1. pc[t] # "parked" /\ Acquire(t, o) /\ crashed' = crashed
      BY <2>3 DEF Woken
    <3>2. o \in Once /\ o.waiters = once.waiters
      BY TypeFacts DEF TypeInv, Once
    <3> HIDE DEF o
    <3>3. OnceOK
      BY <3>1, <3>2, AcquireTypes, OnceBound
    <3> QED BY <1>9, <2>1, <3>1, <3>3 DEF TypeInv, TypeOK, Held
  <2>4. CASE Woken(t) /\ ~once.woken
    <3>1. crashed' = TRUE /\ UNCHANGED <<once, pc>>
      BY <2>4 DEF Woken
    <3> QED BY <1>9, <2>1, <3>1 DEF TypeInv, TypeOK, Parked, Held
  <2> QED BY <1>4, <2>2, <2>3, <2>4
<1>5. CASE SolveOK(t)
  <2>1. /\ Goto(t, "store") /\ pc[t] # "parked" /\ once' = once
        /\ UNCHANGED <<epoch, clientCookie, cookie, fresh, bg, bgCookie, stopped,
                      crashed, overlap, refused>>
    BY <1>5 DEF SolveOK
  <2>2. OnceOK
    BY <2>1, CallFrame DEF CallerPc, InOnce
  <2>3. cur' \in [Callers -> Cookies]
    BY <1>5, TypeFacts DEF SolveOK, Hold, TypeInv
  <2> QED BY <1>9, <2>1, <2>2, <2>3 DEF TypeInv, TypeOK, Held
<1>10. CASE SolveStore(t) \/ SolveFail(t)
  <2>1. /\ Goto(t, "unlock") /\ pc[t] # "parked"
        /\ once' = [once EXCEPT !.done = TRUE]
        /\ UNCHANGED <<epoch, clientCookie, cur, bg, bgCookie, stopped, crashed,
                      overlap, refused>>
    BY <1>10 DEF SolveStore, SolveFail
  <2>2. OnceOK
    BY <2>1, CallFrame DEF CallerPc, InOnce
  <2>3. cookie' \in NoCookie .. MaxEpoch /\ (cookie' = NoCookie => ~fresh')
    BY <1>10, CookieAssumption DEF SolveStore, SolveFail, TypeInv, TypeOK, NoCookie
  <2>4. fresh' \in BOOLEAN
    BY <1>10 DEF SolveStore, SolveFail, TypeInv, TypeOK
  <2> QED BY <1>9, <2>1, <2>2, <2>3, <2>4 DEF TypeInv, TypeOK, Held
<1>6. CASE Unlock(t)
  <2>1. OnceOK /\ crashed' \in BOOLEAN
    BY <1>6, UnlockTypes, OnceBound
  <2>2. UNCHANGED <<epoch, clientCookie, cur, cookie, fresh, bg, bgCookie, stopped, overlap,
                    refused>>
    BY <1>6 DEF Unlock
  <2> QED BY <1>9, <2>1, <2>2 DEF TypeInv, TypeOK, Held
<1>7. CASE Reset(t)
  <2>1. /\ Goto(t, "return") /\ pc[t] # "parked" /\ once' = ZeroOnce
        /\ UNCHANGED <<epoch, clientCookie, cur, cookie, fresh, bg, bgCookie, stopped, crashed,
                      refused>>
    BY <1>7 DEF Reset
  <2>2. OnceOK
    BY <2>1, CallFrame DEF CallerPc
  <2>3. overlap' \in BOOLEAN
    BY <1>7 DEF Reset, TypeInv, TypeOK
  <2> QED BY <1>9, <2>1, <2>2, <2>3 DEF TypeInv, TypeOK, Held
<1>8. CASE Forbidden(t)
  <2>1. /\ Goto(t, "clear") /\ pc[t] # "parked" /\ once' = once
        /\ UNCHANGED <<epoch, clientCookie, cur, cookie, fresh, bg, bgCookie, stopped, crashed,
                      overlap>>
    BY <1>8 DEF Forbidden
  <2>2. OnceOK
    BY <2>1, CallFrame DEF CallerPc
  <2>3. refused' \in SUBSET (1 .. Torn)
    <3>1. cur[t] \in Cookies
      BY TypeFacts DEF TypeInv
    <3> QED BY <1>8, <3>1, TypeFacts DEF Forbidden, TypeInv, TypeOK
  <2> QED BY <1>9, <2>1, <2>2, <2>3 DEF TypeInv, TypeOK, Held
<1> QED BY <1>2, <1>3, <1>4, <1>5, <1>6, <1>7, <1>8, <1>10 DEF Call

LEMMA TypeStep == TypeInv /\ [Next]_vars => TypeInv'
<1> SUFFICES ASSUME TypeInv, [Next]_vars PROVE TypeInv'
  OBVIOUS
<1> USE DEF flareVars, envVars, history, bgRest, bgKeeps, BgGoto
<1>1. CASE Round
  <2>1. pc' = [t \in Callers |-> "start"] /\ cur' = [t \in Callers |-> NoCookie]
        /\ UNCHANGED <<flareVars, clientCookie, envVars, crashed, history>>
    BY <1>1 DEF Round
  <2>2. Parked' = Parked
    BY <1>1, <2>1 DEF Parked, Round
  <2>3. pc' \in [Callers -> CallerPc] /\ cur' \in [Callers -> Cookies]
    BY <2>1, TypeFacts DEF CallerPc, TypeInv
  <2> QED BY <2>1, <2>2, <2>3 DEF TypeInv, TypeOK
<1>2. CASE BgTick \/ BgOK \/ BgFail \/ BgStore \/ BgStop
  <2>1. /\ bg' \in {"sleep", "solve", "store", "gone"} /\ UNCHANGED bgRest
        /\ \/ bgCookie' = bgCookie /\ bg' # "store"
           \/ bgCookie' = epoch
           \/ bgCookie' = NoCookie /\ bg' # "store"
        /\ \/ UNCHANGED <<cookie, fresh>>
           \/ bg = "store" /\ cookie' = bgCookie /\ fresh' = TRUE
    BY <1>2 DEF BgTick, BgOK, BgFail, BgStore, BgStop
  <2>2. cookie' \in NoCookie .. MaxEpoch /\ (cookie' = NoCookie => ~fresh')
    BY <2>1, CookieAssumption DEF TypeInv, TypeOK, NoCookie
  <2>3. bgCookie' \in NoCookie .. MaxEpoch /\ (bg' = "store" => bgCookie' # NoCookie)
    BY <2>1, CookieAssumption DEF TypeInv, TypeOK, NoCookie
  <2>4. fresh' \in BOOLEAN
    BY <2>1 DEF TypeInv, TypeOK
  <2> QED BY <2>1, <2>2, <2>3, <2>4 DEF TypeInv, TypeOK, Parked
<1>3. CASE Expire
  BY <1>3 DEF Expire, TypeInv, TypeOK, Parked
<1>4. CASE Revoke
  <2>1. epoch' \in 1 .. MaxEpoch
    BY <1>4, CookieAssumption DEF Revoke, TypeInv, TypeOK
  <2> QED BY <1>4, <2>1 DEF Revoke, TypeInv, TypeOK, Parked
<1>5. CASE Stop
  BY <1>5 DEF Stop, TypeInv, TypeOK, Parked
<1>6. CASE UNCHANGED vars
  BY <1>6 DEF vars, TypeInv, TypeOK, Parked
<1> QED BY <1>1, <1>2, <1>3, <1>4, <1>5, <1>6, TypeCallStep DEF Next

\* Types hold.
THEOREM TypeCorrect == Spec => []TypeOK
<1>1. TypeInv => TypeOK
  BY DEF TypeInv
<1> QED BY <1>1, TypeInit, TypeStep, PTL DEF Spec

-----------------------------------------------------------------------------
(* The Once as a mutex *)

\* Nobody comes into the mutex, and whoever is in keeps it locked.
LEMMA MutexFrame ==
    ASSUME TypeOK, MutexInv, overlap' = overlap,
           \A u \in Callers : pc'[u] \in InMutex => pc[u] \in InMutex,
           once'.locked = once.locked
    PROVE  MutexInv'
BY DEF MutexInv

LEMMA MutexAcquire ==
    ASSUME TypeOK, MutexInv, NEW t \in Callers, NEW o \in Once,
           o.locked = once.locked, Acquire(t, o), overlap' = overlap
    PROVE  MutexInv'
<1>1. pc \in [Callers -> CallerPc]
  BY DEF TypeOK
<1>2. CASE o.locked
  <2>1. /\ once' = [o EXCEPT !.waiters = @ + 1] /\ pc' = [pc EXCEPT ![t] = "parked"]
    BY <1>2 DEF Acquire, Goto
  <2>2. \A u \in Callers : pc'[u] \in InMutex => pc[u] \in InMutex
    BY <1>1, <2>1 DEF InMutex
  <2>3. once'.locked = once.locked
    BY <2>1 DEF Once
  <2> QED BY <2>2, <2>3, MutexFrame
<1>3. CASE ~o.locked
  <2>1. /\ once' = [o EXCEPT !.locked = TRUE] /\ pc' = [pc EXCEPT ![t] = "inside"]
    BY <1>3 DEF Acquire, Goto
  <2>2. ~overlap => \A u \in Callers : pc[u] \notin InMutex
    BY <1>3 DEF MutexInv
  <2>3. once'.locked
    BY <2>1 DEF Once
  <2>4. ~overlap => \A u \in Callers : pc'[u] \in InMutex => u = t
    BY <1>1, <2>1, <2>2
  <2> QED BY <2>3, <2>4 DEF MutexInv
<1> QED BY <1>2, <1>3

LEMMA MutexUnlock ==
    ASSUME TypeOK, MutexInv, NEW t \in Callers, Unlock(t)
    PROVE  MutexInv'
<1>1. /\ pc \in [Callers -> CallerPc] /\ pc[t] = "unlock" /\ overlap' = overlap
  BY DEF TypeOK, Unlock, At, history
<1>2. CASE ~once.locked
  <2>1. UNCHANGED <<once, pc>>
    BY <1>2 DEF Unlock
  <2> QED BY <1>1, <2>1 DEF MutexInv
<1>3. CASE once.locked
  <2>1. \A u \in Callers : pc'[u] \in InMutex => pc[u] \in InMutex /\ u # t
    <3>1. CASE once.waiters > 0 /\ ~once.woken
      <4>1. PICK u \in Callers : /\ pc[u] = "parked"
                                 /\ pc' = [pc EXCEPT ![u] = "woken", ![t] = "check"]
        BY <1>3, <3>1 DEF Unlock
      <4> QED BY <1>1, <4>1 DEF InMutex
    <3>2. CASE ~(once.waiters > 0 /\ ~once.woken)
      <4>1. pc' = [pc EXCEPT ![t] = "check"]
        BY <1>3, <3>2 DEF Unlock, Goto
      <4> QED BY <1>1, <4>1 DEF InMutex
    <3> QED BY <3>1, <3>2
  <2>2. ~overlap => \A u \in Callers : pc[u] \in InMutex => u = t
    BY <1>1 DEF MutexInv, InMutex
  <2> QED BY <1>1, <2>1, <2>2 DEF MutexInv
<1> QED BY <1>2, <1>3

LEMMA MutexStep ==
    ASSUME TypeOK, MutexInv, [Next]_vars
    PROVE  MutexInv'
<1> USE DEF flareVars, envVars, history, bgRest, bgKeeps, BgGoto, At
<1>1. pc \in [Callers -> CallerPc] /\ once \in Once
  BY TypeFacts DEF TypeOK
<1>2. ASSUME NEW t \in Callers, Call(t) PROVE MutexInv'
  <2>1. CASE \/ ReadClient(t) \/ Keep(t) \/ ReadFlare(t) \/ Hit(t) \/ Return(t)
             \/ OnceFast(t) \/ Check(t) \/ Answered(t) \/ Forbidden(t) \/ Clear(t)
    <3>1. PICK l \in CallerPc \ InMutex : Goto(t, l)
      BY <2>1 DEF ReadClient, Keep, ReadFlare, Hit, Return, OnceFast, Check, Answered,
                  Forbidden, Clear, CallerPc, InMutex
    <3>2. overlap' = overlap /\ once' = once
      BY <2>1 DEF ReadClient, Keep, ReadFlare, Hit, Return, OnceFast, Check, Answered,
                  Forbidden, Clear
    <3>3. \A u \in Callers : pc'[u] \in InMutex => pc[u] \in InMutex
      BY <1>1, <3>1 DEF Goto
    <3> QED BY <3>2, <3>3, MutexFrame
  <2>2. CASE Inside(t) \/ SolveOK(t) \/ SolveStore(t) \/ SolveFail(t)
    <3>1. /\ pc[t] \in InMutex /\ overlap' = overlap
          /\ once' = once \/ once' = [once EXCEPT !.done = TRUE]
      BY <2>2 DEF Inside, SolveOK, SolveStore, SolveFail, InMutex
    <3>2. PICK l : Goto(t, l)
      BY <2>2 DEF Inside, SolveOK, SolveStore, SolveFail
    <3>3. \A u \in Callers : pc'[u] \in InMutex => pc[u] \in InMutex
      BY <1>1, <3>1, <3>2 DEF Goto
    <3>4. once'.locked = once.locked
      BY <1>1, <3>1 DEF Once
    <3> QED BY <3>1, <3>3, <3>4, MutexFrame
  <2>3. CASE Lock(t)
    BY <1>1, <2>3, MutexAcquire DEF Lock
  <2>4. CASE Woken(t) /\ once.woken
    <3> DEFINE o == [once EXCEPT !.woken = FALSE]
    <3>1. Acquire(t, o) /\ overlap' = overlap
      BY <2>4 DEF Woken
    <3>2. o \in Once /\ o.locked = once.locked
      BY <1>1 DEF Once
    <3> HIDE DEF o
    <3> QED BY <3>1, <3>2, MutexAcquire
  <2>5. CASE Woken(t) /\ ~once.woken
    BY <2>5 DEF Woken, MutexInv
  <2>6. CASE Unlock(t)
    BY <2>6, MutexUnlock
  <2>7. CASE Reset(t)
    <3>1. ~overlap' => ~overlap /\ \A u \in Callers : pc[u] \notin InOnce
      BY <2>7 DEF Reset
    <3>2. \A u \in Callers : pc'[u] \in InMutex => pc[u] \in InMutex
      BY <1>1, <2>7 DEF Reset, Goto, InMutex
    <3> QED BY <3>1, <3>2 DEF MutexInv, InMutex, InOnce
  <2> QED BY <1>2, <2>1, <2>2, <2>3, <2>4, <2>5, <2>6, <2>7 DEF Call
<1>3. CASE Round
  BY <1>3 DEF Round, MutexInv, InMutex
<1>4. CASE BgTick \/ BgOK \/ BgFail \/ BgStore \/ BgStop \/ Expire \/ Revoke
           \/ Stop \/ UNCHANGED vars
  BY <1>4 DEF BgTick, BgOK, BgFail, BgStore, BgStop, Expire, Revoke, Stop, vars,
              MutexInv
<1> QED BY <1>2, <1>3, <1>4 DEF Next

\* "Solve challenge (once at a time)".
THEOREM OneSolverHolds == Spec => []OneSolver
<1>1. Init => MutexInv
  BY DEF Init, MutexInv, InMutex
<1>2. TypeOK /\ MutexInv /\ [Next]_vars => MutexInv'
  BY MutexStep
<1>3. TypeOK /\ MutexInv => OneSolver
  <2> SUFFICES ASSUME TypeOK, MutexInv, ~overlap
               PROVE  Cardinality({t \in Callers : pc[t] \in {"solve", "store"}})
                        <= 1
    BY DEF OneSolver
  <2> DEFINE S == {t \in Callers : pc[t] \in {"solve", "store"}}
  <2>1. \A t, u \in S : t = u
    BY DEF MutexInv, InMutex
  <2>2. CASE S = {}
    BY <2>2, FS_EmptySet
  <2>3. CASE S # {}
    <3>1. PICK t : S = {t}
      BY <2>1, <2>3
    <3> QED BY <3>1, FS_Singleton
  <2> QED BY <2>2, <2>3
<1> QED BY <1>1, <1>2, <1>3, TypeCorrect, PTL DEF Spec

-----------------------------------------------------------------------------
(* Retries *)

LEMMA RetryStep ==
    ASSUME TypeOK, RetryPossible, [Next]_vars
    PROVE  RetryPossible'
<1> USE DEF flareVars, envVars, history, bgRest, bgKeeps, BgGoto, At
<1> SUFFICES ASSUME once'.done, cookie' = NoCookie
             PROVE  \E t \in Callers : pc'[t] \in {"unlock", "check", "reset"}
  BY DEF RetryPossible
<1>1. pc \in [Callers -> CallerPc] /\ once \in Once
  BY TypeFacts DEF TypeOK
<1> DEFINE Late == {"unlock", "check", "reset"}
<1>2. ASSUME NEW t \in Callers, Call(t) PROVE \E u \in Callers : pc'[u] \in Late
  <2>1. CASE SolveStore(t)
    BY <2>1, CookieAssumption DEF SolveStore, TypeOK, NoCookie
  <2>2. CASE SolveFail(t)
    BY <1>1, <2>2 DEF SolveFail, Goto
  <2>3. CASE Reset(t)
    BY <2>3 DEF Reset, ZeroOnce
  <2>4. CASE \/ ReadClient(t) \/ Keep(t) \/ ReadFlare(t) \/ Hit(t) \/ Return(t)
             \/ OnceFast(t) \/ Inside(t) \/ SolveOK(t) \/ Answered(t)
             \/ Forbidden(t) \/ Clear(t)
    <3>1. /\ pc[t] \notin Late /\ once' = once /\ cookie' = cookie
      BY <2>4 DEF ReadClient, Keep, ReadFlare, Hit, Return, OnceFast, Inside, SolveOK,
                  Answered, Forbidden, Clear
    <3>2. PICK l : Goto(t, l)
      BY <2>4 DEF ReadClient, Keep, ReadFlare, Hit, Return, OnceFast, Inside, SolveOK,
                  Answered, Forbidden, Clear
    <3>3. PICK u \in Callers : pc[u] \in Late
      BY <3>1 DEF RetryPossible
    <3>4. u # t
      BY <3>1, <3>3
    <3> QED BY <1>1, <3>2, <3>3, <3>4 DEF Goto
  <2>5. CASE Lock(t) \/ Woken(t)
    <3>1. pc[t] \notin Late /\ once'.done = once.done /\ cookie' = cookie
      BY <1>1, <2>5 DEF Lock, Woken, Acquire, Once
    <3>2. PICK u \in Callers : pc[u] \in Late
      BY <3>1 DEF RetryPossible
    <3>3. u # t
      BY <3>1, <3>2
    <3>4. pc' = pc \/ \E l : pc' = [pc EXCEPT ![t] = l]
      BY <2>5 DEF Lock, Woken, Acquire, Goto
    <3> QED BY <1>1, <3>2, <3>3, <3>4
  <2>6. CASE Check(t)
    BY <1>1, <2>6 DEF Check, Goto
  <2>7. CASE Unlock(t)
    <3>1. CASE ~once.locked
      BY <1>1, <2>7, <3>1 DEF Unlock
    <3>2. CASE once.locked /\ once.waiters > 0 /\ ~once.woken
      <4>1. PICK u \in Callers : /\ pc[u] = "parked"
                                 /\ pc' = [pc EXCEPT ![u] = "woken", ![t] = "check"]
        BY <2>7, <3>2 DEF Unlock
      <4> QED BY <1>1, <4>1
    <3>3. CASE once.locked /\ ~(once.waiters > 0 /\ ~once.woken)
      BY <1>1, <2>7, <3>3 DEF Unlock, Goto
    <3> QED BY <3>1, <3>2, <3>3
  <2> QED BY <1>2, <2>1, <2>2, <2>3, <2>4, <2>5, <2>6, <2>7 DEF Call
<1>3. CASE Round
  BY <1>3 DEF Round, RetryPossible
<1>4. CASE BgStore
  BY <1>4, CookieAssumption DEF BgStore, TypeOK, NoCookie
<1>5. CASE BgTick \/ BgOK \/ BgFail \/ BgStop \/ Expire \/ Revoke \/ Stop
           \/ UNCHANGED vars
  BY <1>5 DEF BgTick, BgOK, BgFail, BgStop, Expire, Revoke, Stop, vars, RetryPossible
<1> QED BY <1>2, <1>3, <1>4, <1>5 DEF Next

\* A failed solve does not use up the Once for good.
THEOREM RetryHolds == Spec => []RetryPossible
<1>1. Init => RetryPossible
  BY DEF Init, RetryPossible, ZeroOnce
<1>2. TypeOK /\ RetryPossible /\ [Next]_vars => RetryPossible'
  BY RetryStep
<1> QED BY <1>1, <1>2, TypeCorrect, PTL DEF Spec
=============================================================================
