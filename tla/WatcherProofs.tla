---------------------------- MODULE WatcherProofs ----------------------------
(***************************************************************************)
(* What holds of the watcher for every set of players, accounts and names, *)
(* every failure threshold and every number of matches.                    *)
(***************************************************************************)
EXTENDS Watcher, FiniteSetTheorems, TLAPS

-----------------------------------------------------------------------------
(* Types *)

\* Run gives up at the last attempt, so an attempt is always left before that.
SyncBound == phase # "stopped" => syncAttempts < MaxSyncAttempts
TypeInv   == TypeOK /\ SyncBound

\* The channel has room for a message: nobody runs the watcher with an empty
\* player list.
LEMMA CapacityPositive ==
  ASSUME NEW S \in SUBSET Players, S # {}
  PROVE  Cardinality(S) \in Nat \ {0}
  BY WatcherAssumption, FS_Subset, FS_CardinalityType, FS_EmptySet
     DEF WatcherAssumption

\* A message of the right type keeps the channel's contents well typed.
LEMMA AppendTyped ==
  ASSUME NEW S, NEW q \in Seq(S), NEW m \in S
  PROVE  Append(q, m) \in Seq(S)
  OBVIOUS

\* Counting one more keeps a family of counters well typed.
LEMMA CountTyped ==
  ASSUME NEW D, NEW f \in [D -> Nat], NEW d \in D
  PROVE  [f EXCEPT ![d] = @ + 1] \in [D -> Nat]
  OBVIOUS

\* Init establishes the type invariant.
LEMMA InitTypeInv == Init => TypeInv
<1> SUFFICES ASSUME Init PROVE TypeInv
    OBVIOUS
<1>1. capacity \in Nat \ {0}
      BY CapacityPositive DEF Init
<1>2. ch \in Seq(Msg)
      BY DEF Init
<1>3. /\ sent \in [Accounts -> [Ids -> Nat]]
      /\ errSent \in [Accounts -> Nat]
      /\ failCount \in [Accounts -> 0 .. MaxConsecutiveFailures]
      BY WatcherAssumption DEF Init, WatcherAssumption
<1>4. SyncBound /\ syncAttempts \in 0 .. MaxSyncAttempts
      BY WatcherAssumption DEF Init, WatcherAssumption, SyncBound
<1>5. /\ pc \in [Players -> PcSet]
      /\ job \in [Players -> Ids \cup {NoMatch}]
      /\ store \in [Names -> Ids \cup {NoMatch}]
      /\ latest \in [Accounts -> Ids \cup {NoMatch}]
      /\ aged \in [Accounts -> Ids \cup {NoMatch}]
      BY DEF Init, PcSet
<1> QED
    BY <1>1, <1>2, <1>3, <1>4, <1>5 DEF Init, TypeInv, TypeOK, PhaseSet

\* Every step of the watcher and of its surroundings preserves it.
LEMMA StepTypeInv == TypeInv /\ [Next]_vars => TypeInv'
<1> SUFFICES ASSUME TypeOK, SyncBound, [Next]_vars PROVE TypeOK' /\ SyncBound'
    BY DEF TypeInv
<1> USE WatcherAssumption
    DEF WatcherAssumption, TypeOK, SyncBound, PhaseSet, PcSet, NoMatch,
        configVars, roundVars, errVars, matchVars, chVars, worldVars
<1>1. CASE SyncOK
      BY <1>1 DEF SyncOK
<1>2. CASE SyncFail
  <2>1. syncAttempts' \in 0 .. MaxSyncAttempts /\ SyncBound'
        BY <1>2 DEF SyncFail, CloseAndStop
  <2> QED BY <1>2, <2>1 DEF SyncFail, CloseAndStop
<1>3. CASE Backoff
      BY <1>3 DEF Backoff, CloseAndStop
<1>4. CASE Tick
      BY <1>4 DEF Tick
<1>5. CASE RoundDone
      BY <1>5 DEF RoundDone
<1>6. CASE LoopStop
      BY <1>6 DEF LoopStop, CloseAndStop
<1>7. ASSUME NEW p \in Players, PlayerStep(p) PROVE TypeOK' /\ SyncBound'
  <2>0. AccountOf[p] \in Accounts /\ NameKey(p) \in Names
        BY DEF NameKey
  <2>1. CASE FetchOK(p)
    <3>1. /\ failCount' \in [Accounts -> 0 .. MaxConsecutiveFailures]
          /\ errorReported' \in [Accounts -> BOOLEAN]
          /\ errSent' \in [Accounts -> Nat]
          BY <2>1 DEF FetchOK
    <3>2. job' \in [Players -> Ids \cup {NoMatch}]
          BY <2>0, <2>1 DEF FetchOK
    <3>3. pc' \in [Players -> PcSet]
          BY <2>1 DEF FetchOK, Goto
    <3> QED BY <2>1, <3>1, <3>2, <3>3 DEF FetchOK
  <2>2. CASE FetchFail(p)
    <3>1. failCount' \in [Accounts -> 0 .. MaxConsecutiveFailures]
          BY <2>0, <2>2 DEF FetchFail
    <3>2. errorReported' \in [Accounts -> BOOLEAN] /\ pc' \in [Players -> PcSet]
          BY <2>0, <2>2 DEF FetchFail, Goto
    <3> QED BY <2>2, <3>1, <3>2 DEF FetchFail
  <2>3. CASE SendError(p)
    <3>1. [player |-> p, id |-> ErrorSignal] \in Msg
          BY DEF Msg, ErrorSignal
    <3>2. ch' \in Seq(Msg)
      <4>1. Append(ch, [player |-> p, id |-> ErrorSignal]) \in Seq(Msg)
            BY <3>1, AppendTyped
      <4> QED BY <2>3, <4>1 DEF SendError
    <3>3. errSent' \in [Accounts -> Nat]
      <4>1. [errSent EXCEPT ![AccountOf[p]] = @ + 1] \in [Accounts -> Nat]
            BY <2>0, CountTyped
      <4> QED BY <2>3, <4>1 DEF SendError
    <3> QED BY <2>3, <3>2, <3>3 DEF SendError, Goto
  <2>4. CASE Decide(p)
        BY <2>4 DEF Decide, Goto, Return
  <2>5. CASE SendMatch(p)
    <3>1. [player |-> p, id |-> job[p]] \in Msg
          BY DEF Msg, ErrorSignal
    <3>2. ch' \in Seq(Msg)
          BY <2>5, <3>1 DEF SendMatch
    <3>3. sent' \in [Accounts -> [Ids -> Nat]]
      <4> DEFINE a == AccountOf[p]
                 f == [sent[a] EXCEPT ![job[p]] = @ + 1]
      <4>0. sent \in [Accounts -> [Ids -> Nat]]
            OBVIOUS
      <4>1. sent[a] \in [Ids -> Nat]
            BY ONLY <2>0, <4>0
      <4>2. f \in [Ids -> Nat]
        <5>1. CASE job[p] \in Ids
              BY <4>1, <5>1, CountTyped
        <5>2. CASE job[p] \notin Ids
              BY <4>1, <5>2
        <5> QED BY <5>1, <5>2
      <4>3. sent' = [sent EXCEPT ![a] = f]
            BY <2>5 DEF SendMatch
      <4> QED BY <4>2, <4>3
    <3> QED BY <2>5, <3>2, <3>3 DEF SendMatch, Goto
  <2>6. CASE StoreSet(p)
        BY <2>6, <2>0 DEF StoreSet, Goto, Return
  <2> QED BY <1>7, <2>1, <2>2, <2>3, <2>4, <2>5, <2>6 DEF PlayerStep
<1>8. CASE Receive
  <2>1. ch' \in Seq(Msg)
        BY <1>8 DEF Receive
  <2> QED BY <1>8, <2>1 DEF Receive
<1>9. CASE World
  <2>1. CASE ReloadPlayers
        BY <2>1 DEF ReloadPlayers
  <2>2. CASE Cancel
        BY <2>2 DEF Cancel
  <2>3. ASSUME NEW a \in Accounts, MatchPlayed(a) PROVE TypeOK' /\ SyncBound'
    <3>1. latest' \in [Accounts -> Ids \cup {NoMatch}]
      <4>1. /\ latest \in [Accounts -> Ids \cup {NoMatch}]
            /\ aged \in [Accounts -> Ids \cup {NoMatch}]
            /\ MaxMatch \in Nat
            OBVIOUS
      <4> QED BY ONLY <4>1, <2>3 DEF MatchPlayed, Ids, NoMatch
    <3> QED BY <2>3, <3>1 DEF MatchPlayed
  <2>4. ASSUME NEW a \in Accounts, MatchAges(a) PROVE TypeOK' /\ SyncBound'
    <3>1. aged' \in [Accounts -> Ids \cup {NoMatch}]
      <4>1. /\ latest \in [Accounts -> Ids \cup {NoMatch}]
            /\ aged \in [Accounts -> Ids \cup {NoMatch}]
            /\ MaxMatch \in Nat
            OBVIOUS
      <4> QED BY ONLY <4>1, <2>4 DEF MatchAges, Ids, NoMatch
    <3> QED BY <2>4, <3>1 DEF MatchAges
  <2> QED BY <1>9, <2>1, <2>2, <2>3, <2>4 DEF World
<1>10. CASE UNCHANGED vars
      BY <1>10 DEF vars
<1> QED
    BY <1>1, <1>2, <1>3, <1>4, <1>5, <1>6, <1>7, <1>8, <1>9, <1>10
    DEF Next, LoopStep

\* Every variable keeps its type: the counters stay in their bounds and only
\* matches and error signals of listed players travel on the channel.
THEOREM TypeCorrect == Spec => []TypeOK
  BY InitTypeInv, StepTypeInv, PTL DEF Spec, TypeInv

-----------------------------------------------------------------------------
(* The end of the channel *)

\* checkPlayers is a barrier: outside a round no goroutine of it is left, and
\* the channel is closed by Run's last step only.
Barrier ==
    /\ phase # "check" => \A p \in Players : pc[p] = "idle"
    /\ chClosed => phase = "stopped"

LEMMA StepBarrier == TypeOK /\ Barrier /\ [Next]_vars => Barrier'
<1> SUFFICES ASSUME TypeOK, Barrier, [Next]_vars PROVE Barrier'
    OBVIOUS
<1> USE DEF Barrier, configVars, roundVars, errVars, matchVars, chVars,
            worldVars
<1>1. CASE SyncOK
      BY <1>1 DEF SyncOK
<1>2. CASE SyncFail
      BY <1>2 DEF SyncFail, CloseAndStop
<1>3. CASE Backoff
      BY <1>3 DEF Backoff, CloseAndStop
<1>4. CASE Tick
      BY <1>4 DEF Tick
<1>5. CASE RoundDone
      BY <1>5 DEF RoundDone
<1>6. CASE LoopStop
      BY <1>6 DEF LoopStop, CloseAndStop
<1>7. ASSUME NEW p \in Players, PlayerStep(p) PROVE Barrier'
  <2>1. phase = "check" /\ ~chClosed
        BY <1>7 DEF PlayerStep, FetchOK, FetchFail, SendError, Decide,
                    SendMatch, StoreSet
  <2>2. phase' = phase /\ chClosed' = chClosed
        BY <1>7 DEF PlayerStep, FetchOK, FetchFail, SendError, Decide,
                    SendMatch, StoreSet
  <2> QED BY <2>1, <2>2
<1>8. CASE Receive
      BY <1>8 DEF Receive
<1>9. CASE World
      BY <1>9 DEF World, ReloadPlayers, Cancel, MatchPlayed, MatchAges
<1>10. CASE UNCHANGED vars
      BY <1>10 DEF vars
<1> QED
    BY <1>1, <1>2, <1>3, <1>4, <1>5, <1>6, <1>7, <1>8, <1>9, <1>10
    DEF Next, LoopStep

\* No goroutine of a round sends on a closed channel, however a cancellation
\* falls into the round.
THEOREM SendsBeforeClose == Spec => []NoSendAfterClose
<1>1. Init => Barrier
      BY DEF Init, Barrier
<1>2. Barrier => NoSendAfterClose
      BY DEF Barrier, NoSendAfterClose
<1> QED
    BY <1>1, <1>2, StepBarrier, TypeCorrect, PTL DEF Spec

-----------------------------------------------------------------------------
(* What the store records *)

\* Between the send and the update of the store the match is already sent.
SentBeforeSet ==
    \A p \in Players : pc[p] = "set" =>
        job[p] \in Ids /\ sent[AccountOf[p]][job[p]] >= 1
\* A goroutine past the empty-list check works on a match.
HasMatch ==
    \A p \in Players : pc[p] \in {"got", "send"} => job[p] \in Ids

StoreInv == SentBeforeSet /\ HasMatch /\ StoreImpliesSent

\* The history of announcements only grows.
LEMMA SentKept ==
  ASSUME TypeOK, TypeOK', HasMatch, [Next]_vars,
         NEW a \in Accounts, NEW i \in Ids, sent[a][i] >= 1
  PROVE  sent'[a][i] >= 1
<1>0. sent[a][i] \in Nat
      BY DEF TypeOK
<1>1. ASSUME NEW p \in Players, SendMatch(p) PROVE sent'[a][i] >= 1
  <2>1. AccountOf[p] \in Accounts /\ job[p] \in Ids
        BY <1>1, WatcherAssumption DEF SendMatch, HasMatch, WatcherAssumption
  <2>2. /\ sent \in [Accounts -> [Ids -> Nat]]
        /\ sent' = [sent EXCEPT ![AccountOf[p]][job[p]] = @ + 1]
        BY <1>1 DEF SendMatch, TypeOK
  <2>3. CASE a = AccountOf[p] /\ i = job[p]
        BY <2>1, <2>2, <2>3
  <2>4. CASE ~(a = AccountOf[p] /\ i = job[p])
    <3>1. sent'[a][i] = sent[a][i]
          BY <2>1, <2>2, <2>4
    <3> QED BY <3>1
  <2> QED BY <2>3, <2>4
<1>2. ASSUME UNCHANGED sent PROVE sent'[a][i] >= 1
      BY <1>0, <1>2
<1> QED
    BY <1>1, <1>2
    DEF Next, LoopStep, SyncOK, SyncFail, Backoff, Tick, RoundDone, LoopStop,
        PlayerStep, FetchOK, FetchFail, SendError, Decide, StoreSet, Receive,
        World, ReloadPlayers, Cancel, MatchPlayed, MatchAges, vars,
        configVars, roundVars, errVars, matchVars, chVars, worldVars

\* A step that leaves the store alone and takes no goroutine to "set" keeps
\* what the store and the goroutines claim.
LEMMA StoreInvFrame ==
  ASSUME TypeOK, TypeOK', StoreInv, [Next]_vars, UNCHANGED store,
         \A q \in Players :
            \/ pc'[q] = pc[q] /\ job'[q] = job[q]
            \/ pc'[q] \in {"idle", "fetch", "errsend"}
            \/ pc'[q] \in {"got", "send"} /\ job'[q] \in Ids
  PROVE  StoreInv'
<1> USE DEF StoreInv
<1>0. \A q \in Players : AccountOf[q] \in Accounts
      BY WatcherAssumption DEF WatcherAssumption
<1>1. SentBeforeSet'
      BY <1>0, SentKept DEF SentBeforeSet
<1>2. HasMatch'
      BY DEF HasMatch
<1>3. StoreImpliesSent'
  <2> SUFFICES ASSUME NEW n \in Names, store[n] # NoMatch
               PROVE  \E a \in Accounts :
                        NameOf[a] = n /\ sent'[a][store[n]] >= 1
      BY DEF StoreImpliesSent
  <2>1. PICK a \in Accounts : NameOf[a] = n /\ sent[a][store[n]] >= 1
        BY DEF StoreImpliesSent
  <2>2. store[n] \in Ids
        BY DEF TypeOK
  <2> QED BY <2>1, <2>2, SentKept
<1> QED BY <1>1, <1>2, <1>3

LEMMA StepStoreInv == TypeOK /\ TypeOK' /\ StoreInv /\ [Next]_vars => StoreInv'
<1> SUFFICES ASSUME TypeOK, TypeOK', StoreInv, [Next]_vars PROVE StoreInv'
    OBVIOUS
<1>0. \A q \in Players : AccountOf[q] \in Accounts /\ NameKey(q) \in Names
      BY WatcherAssumption DEF WatcherAssumption, NameKey
<1>1. ASSUME NEW p \in Players, PlayerStep(p) PROVE StoreInv'
  <2>1. CASE FetchOK(p)
    <3>1. job'[p] = latest[AccountOf[p]] /\ UNCHANGED store
          BY <2>1 DEF FetchOK, TypeOK, matchVars
    <3>2. latest[AccountOf[p]] \in Ids \cup {NoMatch}
          BY <1>0 DEF TypeOK
    <3>3. \A q \in Players : q # p => pc'[q] = pc[q] /\ job'[q] = job[q]
          BY <2>1 DEF FetchOK, Goto, TypeOK
    <3>4. \/ pc'[p] = "idle"
          \/ pc'[p] = "got" /\ job'[p] \in Ids
          BY <2>1, <3>1, <3>2 DEF FetchOK, Goto, TypeOK
    <3> QED BY <3>1, <3>3, <3>4, StoreInvFrame
  <2>2. CASE FetchFail(p) \/ SendError(p)
    <3>1. UNCHANGED <<store, job>>
          BY <2>2 DEF FetchFail, SendError, matchVars
    <3>2. \A q \in Players : pc'[q] = pc[q] \/ pc'[q] \in {"idle", "errsend"}
          BY <2>2 DEF FetchFail, SendError, Goto, TypeOK
    <3> QED BY <3>1, <3>2, StoreInvFrame
  <2>3. CASE Decide(p)
    <3>1. UNCHANGED store
          BY <2>3 DEF Decide, matchVars
    <3>2. \A q \in Players : q # p => pc'[q] = pc[q] /\ job'[q] = job[q]
          BY <2>3 DEF Decide, Goto, Return, TypeOK
    <3>3. \/ pc'[p] = "idle"
          \/ pc'[p] = "send" /\ job'[p] \in Ids
          BY <2>3 DEF Decide, Goto, Return, TypeOK, StoreInv, HasMatch
    <3> QED BY <3>1, <3>2, <3>3, StoreInvFrame
  <2>4. CASE SendMatch(p)
    <3>1. job[p] \in Ids /\ UNCHANGED <<store, job>>
          BY <2>4 DEF SendMatch, StoreInv, HasMatch
    <3>2. sent'[AccountOf[p]][job[p]] >= 1
          BY <1>0, <2>4, <3>1 DEF SendMatch, TypeOK
    <3>3. pc' = [pc EXCEPT ![p] = "set"]
          BY <2>4 DEF SendMatch, Goto
    <3>4. SentBeforeSet'
          BY <1>0, <3>1, <3>2, <3>3, SentKept
          DEF SentBeforeSet, StoreInv, TypeOK
    <3>5. HasMatch'
          BY <3>1, <3>3 DEF HasMatch, StoreInv, TypeOK
    <3>6. StoreImpliesSent'
      <4> SUFFICES ASSUME NEW n \in Names, store[n] # NoMatch
                   PROVE  \E a \in Accounts :
                            NameOf[a] = n /\ sent'[a][store[n]] >= 1
          BY <3>1 DEF StoreImpliesSent
      <4>1. PICK a \in Accounts : NameOf[a] = n /\ sent[a][store[n]] >= 1
            BY DEF StoreImpliesSent, StoreInv
      <4>2. store[n] \in Ids
            BY DEF TypeOK
      <4> QED BY <4>1, <4>2, SentKept DEF StoreInv
    <3> QED BY <3>4, <3>5, <3>6 DEF StoreInv
  <2>5. CASE StoreSet(p)
    <3>1. /\ pc[p] = "set" /\ UNCHANGED sent
          /\ store' = [store EXCEPT ![NameKey(p)] = job[p]]
          /\ pc' = [pc EXCEPT ![p] = "idle"]
          /\ \A q \in Players : q # p => job'[q] = job[q]
          BY <2>5 DEF StoreSet, Goto, Return, TypeOK
    <3>2. SentBeforeSet' /\ HasMatch'
          BY <3>1 DEF SentBeforeSet, HasMatch, StoreInv, TypeOK
    <3>3. NameOf[AccountOf[p]] = NameKey(p)
          BY DEF NameKey
    <3>4. sent[AccountOf[p]][job[p]] >= 1
          BY <3>1 DEF SentBeforeSet, StoreInv
    <3>5. StoreImpliesSent'
      <4> SUFFICES ASSUME NEW n \in Names, store'[n] # NoMatch
                   PROVE  \E a \in Accounts :
                            NameOf[a] = n /\ sent[a][store'[n]] >= 1
          BY <3>1 DEF StoreImpliesSent
      <4>1. CASE n = NameKey(p)
        <5>1. store'[n] = job[p]
              BY <1>0, <3>1, <4>1 DEF TypeOK
        <5> QED BY <1>0, <3>3, <3>4, <4>1, <5>1
      <4>2. CASE n # NameKey(p)
        <5>1. store'[n] = store[n]
              BY <3>1, <4>2 DEF TypeOK
        <5> QED BY <5>1 DEF StoreImpliesSent, StoreInv
      <4> QED BY <4>1, <4>2
    <3> QED BY <3>2, <3>5 DEF StoreInv
  <2> QED BY <1>1, <2>1, <2>2, <2>3, <2>4, <2>5 DEF PlayerStep
<1>2. CASE Tick
  <2>1. UNCHANGED <<store, job>> /\ \A q \in Players : pc'[q] \in {"fetch", "idle"}
        BY <1>2 DEF Tick, matchVars
  <2> QED BY <2>1, StoreInvFrame
<1>3. CASE UNCHANGED <<store, pc, job>>
      BY <1>3, StoreInvFrame
<1> QED
    BY <1>1, <1>2, <1>3
    DEF Next, LoopStep, SyncOK, SyncFail, Backoff, RoundDone, LoopStop, Receive,
        World, ReloadPlayers, Cancel, MatchPlayed, MatchAges, vars,
        configVars, roundVars, errVars, matchVars, chVars, worldVars

\* An ID in the store was announced, whatever the configuration (two accounts
\* with one key included): no match is silenced before it reached the channel.
THEOREM RecordedWasSent == Spec => []StoreImpliesSent
<1>1. Init => StoreInv
      BY DEF Init, StoreInv, SentBeforeSet, HasMatch, StoreImpliesSent
<1> QED
    BY <1>1, StepStoreInv, TypeCorrect, PTL DEF Spec, StoreInv

-----------------------------------------------------------------------------
(* At most one announcement, and in order.  The argument: a goroutine between *)
(* the fetch and the send works on a match no older than the stored one, and  *)
(* strictly newer once the store was consulted; every announced match is at   *)
(* most the stored one, or its goroutine is about to store it.  The store is  *)
(* per account only if keys are distinct.                                     *)

\* Goroutine p has announced match i and not recorded it yet.
Recording(p, i) == pc[p] = "set" /\ job[p] = i

\* What goroutine p works on, compared with the store and the API.
JobInv ==
    \A p \in Players :
      /\ pc[p] \in {"got", "send", "set"} =>
            job[p] <= latest[AccountOf[p]] /\ store[NameKey(p)] <= job[p]
      /\ pc[p] = "send" => store[NameKey(p)] < job[p]
StoreBehind == \A a \in Accounts : store[NameOf[a]] <= latest[a]
SentInv ==
    \A a \in Accounts, i \in Ids : sent[a][i] >= 1 =>
        \/ i <= store[NameOf[a]]
        \/ \E p \in Players : AccountOf[p] = a /\ Recording(p, i)

Dedup == JobInv /\ StoreBehind /\ SentInv /\ AtMostOnce

\* A sent error signal is a reported failure; one about to be sent is the first.
ErrInv ==
    /\ \A a \in Accounts : errSent[a] >= 1 => errorReported[a]
    /\ \A p \in Players : pc[p] = "errsend" =>
          errorReported[AccountOf[p]] /\ errSent[AccountOf[p]] = 0
    /\ ErrorOncePerOutage

\* Match IDs, "none" included, are integers.
LEMMA IdsAreInts == \A i \in Ids \cup {NoMatch} : i \in Int
  BY DEF Ids, NoMatch
LEMMA IdAtIsInt ==
  ASSUME NEW D, NEW f \in [D -> Ids \cup {NoMatch}], NEW d \in D
  PROVE  f[d] \in Int
<1>1. f[d] \in Ids \cup {NoMatch}
      OBVIOUS
<1> QED BY <1>1, IdsAreInts

\* With distinct keys a goroutine has its account and its store entry to itself.
LEMMA OwnKeys ==
  ASSUME DistinctKeys, NEW p \in Players
  PROVE  /\ AccountOf[p] \in Accounts
         /\ NameKey(p) \in Names
         /\ NameOf[AccountOf[p]] = NameKey(p)
         /\ \A q \in Players : AccountOf[q] = AccountOf[p] => q = p
         /\ \A q \in Players : NameKey(q) = NameKey(p) => q = p
         /\ \A a \in Accounts : NameOf[a] = NameKey(p) => a = AccountOf[p]
  BY WatcherAssumption DEF WatcherAssumption, DistinctKeys, NameKey

\* A step that neither announces nor records, and whose only movers return,
\* start a fetch or turn to an error.
LEMMA DedupFrame ==
  ASSUME TypeOK, TypeOK', Dedup, UNCHANGED <<store, sent>>,
         \A a \in Accounts : latest'[a] >= latest[a],
         \A q \in Players :
            \/ pc'[q] = pc[q] /\ job'[q] = job[q]
            \/ pc[q] # "set" /\ pc'[q] \in {"idle", "fetch", "errsend"}
  PROVE  Dedup'
<1> USE DEF Dedup
<1>0. \A q \in Players : AccountOf[q] \in Accounts /\ NameKey(q) \in Names
      BY WatcherAssumption DEF WatcherAssumption, NameKey
<1>1. \A a \in Accounts :
        NameOf[a] \in Names /\ latest[a] \in Int /\ latest'[a] \in Int
      BY WatcherAssumption, IdsAreInts, IdAtIsInt DEF WatcherAssumption, TypeOK
<1>2. \A n \in Names : store[n] \in Int
      BY IdAtIsInt DEF TypeOK
<1>3. \A q \in Players : job[q] \in Int
      BY IdAtIsInt DEF TypeOK
<1>4. JobInv'
  <2> SUFFICES ASSUME NEW q \in Players
      PROVE /\ pc'[q] \in {"got", "send", "set"} =>
                 job'[q] <= latest'[AccountOf[q]] /\ store'[NameKey(q)] <= job'[q]
            /\ pc'[q] = "send" => store'[NameKey(q)] < job'[q]
      BY DEF JobInv, NameKey
  <2>1. /\ latest[AccountOf[q]] \in Int /\ latest'[AccountOf[q]] \in Int
        /\ latest'[AccountOf[q]] >= latest[AccountOf[q]]
        /\ job[q] \in Int /\ store[NameKey(q)] \in Int
        BY <1>0, <1>1, <1>2, <1>3
  <2> QED BY <2>1 DEF JobInv
<1>5. StoreBehind'
      BY <1>1, <1>2 DEF StoreBehind
<1>6. SentInv'
  <2> SUFFICES ASSUME NEW a \in Accounts, NEW i \in Ids, sent[a][i] >= 1
               PROVE  \/ i <= store[NameOf[a]]
                      \/ \E q \in Players : AccountOf[q] = a /\ Recording(q, i)'
      BY DEF SentInv
  <2>1. CASE i <= store[NameOf[a]]
        BY <2>1
  <2>2. ASSUME NEW q \in Players, AccountOf[q] = a, Recording(q, i)
        PROVE  Recording(q, i)'
        BY <2>2 DEF Recording
  <2> QED BY <2>1, <2>2 DEF SentInv
<1>7. AtMostOnce'
      BY DEF AtMostOnce
<1> QED BY <1>4, <1>5, <1>6, <1>7

LEMMA StepDedup ==
  ASSUME DistinctKeys, TypeOK, TypeOK', Barrier, StoreInv, Dedup, [Next]_vars
  PROVE  Dedup'
<1> USE DEF Dedup
<1>0. /\ \A a \in Accounts : latest[a] \in Int /\ NameOf[a] \in Names
      /\ \A n \in Names : store[n] \in Int
      /\ \A q \in Players : job[q] \in Int
      /\ \A i \in Ids : i \in Int
      BY WatcherAssumption, IdsAreInts, IdAtIsInt DEF WatcherAssumption, TypeOK
<1>1. ASSUME NEW p \in Players, PlayerStep(p) PROVE Dedup'
  <2> DEFINE a == AccountOf[p]
             n == NameKey(p)
  <2>0. /\ a \in Accounts /\ n \in Names /\ NameOf[a] = n
        /\ \A q \in Players : q # p => AccountOf[q] # a /\ NameKey(q) # n
        /\ \A b \in Accounts : b # a => NameOf[b] # n
        BY OwnKeys
  <2> HIDE DEF a, n
  <2>1. CASE FetchOK(p)
    <3>1. /\ pc[p] = "fetch"
          /\ UNCHANGED <<store, sent, latest>>
          /\ job' = [job EXCEPT ![p] = latest[a]]
          /\ \A q \in Players : q # p => pc'[q] = pc[q] /\ job'[q] = job[q]
          /\ pc'[p] \in {"idle", "got"}
          BY <2>1 DEF FetchOK, Goto, TypeOK, matchVars, worldVars, a
    <3>2. job'[p] = latest[a]
          BY <3>1 DEF TypeOK
    <3>3. JobInv'
      <4>1. store[n] <= latest[a]
            BY <2>0 DEF StoreBehind
      <4> QED BY <1>0, <2>0, <3>1, <3>2, <4>1 DEF JobInv, NameKey, a, n
    <3>4. SentInv'
      <4> SUFFICES ASSUME NEW b \in Accounts, NEW i \in Ids, sent[b][i] >= 1
                   PROVE  \/ i <= store[NameOf[b]]
                          \/ \E q \in Players :
                               AccountOf[q] = b /\ Recording(q, i)'
          BY <3>1 DEF SentInv
      <4>1. ASSUME NEW q \in Players, AccountOf[q] = b, Recording(q, i)
            PROVE  Recording(q, i)'
            BY <3>1, <4>1 DEF Recording
      <4> QED BY <4>1 DEF SentInv
    <3> QED BY <3>1, <3>3, <3>4 DEF StoreBehind, AtMostOnce
  <2>2. CASE FetchFail(p) \/ SendError(p)
    <3>1. /\ UNCHANGED <<store, sent, latest, job>>
          /\ pc[p] # "set"
          BY <2>2 DEF FetchFail, SendError, matchVars, worldVars
    <3>2. Goto(p, "idle") \/ Goto(p, "errsend")
      <4>1. CASE FetchFail(p)
            BY <4>1, Zenon DEF FetchFail
      <4>2. CASE SendError(p)
            BY <4>2, Zenon DEF SendError
      <4> QED BY <2>2, <4>1, <4>2
    <3>3. \A q \in Players :
             \/ pc'[q] = pc[q]
             \/ q = p /\ pc'[q] \in {"idle", "errsend"}
          BY <3>2 DEF Goto, TypeOK
    <3> QED BY <1>0, <3>1, <3>3, DedupFrame
  <2>3. CASE Decide(p)
    <3>1. /\ pc[p] = "got"
          /\ UNCHANGED <<store, sent, latest>>
          /\ \A q \in Players : q # p => pc'[q] = pc[q] /\ job'[q] = job[q]
          BY <2>3 DEF Decide, Goto, Return, TypeOK, matchVars, worldVars
    <3>2. CASE pc'[p] = "idle"
          BY <1>0, <3>1, <3>2, DedupFrame
    <3>3. CASE pc'[p] # "idle"
      <4>1. pc'[p] = "send" /\ UNCHANGED job /\ store[n] # job[p]
            BY <2>3, <3>3 DEF Decide, Goto, Return, TypeOK, n
      <4>2. store[n] < job[p]
            BY <1>0, <2>0, <3>1, <4>1 DEF JobInv, n
      <4>3. JobInv'
            BY <1>0, <2>0, <3>1, <4>1, <4>2 DEF JobInv, NameKey, n
      <4>4. SentInv'
        <5> SUFFICES ASSUME NEW b \in Accounts, NEW i \in Ids, sent[b][i] >= 1
                     PROVE  \/ i <= store[NameOf[b]]
                            \/ \E q \in Players :
                                 AccountOf[q] = b /\ Recording(q, i)'
            BY <3>1 DEF SentInv
        <5>1. ASSUME NEW q \in Players, AccountOf[q] = b, Recording(q, i)
              PROVE  Recording(q, i)'
              BY <3>1, <5>1 DEF Recording
        <5> QED BY <5>1 DEF SentInv
      <4> QED BY <3>1, <4>3, <4>4 DEF StoreBehind, AtMostOnce
    <3> QED BY <3>2, <3>3
  <2>4. CASE SendMatch(p)
    <3>1. /\ pc[p] = "send" /\ job[p] \in Ids
          /\ UNCHANGED <<store, latest, job>>
          /\ pc' = [pc EXCEPT ![p] = "set"]
          /\ sent' = [sent EXCEPT ![a][job[p]] = @ + 1]
          BY <2>4 DEF SendMatch, Goto, StoreInv, HasMatch, worldVars, a
    <3>2. store[n] < job[p]
          BY <3>1 DEF JobInv, n
    <3>3. ~(sent[a][job[p]] >= 1)
      <4> SUFFICES ASSUME sent[a][job[p]] >= 1 PROVE FALSE
          OBVIOUS
      <4>1. \/ job[p] <= store[n]
            \/ \E q \in Players : AccountOf[q] = a /\ Recording(q, job[p])
            BY <2>0, <3>1 DEF SentInv
      <4>2. \A q \in Players : AccountOf[q] = a => ~Recording(q, job[p])
            BY <2>0, <3>1 DEF Recording
      <4> QED BY <1>0, <2>0, <3>2, <4>1, <4>2
    <3>4. /\ sent'[a][job[p]] = sent[a][job[p]] + 1
          /\ sent[a][job[p]] \in Nat
          /\ \A b \in Accounts, i \in Ids :
                (b # a \/ i # job[p]) => sent'[b][i] = sent[b][i]
          BY <2>0, <3>1 DEF TypeOK
    <3>5. AtMostOnce'
          BY <2>0, <3>1, <3>3, <3>4 DEF AtMostOnce
    <3>6. SentInv'
      <4> SUFFICES ASSUME NEW b \in Accounts, NEW i \in Ids, sent'[b][i] >= 1
                   PROVE  \/ i <= store[NameOf[b]]
                          \/ \E q \in Players :
                               AccountOf[q] = b /\ Recording(q, i)'
          BY <3>1 DEF SentInv
      <4>1. CASE b = a /\ i = job[p]
        <5>1. Recording(p, i)' /\ AccountOf[p] = b
              BY <3>1, <4>1 DEF Recording, TypeOK, a
        <5> QED BY <5>1
      <4>2. CASE b # a \/ i # job[p]
        <5>1. sent[b][i] >= 1
              BY <3>4, <4>2
        <5>2. ASSUME NEW q \in Players, AccountOf[q] = b, Recording(q, i)
              PROVE  Recording(q, i)'
              BY <3>1, <5>2 DEF Recording, TypeOK
        <5> QED BY <5>1, <5>2 DEF SentInv
      <4> QED BY <4>1, <4>2
    <3>7. JobInv'
          BY <1>0, <2>0, <3>1, <3>2 DEF JobInv, NameKey, TypeOK, a, n
    <3> QED BY <3>1, <3>5, <3>6, <3>7 DEF StoreBehind
  <2>5. CASE StoreSet(p)
    <3>1. /\ pc[p] = "set" /\ UNCHANGED <<sent, latest>>
          /\ store' = [store EXCEPT ![n] = job[p]]
          /\ pc' = [pc EXCEPT ![p] = "idle"]
          /\ \A q \in Players : q # p => job'[q] = job[q]
          BY <2>5 DEF StoreSet, Goto, Return, TypeOK, worldVars, n
    <3>2. store[n] <= job[p] /\ job[p] <= latest[a]
          BY <3>1 DEF JobInv, a, n
    <3>3. store'[n] = job[p] /\ \A m \in Names : m # n => store'[m] = store[m]
          BY <2>0, <3>1 DEF TypeOK
    <3>4. StoreBehind'
          BY <1>0, <2>0, <3>1, <3>2, <3>3 DEF StoreBehind
    <3>5. \A q \in Players : q # p => pc'[q] = pc[q] /\ job'[q] = job[q]
          BY <3>1 DEF TypeOK
    <3>6. pc'[p] = "idle"
          BY <3>1 DEF TypeOK
    <3>7. JobInv'
      <4>1. \A q \in Players : q # p => store'[NameKey(q)] = store[NameKey(q)]
            BY <2>0, <3>3, OwnKeys
      <4> QED BY <3>1, <3>5, <3>6, <4>1 DEF JobInv, NameKey
    <3>8. SentInv'
      <4> SUFFICES ASSUME NEW b \in Accounts, NEW i \in Ids, sent[b][i] >= 1
                   PROVE  \/ i <= store'[NameOf[b]]
                          \/ \E q \in Players :
                               AccountOf[q] = b /\ Recording(q, i)'
          BY <3>1 DEF SentInv
      <4>1. CASE b = a
        <5>1. \/ i <= store[n]
              \/ \E q \in Players : AccountOf[q] = a /\ Recording(q, i)
              BY <2>0, <4>1 DEF SentInv
        <5>2. i <= store[n] \/ i = job[p]
              BY <2>0, <5>1 DEF Recording
        <5> QED BY <1>0, <2>0, <3>2, <3>3, <4>1, <5>2
      <4>2. CASE b # a
        <5>1. store'[NameOf[b]] = store[NameOf[b]]
              BY <1>0, <2>0, <3>3, <4>2
        <5>2. ASSUME NEW q \in Players, AccountOf[q] = b, Recording(q, i)
              PROVE  Recording(q, i)'
              BY <3>5, <4>2, <5>2 DEF Recording, a
        <5> QED BY <5>1, <5>2 DEF SentInv
      <4> QED BY <4>1, <4>2
    <3> QED BY <3>1, <3>4, <3>7, <3>8 DEF AtMostOnce
  <2> QED BY <1>1, <2>1, <2>2, <2>3, <2>4, <2>5 DEF PlayerStep
<1>2. CASE Tick
  <2>1. UNCHANGED <<store, job, sent, latest>>
        BY <1>2 DEF Tick, matchVars, worldVars
  <2>2. \A q \in Players : pc[q] # "set" /\ pc'[q] \in {"fetch", "idle"}
        BY <1>2 DEF Tick, Barrier
  <2> QED BY <1>0, <2>1, <2>2, DedupFrame
<1>3. ASSUME NEW b \in Accounts, MatchPlayed(b) PROVE Dedup'
  <2>1. UNCHANGED <<store, sent, pc, job>>
        BY <1>3 DEF MatchPlayed, matchVars, roundVars
  <2>2. \A c \in Accounts : latest'[c] >= latest[c]
    <3>1. latest \in [Accounts -> Ids \cup {NoMatch}]
          BY DEF TypeOK
    <3>2. latest' = [latest EXCEPT ![b] = @ + 1]
          BY <1>3 DEF MatchPlayed
    <3>3. TAKE c \in Accounts
    <3>4. latest[c] \in Int
          BY <1>0
    <3>5. latest'[c] = latest[c] \/ latest'[c] = latest[c] + 1
          BY <3>1, <3>2
    <3> QED BY <3>4, <3>5
  <2> QED BY <2>1, <2>2, DedupFrame
<1>4. CASE UNCHANGED <<store, sent, latest, pc, job>>
      BY <1>0, <1>4, DedupFrame
<1> QED
    BY <1>1, <1>2, <1>3, <1>4
    DEF Next, LoopStep, SyncOK, SyncFail, Backoff, RoundDone, LoopStop, Receive,
        World, ReloadPlayers, Cancel, MatchAges, vars,
        configVars, roundVars, errVars, matchVars, chVars, worldVars

\* What every reachable state satisfies when keys are distinct.
DedupAll == TypeInv /\ Barrier /\ StoreInv /\ (DistinctKeys => Dedup)

LEMMA DedupInvariant == Spec => []DedupAll
<1>1. Init => DedupAll
  <2> SUFFICES ASSUME Init PROVE DedupAll
      OBVIOUS
  <2>1. TypeInv
        BY InitTypeInv
  <2>2. Barrier /\ StoreInv
        BY DEF Init, Barrier, StoreInv, SentBeforeSet, HasMatch, StoreImpliesSent
  <2>3. JobInv /\ SentInv /\ AtMostOnce
        BY DEF Init, JobInv, SentInv, AtMostOnce
  <2>4. StoreBehind
        BY WatcherAssumption DEF Init, StoreBehind, WatcherAssumption, NoMatch
  <2> QED BY <2>1, <2>2, <2>3, <2>4 DEF DedupAll, Dedup
<1>2. DedupAll /\ [Next]_vars => DedupAll'
  <2> SUFFICES ASSUME DedupAll, [Next]_vars PROVE DedupAll'
      OBVIOUS
  <2>1. TypeInv' /\ TypeOK /\ TypeOK'
        BY StepTypeInv DEF DedupAll, TypeInv
  <2>2. Barrier' /\ StoreInv'
        BY <2>1, StepBarrier, StepStoreInv DEF DedupAll
  <2>3. DistinctKeys => Dedup'
        BY <2>1, StepDedup DEF DedupAll
  <2> QED BY <2>1, <2>2, <2>3 DEF DedupAll, DistinctKeys
<1> QED BY <1>1, <1>2, PTL DEF Spec

\* No match is announced twice, for any number of players, rounds, failures
\* and reloads, as long as accounts do not share the store's key.
THEOREM NoDuplicates ==
  ASSUME DistinctKeys
  PROVE  Spec => []AtMostOnce
<1>1. DedupAll => AtMostOnce
      BY DistinctKeys DEF DedupAll, Dedup
<1> QED BY <1>1, DedupInvariant, PTL

\* Nor is an older match announced after a newer one.
THEOREM InOrder ==
  ASSUME DistinctKeys
  PROVE  Spec => AnnouncedInOrder
<1> DEFINE Step == \A a \in Accounts : \A i, j \in Ids :
                     i < j /\ sent'[a][i] > sent[a][i] => sent[a][j] = 0
<1>1. DedupAll /\ [Next]_vars => [Step]_vars
  <2> SUFFICES ASSUME DedupAll, Next,
                      NEW a \in Accounts, NEW i \in Ids, NEW j \in Ids,
                      i < j, sent'[a][i] > sent[a][i]
               PROVE  sent[a][j] = 0
      OBVIOUS
  <2>0. TypeOK /\ Dedup /\ StoreInv /\ i \in Int /\ j \in Int
        BY DistinctKeys, IdsAreInts DEF DedupAll, TypeInv
  <2>1. PICK p \in Players : SendMatch(p)
    <3>1. ~UNCHANGED sent
          BY <2>0 DEF TypeOK
    <3> QED
        BY <3>1
        DEF Next, LoopStep, SyncOK, SyncFail, Backoff, Tick, RoundDone,
            LoopStop, PlayerStep, FetchOK, FetchFail, SendError, Decide,
            StoreSet, Receive, World, ReloadPlayers, Cancel, MatchPlayed,
            MatchAges, matchVars
  <2>2. a = AccountOf[p] /\ i = job[p] /\ pc[p] = "send"
        BY <2>0, <2>1, DistinctKeys, OwnKeys
        DEF SendMatch, TypeOK, StoreInv, HasMatch
  <2>3. store[NameOf[a]] < i
        BY <2>0, <2>2 DEF Dedup, JobInv, NameKey
  <2>4. ~(j <= store[NameOf[a]])
    <3>1. store[NameOf[a]] \in Int
          BY <2>0, IdAtIsInt, WatcherAssumption DEF TypeOK, WatcherAssumption
    <3> QED BY <2>0, <2>3, <3>1
  <2>5. \A q \in Players : AccountOf[q] = a => ~Recording(q, j)
        BY <2>2, DistinctKeys, OwnKeys DEF Recording
  <2>6. ~(sent[a][j] >= 1)
        BY <2>0, <2>4, <2>5 DEF Dedup, SentInv
  <2>7. sent[a][j] \in Nat
        BY <2>0 DEF TypeOK
  <2> QED BY <2>6, <2>7
<1> QED BY <1>1, DedupInvariant, PTL DEF Spec, AnnouncedInOrder

-----------------------------------------------------------------------------
(* One error message per outage *)

LEMMA StepErrInv ==
  ASSUME DistinctKeys, TypeOK, TypeOK', ErrInv, [Next]_vars
  PROVE  ErrInv'
<1> USE DEF ErrInv
<1>0. /\ \A q \in Players : AccountOf[q] \in Accounts
      /\ \A a \in Accounts : errSent[a] \in Nat
      BY WatcherAssumption DEF WatcherAssumption, TypeOK
<1>1. ASSUME NEW p \in Players, PlayerStep(p) PROVE ErrInv'
  <2> DEFINE a == AccountOf[p]
  <2>0. a \in Accounts /\ \A q \in Players : q # p => AccountOf[q] # a
        BY OwnKeys
  <2> HIDE DEF a
  <2>1. CASE FetchOK(p)
    <3>1. /\ errorReported' = [errorReported EXCEPT ![a] = FALSE]
          /\ errSent' = [errSent EXCEPT ![a] = 0]
          BY <2>1 DEF FetchOK, a
    <3>2. \A q \in Players : pc'[q] = pc[q] \/ pc'[q] \in {"idle", "got"}
          BY <2>1 DEF FetchOK, Goto, TypeOK
    <3>3. pc'[p] # "errsend"
          BY <2>1 DEF FetchOK, Goto, TypeOK
    <3>4. \A b \in Accounts :
            /\ b # a => errorReported'[b] = errorReported[b] /\ errSent'[b] = errSent[b]
            /\ b = a => errSent'[b] = 0
          BY <2>0, <3>1 DEF TypeOK
    <3>5. \A b \in Accounts : errSent'[b] >= 1 => errorReported'[b]
          BY <3>4
    <3>6. \A q \in Players : pc'[q] = "errsend" =>
             errorReported'[AccountOf[q]] /\ errSent'[AccountOf[q]] = 0
          BY <1>0, <2>0, <3>2, <3>3, <3>4
    <3> QED BY <3>4, <3>5, <3>6 DEF ErrorOncePerOutage
  <2>2. CASE FetchFail(p)
    <3>1. UNCHANGED errSent
          BY <2>2 DEF FetchFail
    <3>2. CASE ~errorReported[a] /\ Goto(p, "errsend")
               /\ errorReported' = [errorReported EXCEPT ![a] = TRUE]
      <4>1. errSent[a] = 0
            BY <1>0, <2>0, <3>2
      <4> QED BY <1>0, <2>0, <3>1, <3>2, <4>1
              DEF TypeOK, Goto, ErrorOncePerOutage, a
    <3>3. CASE UNCHANGED errorReported /\ Goto(p, "idle")
          BY <3>1, <3>3 DEF TypeOK, Goto, ErrorOncePerOutage
    <3> QED BY <2>2, <3>2, <3>3 DEF FetchFail, ShouldReport, a
  <2>3. CASE SendError(p)
    <3>1. /\ pc[p] = "errsend" /\ UNCHANGED errorReported
          /\ pc' = [pc EXCEPT ![p] = "idle"]
          BY <2>3 DEF SendError, Goto
    <3>2. \/ UNCHANGED errSent
          \/ errSent' = [errSent EXCEPT ![a] = @ + 1]
          BY <2>3 DEF SendError, a
    <3>3. errorReported[a] /\ errSent[a] = 0
          BY <3>1 DEF a
    <3>4. \A b \in Accounts :
            \/ errSent'[b] = errSent[b]
            \/ b = a /\ errSent'[b] = 1
          BY <1>0, <2>0, <3>2, <3>3 DEF TypeOK
    <3>5. \A q \in Players : pc'[q] = "errsend" => q # p /\ pc[q] = "errsend"
          BY <3>1 DEF TypeOK
    <3>6. \A q \in Players : pc'[q] = "errsend" =>
             errorReported'[AccountOf[q]] /\ errSent'[AccountOf[q]] = 0
          BY <1>0, <2>0, <3>1, <3>4, <3>5
    <3>7. \A b \in Accounts : errSent'[b] >= 1 => errorReported'[b]
          BY <3>1, <3>3, <3>4
    <3> QED BY <3>4, <3>6, <3>7 DEF ErrorOncePerOutage
  <2>4. CASE Decide(p) \/ SendMatch(p) \/ StoreSet(p)
    <3>1. UNCHANGED <<errorReported, errSent>>
          BY <2>4 DEF Decide, SendMatch, StoreSet, errVars
    <3>2. \A q \in Players : pc'[q] = pc[q] \/ pc'[q] \in {"idle", "send", "set"}
          BY <2>4 DEF Decide, SendMatch, StoreSet, Goto, Return, TypeOK
    <3> QED BY <3>1, <3>2 DEF ErrorOncePerOutage
  <2> QED BY <1>1, <2>1, <2>2, <2>3, <2>4 DEF PlayerStep
<1>2. CASE Tick
  <2>1. UNCHANGED <<errorReported, errSent>> /\ \A q \in Players : pc'[q] # "errsend"
        BY <1>2 DEF Tick, errVars
  <2> QED BY <2>1 DEF ErrorOncePerOutage
<1>3. CASE UNCHANGED <<errorReported, errSent, pc>>
      BY <1>3 DEF ErrorOncePerOutage
<1> QED
    BY <1>1, <1>2, <1>3
    DEF Next, LoopStep, SyncOK, SyncFail, Backoff, RoundDone, LoopStop, Receive,
        World, ReloadPlayers, Cancel, MatchPlayed, MatchAges, vars,
        configVars, roundVars, errVars, matchVars, chVars, worldVars

\* However long an account's requests fail, the channel gets one error signal.
THEOREM OneErrorPerOutage ==
  ASSUME DistinctKeys
  PROVE  Spec => []ErrorOncePerOutage
<1>1. Init => ErrInv
      BY WatcherAssumption
      DEF Init, ErrInv, ErrorOncePerOutage, WatcherAssumption
<1>2. TypeOK /\ TypeOK' /\ ErrInv /\ [Next]_vars => ErrInv'
      BY DistinctKeys, StepErrInv
<1> QED BY <1>1, <1>2, TypeCorrect, PTL DEF Spec, ErrInv
=============================================================================
