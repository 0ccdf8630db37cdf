---------------------------- MODULE PromiseProofs ----------------------------
(***************************************************************************)
(* What the parts promise on their own they keep in the composed service.  *)
(* LeagueWatcher implements Watcher, so every theorem of WatcherProofs     *)
(* holds of it; from that, what the channel carries and what the bot has   *)
(* taken from it are related (LinkInv), so it implements Tracks and every  *)
(* theorem of TracksProofs holds of it; from both, it keeps the promise of *)
(* Notifications.  The last two need distinct keys: with a shared key the  *)
(* watcher does announce a match twice.  Without them, still nobody sends  *)
(* on a closed channel: the bot's part of that does not look at messages.  *)
(* And a shutdown that finds a stuck send never finishes.                  *)
(***************************************************************************)
EXTENDS ServiceProofs

WP == INSTANCE WatcherProofs
TP == INSTANCE TracksProofs WITH
        Matches <- W!Msg,
        Signals <- {m \in W!Msg : m.id = W!ErrorSignal}

LEMMA WatcherReady == WP!WatcherAssumption
<1>1. W!IsFiniteSet(Players) => WP!IsFiniteSet(Players)
  BY DEF W!IsFiniteSet, WP!IsFiniteSet
<1> QED BY <1>1, ServiceAssumption DEF W!WatcherAssumption, WP!WatcherAssumption

LEMMA TracksReady == TP!TracksAssumption
BY ServiceAssumption DEF T!TracksAssumption, TP!TracksAssumption

-----------------------------------------------------------------------------
(* The watcher in the service *)

\* Init and every step is one of the watcher's, or nothing it sees: the bot only
\* receives, and main cancels once.
THEOREM ImplementsWatcher == Spec => W!Spec
<1>1. Init => W!Init
  BY DEF Init
<1>2. Inv /\ [Next]_vars => [W!Next]_(W!vars)
  <2> SUFFICES ASSUME Inv, [Next]_vars, ~UNCHANGED W!vars PROVE W!Next
    OBVIOUS
  <2> USE DEF W!vars, W!configVars, W!roundVars, W!errVars, W!matchVars,
              W!chVars, W!worldVars
  <2>1. CASE WatcherStep
    BY <2>1 DEF WatcherStep, W!Next, W!World
  <2>2. CASE BotReceive
    BY <2>2 DEF BotReceive, W!Next
  <2>3. CASE Signal
    <3>1. mainPc = "wait" /\ ctxDone' = TRUE /\ UNCHANGED watcherVars
      BY <2>3 DEF Signal, watcherVars
    <3>2. W!Cancel
      BY <3>1 DEF Inv, MainInv, watcherVars, W!Cancel
    <3> QED BY <3>2 DEF W!Next, W!World
  <2>4. CASE BotOwnStep
    <3>1. ctxDone' = ctxDone
      BY <2>4, BotOwnInv DEF BotOwnStep, Inv
    <3> QED BY <2>4, <3>1 DEF BotOwnStep, watcherVars
  <2>5. CASE BotStop \/ MainStartBot \/ MainJoin \/ UNCHANGED vars
    BY <2>5 DEF BotStop, T!BotStop, MainStartBot, MainJoin, vars, watcherVars
  <2> QED BY <2>1, <2>2, <2>3, <2>4, <2>5 DEF Next
<1> QED BY <1>1, <1>2, InvInit, InvStep, PTL DEF Spec, W!Spec

\* Both instances of Watcher are the same specification.
LEMMA SameWatcher == W!Spec => WP!Spec
<1> USE DEF W!vars, W!configVars, W!roundVars, W!errVars, W!matchVars, W!chVars,
            W!worldVars, WP!vars, WP!configVars, WP!roundVars, WP!errVars,
            WP!matchVars, WP!chVars, WP!worldVars
<1>1. W!Init => WP!Init
  BY DEF W!Init, WP!Init, W!NoMatch, WP!NoMatch, W!Ids, WP!Ids,
         W!Cardinality, WP!Cardinality
<1>2. W!LoopStep => WP!LoopStep
  BY DEF W!LoopStep, WP!LoopStep, W!SyncOK, WP!SyncOK, W!SyncFail, WP!SyncFail,
         W!CloseAndStop, WP!CloseAndStop, W!Backoff, WP!Backoff, W!Tick, WP!Tick,
         W!RoundDone, WP!RoundDone, W!LoopStop, WP!LoopStop
<1>3. ASSUME NEW p \in Players, W!PlayerStep(p) PROVE WP!PlayerStep(p)
  BY <1>3
  DEF W!PlayerStep, WP!PlayerStep, W!FetchOK, WP!FetchOK, W!FetchFail,
      WP!FetchFail, W!SendError, WP!SendError, W!Decide, WP!Decide, W!SendMatch,
      WP!SendMatch, W!StoreSet, WP!StoreSet, W!Goto, WP!Goto, W!Return,
      WP!Return, W!ShouldReport, WP!ShouldReport, W!NameKey, WP!NameKey,
      W!NoMatch, WP!NoMatch, W!ErrorSignal, WP!ErrorSignal
<1>4. W!Receive \/ W!World => WP!Receive \/ WP!World
  BY DEF W!World, WP!World, W!Receive, WP!Receive, W!ReloadPlayers,
         WP!ReloadPlayers, W!Cancel, WP!Cancel, W!MatchPlayed, WP!MatchPlayed,
         W!MatchAges, WP!MatchAges
<1>5. UNCHANGED W!vars => UNCHANGED WP!vars
  OBVIOUS
<1>6. [W!Next]_(W!vars) => [WP!Next]_(WP!vars)
  BY <1>2, <1>3, <1>4, <1>5 DEF W!Next, WP!Next
<1> QED BY <1>1, <1>6, PTL DEF W!Spec, WP!Spec

-----------------------------------------------------------------------------
(* What is known of the watcher *)

\* Types, and what a goroutine that is about to send works on.
WatcherTypes ==
    /\ W!TypeOK
    /\ \A p \in Players : pc[p] = "send" => job[p] \in W!Ids

\* What was announced was played, and only once.
Announced ==
    /\ W!AtMostOnce
    /\ \A a \in Accounts, i \in W!Ids : sent[a][i] >= 1 => i <= latest[a]

LEMMA TypesHold == Spec => []WatcherTypes
<1>1. WP!Spec => []WP!DedupAll
  BY WP!DedupInvariant, WatcherReady DEF WP!WatcherAssumption
<1>2. WP!DedupAll => WatcherTypes
  BY DEF WP!DedupAll, WP!TypeInv, WP!StoreInv, WP!HasMatch, WatcherTypes,
         WP!TypeOK, W!TypeOK, WP!PhaseSet, W!PhaseSet, WP!PcSet, W!PcSet, WP!Ids,
         W!Ids, WP!NoMatch, W!NoMatch, WP!Msg, W!Msg, WP!ErrorSignal, W!ErrorSignal
<1> QED BY <1>1, <1>2, ImplementsWatcher, SameWatcher, PTL

LEMMA AnnouncedHolds ==
    ASSUME W!DistinctKeys
    PROVE  Spec => []Announced
<1>1. WP!Spec => []WP!DedupAll
  BY WP!DedupInvariant, WatcherReady DEF WP!WatcherAssumption
<1>2. WP!DedupAll => Announced
  <2> SUFFICES ASSUME WP!DedupAll PROVE Announced
    OBVIOUS
  <2>1. WP!Dedup
    BY DEF W!DistinctKeys, WP!DistinctKeys, WP!DedupAll
  <2>2. W!AtMostOnce
    BY <2>1 DEF WP!Dedup, WP!AtMostOnce, W!AtMostOnce, WP!Ids, W!Ids
  <2>3. ASSUME NEW a \in Accounts, NEW i \in W!Ids, sent[a][i] >= 1
        PROVE  i <= latest[a]
    <3>1. \/ i <= store[NameOf[a]]
          \/ \E p \in Players : AccountOf[p] = a /\ pc[p] = "set" /\ job[p] = i
      BY <2>1, <2>3 DEF WP!Dedup, WP!SentInv, WP!Recording, WP!Ids, W!Ids
    <3>2. store[NameOf[a]] <= latest[a]
      BY <2>1 DEF WP!Dedup, WP!StoreBehind
    <3>3. /\ NameOf[a] \in Names /\ MaxMatch \in Nat
          /\ store \in [Names -> WP!Ids \cup {WP!NoMatch}]
          /\ latest \in [Accounts -> WP!Ids \cup {WP!NoMatch}]
      BY WatcherReady DEF WP!WatcherAssumption, WP!DedupAll, WP!TypeInv, WP!TypeOK
    <3>4. i \in Int /\ store[NameOf[a]] \in Int /\ latest[a] \in Int
      BY <3>3 DEF WP!Ids, WP!NoMatch, W!Ids
    <3>5. ASSUME NEW p \in Players, AccountOf[p] = a, pc[p] = "set", job[p] = i
          PROVE  i <= latest[a]
      BY <2>1, <3>5 DEF WP!Dedup, WP!JobInv
    <3> QED BY <3>1, <3>2, <3>4, <3>5
  <2> QED BY <2>2, <2>3 DEF Announced
<1> QED BY <1>1, <1>2, ImplementsWatcher, SameWatcher, PTL

-----------------------------------------------------------------------------
(* The channel between them *)

Real(m)   == m.id # W!ErrorSignal
CountOf(counts, m) == counts[AccountOf[m.player]][m.id]

\* A match on its way is there once, was announced and is new to the bot; so
\* was every match the bot has taken.
LinkInv ==
    /\ \A k \in 1 .. Len(ch) : Real(ch[k]) => CountOf(sent, ch[k]) >= 1 /\ ch[k] \notin fanned
    /\ \A j, k \in 1 .. Len(ch) : Real(ch[j]) /\ j # k => ch[j] # ch[k]
    /\ fanned \subseteq W!Msg
    /\ \A m \in fanned : Real(m) /\ CountOf(sent, m) >= 1

LEMMA LinkInit == Init => LinkInv
BY DEF Init, W!Init, T!InitTracks, LinkInv

\* A match is a number of an account's history.
LEMMA RealId ==
    ASSUME NEW m \in W!Msg, Real(m)
    PROVE  AccountOf[m.player] \in Accounts /\ m.id \in W!Ids
BY ServiceAssumption DEF W!WatcherAssumption, W!Msg, Real

\* The one announcement of a match finds it neither under way nor taken.
LEMMA LinkSend ==
    ASSUME WatcherTypes, Announced', LinkInv,
           NEW p \in Players, W!SendMatch(p), UNCHANGED fanned
    PROVE  LinkInv'
<1> DEFINE a == AccountOf[p]
           i == job[p]
           m == [player |-> p, id |-> i]
<1>1. /\ a \in Accounts /\ i \in W!Ids /\ m \in W!Msg
      /\ sent \in [Accounts -> [W!Ids -> Nat]] /\ ch \in Seq(W!Msg)
      /\ sent' = [sent EXCEPT ![a][i] = @ + 1] /\ ch' = Append(ch, m)
  BY ServiceAssumption
  DEF W!SendMatch, WatcherTypes, W!TypeOK, W!Msg, W!WatcherAssumption
<1> HIDE DEF a, i
<1>2. sent'[a][i] = sent[a][i] + 1 /\ sent[a][i] \in Nat
  BY <1>1
<1>3. sent[a][i] = 0
  BY <1>1, <1>2 DEF Announced, W!AtMostOnce
<1>4. \A b \in Accounts, j \in W!Ids : sent[b][j] >= 1 => sent'[b][j] >= 1
  BY <1>1
<1>5. CountOf(sent, m) = 0 /\ CountOf(sent', m) = 1
  BY <1>2, <1>3 DEF CountOf, a
<1> HIDE DEF m
<1>6. \A x \in W!Msg : Real(x) /\ CountOf(sent, x) >= 1 => CountOf(sent', x) >= 1 /\ x # m
  <2> SUFFICES ASSUME NEW x \in W!Msg, Real(x), CountOf(sent, x) >= 1
               PROVE  CountOf(sent', x) >= 1 /\ x # m
    OBVIOUS
  <2>1. x # m
    BY <1>5
  <2>2. CountOf(sent', x) >= 1
    BY <1>4, RealId DEF CountOf
  <2> QED BY <2>1, <2>2
<1>7. /\ Len(ch) \in Nat /\ Len(ch') = Len(ch) + 1 /\ ch'[Len(ch) + 1] = m
      /\ \A k \in 1 .. Len(ch) : ch'[k] = ch[k] /\ ch[k] \in W!Msg
  BY <1>1
<1>8. m \notin fanned
  BY <1>5 DEF LinkInv
<1>9. ASSUME NEW k \in 1 .. Len(ch'), Real(ch'[k])
      PROVE  CountOf(sent', ch'[k]) >= 1 /\ ch'[k] \notin fanned
  <2>1. CASE k \in 1 .. Len(ch)
    BY <1>6, <1>7, <1>9, <2>1 DEF LinkInv
  <2>2. CASE k = Len(ch) + 1
    BY <1>5, <1>7, <1>8, <2>2
  <2> QED BY <1>7, <2>1, <2>2
<1>10. ASSUME NEW j \in 1 .. Len(ch'), NEW k \in 1 .. Len(ch'), Real(ch'[j]), j # k
       PROVE  ch'[j] # ch'[k]
  <2>1. CASE j \in 1 .. Len(ch) /\ k \in 1 .. Len(ch)
    BY <1>7, <1>10, <2>1 DEF LinkInv
  <2>2. CASE j \in 1 .. Len(ch) /\ k = Len(ch) + 1
    BY <1>6, <1>7, <1>10, <2>2 DEF LinkInv
  <2>3. CASE j = Len(ch) + 1 /\ k \in 1 .. Len(ch)
    BY <1>6, <1>7, <1>10, <2>3 DEF LinkInv
  <2> QED BY <1>7, <1>10, <2>1, <2>2, <2>3
<1>11. \A x \in fanned : Real(x) /\ CountOf(sent', x) >= 1
  BY <1>6 DEF LinkInv
<1> QED BY <1>9, <1>10, <1>11 DEF LinkInv, Real, CountOf

\* An error signal is no match; it may come again.
LEMMA LinkError ==
    ASSUME WatcherTypes, LinkInv, NEW p \in Players, W!SendError(p),
           UNCHANGED fanned
    PROVE  LinkInv'
<1>1. CASE ch' = ch /\ UNCHANGED sent
  BY <1>1 DEF LinkInv, CountOf, Real
<1>2. CASE ch' = Append(ch, [player |-> p, id |-> W!ErrorSignal]) /\ UNCHANGED sent
  <2> DEFINE e == [player |-> p, id |-> W!ErrorSignal]
  <2>1. /\ ch \in Seq(W!Msg) /\ Len(ch) \in Nat /\ Len(ch') = Len(ch) + 1
        /\ ch'[Len(ch) + 1] = e /\ \A k \in 1 .. Len(ch) : ch'[k] = ch[k]
    BY <1>2 DEF WatcherTypes, W!TypeOK
  <2>2. ~Real(e)
    BY DEF Real
  <2> HIDE DEF e
  <2>3. \A k \in 1 .. Len(ch') : Real(ch'[k]) => k \in 1 .. Len(ch)
    BY <2>1, <2>2
  <2>4. \A j, k \in 1 .. Len(ch') : Real(ch'[j]) /\ j # k => ch'[j] # ch'[k]
    <3> SUFFICES ASSUME NEW j \in 1 .. Len(ch'), NEW k \in 1 .. Len(ch'),
                        Real(ch'[j]), j # k, ch'[j] = ch'[k]
                 PROVE  FALSE
      OBVIOUS
    <3>1. j \in 1 .. Len(ch) /\ k \in 1 .. Len(ch)
      BY <2>3
    <3> QED BY <2>1, <3>1 DEF LinkInv
  <2> QED BY <1>2, <2>1, <2>3, <2>4 DEF LinkInv, CountOf, Real
<1> QED BY <1>1, <1>2 DEF W!SendError, W!matchVars

\* What is received is new, and is not under way any more.
LEMMA LinkReceive ==
    ASSUME WatcherTypes, LinkInv, BotReceive
    PROVE  LinkInv'
<1>1. /\ ch \in Seq(W!Msg) /\ ch # <<>> /\ ch' = Tail(ch) /\ UNCHANGED sent
      /\ fanned' = fanned \cup ({Head(ch)} \ {m \in W!Msg : m.id = W!ErrorSignal})
  BY DEF BotReceive, W!Receive, W!matchVars, T!BotFanout, WatcherTypes, W!TypeOK
<1>2. /\ Len(ch) \in Nat /\ Len(ch) >= 1 /\ Len(ch') = Len(ch) - 1
      /\ \A k \in 1 .. Len(ch') : k + 1 \in 1 .. Len(ch) /\ ch'[k] = ch[k + 1]
      /\ Head(ch) = ch[1] /\ ch[1] \in W!Msg /\ 1 \in 1 .. Len(ch)
  BY <1>1
<1>3. fanned' = fanned \cup (IF Real(ch[1]) THEN {ch[1]} ELSE {})
  BY <1>1, <1>2 DEF Real
<1>4. ASSUME NEW k \in 1 .. Len(ch'), Real(ch'[k])
      PROVE  CountOf(sent', ch'[k]) >= 1 /\ ch'[k] \notin fanned'
  <2>1. Real(ch[k + 1]) /\ k + 1 \in 1 .. Len(ch) /\ k + 1 # 1
    BY <1>2, <1>4
  <2>2. CountOf(sent, ch[k + 1]) >= 1 /\ ch[k + 1] \notin fanned /\ ch[k + 1] # ch[1]
    BY <1>2, <2>1 DEF LinkInv
  <2> QED BY <1>1, <1>2, <1>3, <2>2
<1>5. ASSUME NEW j \in 1 .. Len(ch'), NEW k \in 1 .. Len(ch'), Real(ch'[j]), j # k
      PROVE  ch'[j] # ch'[k]
  <2>1. Real(ch[j + 1]) /\ j + 1 # k + 1
    BY <1>2, <1>5
  <2> QED BY <1>2, <2>1 DEF LinkInv
<1>6. fanned' \subseteq W!Msg
  BY <1>2, <1>3 DEF LinkInv
<1>7. \A m \in fanned' : Real(m) /\ CountOf(sent', m) >= 1
  BY <1>1, <1>2, <1>3 DEF LinkInv
<1> QED BY <1>4, <1>5, <1>6, <1>7 DEF LinkInv, Real, CountOf

LEMMA LinkStep ==
    ASSUME WatcherTypes, Announced', LinkInv, [Next]_vars
    PROVE  LinkInv'
<1>0. ASSUME UNCHANGED <<ch, sent, fanned>> PROVE LinkInv'
  BY <1>0 DEF LinkInv, Real, CountOf
<1>1. CASE WatcherStep
  <2>1. UNCHANGED fanned
    BY <1>1 DEF WatcherStep, botVars
  <2>2. ASSUME NEW p \in Players, W!PlayerStep(p) PROVE LinkInv'
    <3>1. CASE W!SendMatch(p)
      BY <2>1, <3>1, LinkSend
    <3>2. CASE W!SendError(p)
      BY <2>1, <3>2, LinkError
    <3>3. CASE W!FetchOK(p) \/ W!FetchFail(p) \/ W!Decide(p) \/ W!StoreSet(p)
      BY <1>0, <2>1, <3>3
      DEF W!FetchOK, W!FetchFail, W!Decide, W!StoreSet, W!matchVars, W!chVars
    <3> QED BY <2>2, <3>1, <3>2, <3>3 DEF W!PlayerStep
  <2>3. CASE W!LoopStep
    BY <1>0, <2>1, <2>3
    DEF W!LoopStep, W!SyncOK, W!SyncFail, W!Backoff, W!Tick, W!RoundDone,
        W!LoopStop, W!CloseAndStop, W!matchVars, W!chVars
  <2>4. ASSUME W!ReloadPlayers \/ \E a \in Accounts : W!MatchPlayed(a) \/ W!MatchAges(a)
        PROVE  LinkInv'
    BY <1>0, <2>1, <2>4
    DEF W!ReloadPlayers, W!MatchPlayed, W!MatchAges, W!matchVars, W!chVars
  <2> QED BY <1>1, <2>2, <2>3, <2>4 DEF WatcherStep
<1>2. CASE BotOwnStep
  <2>1. UNCHANGED fanned
    BY <1>2
    DEF BotOwnStep, T!OwnNext, T!BotStep, T!BotTrackHome, T!FanoutStep,
        T!FanoutDone, T!FanoutSend, T!FanoutTimeout, T!BotUntrackAll, T!BotClose,
        T!TrackerStep, T!TrackerQuit, T!TrackerPost, T!TrackerBye, T!CmdStep,
        T!DoTrack, T!DoUntrack, T!CmdEnd, T!TrackCmd, T!UntrackCmd, T!CmdStart,
        T!CmdCalled, T!CmdIgnored, T!fanVars
  <2> QED BY <1>0, <1>2, <2>1 DEF BotOwnStep, watcherVars
<1>3. CASE BotReceive
  BY <1>3, LinkReceive
<1>4. CASE BotStop
  BY <1>0, <1>4 DEF BotStop, T!BotStop, T!fanVars, watcherVars
<1>5. CASE MainStartBot \/ Signal \/ MainJoin \/ UNCHANGED vars
  BY <1>0, <1>5 DEF MainStartBot, Signal, MainJoin, vars, watcherVars, botVars
<1> QED BY <1>1, <1>2, <1>3, <1>4, <1>5 DEF Next

LEMMA LinkHolds ==
    ASSUME W!DistinctKeys
    PROVE  Spec => []LinkInv
<1>1. WatcherTypes /\ Announced' /\ LinkInv /\ [Next]_vars => LinkInv'
  BY LinkStep
<1>2. Spec => []WatcherTypes
  BY TypesHold
<1>3. Spec => []Announced
  BY AnnouncedHolds
<1> QED BY <1>1, <1>2, <1>3, LinkInit, PTL DEF Spec

-----------------------------------------------------------------------------
(* The bot in the service *)

\* Every step is one of Tracks', or nothing it sees; a match that is received
\* was not received before.
THEOREM ImplementsTracks ==
    ASSUME W!DistinctKeys
    PROVE  Spec => FeedsTracks
<1>1. Init => T!Init
  BY DEF Init, T!Init, W!Init
<1>2. Inv /\ WatcherTypes /\ LinkInv /\ [Next]_vars => [T!Next]_(T!vars)
  <2> SUFFICES ASSUME Inv, WatcherTypes, LinkInv, [Next]_vars
               PROVE  T!Next \/ UNCHANGED T!vars
    OBVIOUS
  <2> USE DEF T!vars, T!ownVars, T!mapVars, T!trackerVars, T!fanVars, T!cmdVars
  <2>1. CASE WatcherStep
    <3>1. ctxDone' = ctxDone
      <4>1. ASSUME NEW p \in Players, W!PlayerStep(p) PROVE ctxDone' = ctxDone
        BY <4>1, PlayerStepInv DEF Inv
      <4>2. CASE W!LoopStep
        BY <4>2, LoopStepInv DEF Inv
      <4>3. CASE \/ W!ReloadPlayers
                 \/ \E a \in Accounts : W!MatchPlayed(a) \/ W!MatchAges(a)
        BY <4>3 DEF W!ReloadPlayers, W!MatchPlayed, W!MatchAges, W!worldVars
      <4> QED BY <2>1, <4>1, <4>2, <4>3 DEF WatcherStep
    <3> QED BY <2>1, <3>1 DEF WatcherStep, botVars
  <2>2. CASE BotOwnStep
    BY <2>2 DEF BotOwnStep, T!Next
  <2>3. CASE BotReceive
    <3>1. ch \in Seq(W!Msg) /\ ch # <<>> /\ T!BotFanout(Head(ch))
      BY <2>3 DEF BotReceive, W!Receive, WatcherTypes, W!TypeOK
    <3>2. Head(ch) \in W!Msg /\ Head(ch) = ch[1] /\ 1 \in 1 .. Len(ch)
      BY <3>1
    <3>3. Head(ch) \notin fanned
      BY <3>2 DEF LinkInv
    <3> QED BY <3>1, <3>2, <3>3 DEF T!Next
  <2>4. CASE BotStop
    BY <2>4 DEF BotStop, T!BotStop, T!Next
  <2>5. CASE Signal
    <3>1. CASE mainPc = "starting"
      BY <2>5, <3>1 DEF Signal, botVars
    <3>2. CASE mainPc = "wait"
      BY <2>5, <3>2 DEF Signal, botVars, Inv, MainInv, T!Cancel, T!Next
    <3> QED BY <2>5, <3>1, <3>2 DEF Signal
  <2>6. CASE MainStartBot \/ MainJoin \/ UNCHANGED vars
    BY <2>6 DEF MainStartBot, MainJoin, vars, botVars
  <2> QED BY <2>1, <2>2, <2>3, <2>4, <2>5, <2>6 DEF Next
<1>3. Spec => []LinkInv
  BY LinkHolds
<1>4. Spec => []WatcherTypes
  BY TypesHold
<1> QED BY <1>1, <1>2, <1>3, <1>4, InvInit, InvStep, PTL
        DEF Spec, T!Spec, FeedsTracks

\* Both instances of Tracks are the same specification.
LEMMA SameTracks == T!Spec => TP!Spec
<1> USE DEF T!vars, T!ownVars, T!mapVars, T!trackerVars, T!fanVars, T!cmdVars,
            TP!vars, TP!ownVars, TP!mapVars, TP!trackerVars, TP!fanVars, TP!cmdVars,
            T!Trackers, TP!Trackers
<1>1. T!Init => TP!Init
  BY DEF T!Init, TP!Init, T!InitTracks, TP!InitTracks
<1>2. T!BotStep => TP!BotStep
  BY DEF T!BotStep, TP!BotStep, T!BotTrackHome, TP!BotTrackHome, T!Track, TP!Track,
         T!FanoutStep, TP!FanoutStep, T!FanoutDone, TP!FanoutDone, T!FanoutSend,
         TP!FanoutSend, T!FanoutTimeout, TP!FanoutTimeout, T!BotUntrackAll,
         TP!BotUntrackAll, T!UntrackSet, TP!UntrackSet, T!BotClose, TP!BotClose
<1>3. \A k \in T!Trackers : T!TrackerStep(k) => TP!TrackerStep(k)
  BY DEF T!TrackerStep, TP!TrackerStep, T!TrackerQuit, TP!TrackerQuit,
         T!TrackerPost, TP!TrackerPost, T!CountPost, TP!CountPost,
         T!TrackerBye, TP!TrackerBye
<1>4. \A h \in Handlers : T!CmdStep(h) => TP!CmdStep(h)
  BY DEF T!CmdStep, TP!CmdStep, T!DoTrack, TP!DoTrack, T!DoUntrack, TP!DoUntrack,
         T!Track, TP!Track, T!UntrackSet, TP!UntrackSet, T!CmdEnd, TP!CmdEnd
<1>11. \A h \in Handlers :
         T!CmdCalled(h) \/ T!CmdIgnored(h) => TP!CmdCalled(h) \/ TP!CmdIgnored(h)
  BY DEF T!CmdCalled, TP!CmdCalled, T!CmdIgnored, TP!CmdIgnored
<1>5. \A h \in Handlers, c \in Channels :
         T!TrackCmd(h, c) \/ T!UntrackCmd(h, c) => TP!TrackCmd(h, c) \/ TP!UntrackCmd(h, c)
  BY DEF T!TrackCmd, TP!TrackCmd, T!UntrackCmd, TP!UntrackCmd, T!CmdStart,
         TP!CmdStart, T!Pending, TP!Pending, T!Cardinality, TP!Cardinality
<1>6. \A m \in W!Msg : T!BotFanout(m) => TP!BotFanout(m)
  BY DEF T!BotFanout, TP!BotFanout, T!Tracked, TP!Tracked
<1>7. T!BotStop(TRUE) \/ T!Cancel => TP!BotStop(TRUE) \/ TP!Cancel
  BY DEF T!BotStop, TP!BotStop, T!Cancel, TP!Cancel
<1>8. T!Next => TP!Next
  BY <1>2, <1>3, <1>4, <1>5, <1>6, <1>7, <1>11
  DEF T!Next, TP!Next, T!OwnNext, TP!OwnNext
<1>9. UNCHANGED T!vars => UNCHANGED TP!vars
  OBVIOUS
<1>10. [T!Next]_(T!vars) => [TP!Next]_(TP!vars)
  BY <1>8, <1>9
<1> QED BY <1>1, <1>10, PTL DEF T!Spec, TP!Spec

-----------------------------------------------------------------------------
(* The promise *)

\* A tracker that is about to post a match has taken it from the fan-out, and
\* the channel of the tracker has not seen it yet.
Fresh ==
    /\ posted \in [Channels \X W!Msg -> 0 .. 2]
    /\ \A k \in T!Trackers : g[k] = "sending" =>
         /\ owner[k] \in Channels /\ cur[k] \in W!Msg
         /\ Real(cur[k]) => cur[k] \in fanned /\ posted[<<owner[k], cur[k]>>] = 0

LEMMA FreshHolds ==
    ASSUME W!DistinctKeys
    PROVE  Spec => []Fresh
<1>1. TP!Spec => []TP!Inv
  BY TP!InvHolds, TracksReady DEF TP!TracksAssumption
<1>2. TP!Inv => Fresh
  BY TracksReady
  DEF TP!Inv, TP!PostInv, TP!Sending, TP!TypeOK, TP!Trackers, T!Trackers, Fresh,
      Real, TP!TracksAssumption
<1>3. Spec => T!Spec
  BY ImplementsTracks DEF FeedsTracks
<1> QED BY <1>1, <1>2, <1>3, SameTracks, PTL

\* The abstract state, by name.
Played == [p \in Players |-> latest[AccountOf[p]]]
Posted == [x \in Channels \X Players \X (1 .. MaxMatch) |-> PostCount(x)]

LEMMA PromiseInit == Init => Promise!Init
<1> SUFFICES ASSUME Init PROVE Promise!Init
  OBVIOUS
<1>1. Played = [p \in Players |-> 0]
  BY ServiceAssumption
  DEF Init, W!Init, W!NoMatch, Played, W!WatcherAssumption
<1>2. Posted = [x \in Channels \X Players \X (1 .. MaxMatch) |-> 0]
  <2>1. \A c \in Channels, p \in Players, n \in 1 .. MaxMatch :
           PostCount(<<c, p, n>>) = 0
    BY DEF Init, T!InitTracks, PostCount, W!Msg, W!Ids
  <2> QED BY <2>1 DEF Posted
<1> QED BY <1>1, <1>2 DEF Promise!Init, Played, Posted

\* A match that is played is played for the one player who has the account.
LEMMA PromisePlay ==
    ASSUME W!DistinctKeys, WatcherTypes, NEW a \in Accounts, W!MatchPlayed(a),
           UNCHANGED posted
    PROVE  Promise!Next \/ UNCHANGED <<Played, Posted>>
<1>1. /\ latest[a] < MaxMatch /\ latest' = [latest EXCEPT ![a] = @ + 1]
      /\ latest \in [Accounts -> W!Ids \cup {W!NoMatch}]
  BY DEF W!MatchPlayed, WatcherTypes, W!TypeOK
<1>2. \A p \in Players : AccountOf[p] \in Accounts
  BY ServiceAssumption DEF W!WatcherAssumption
<1>3. UNCHANGED Posted
  BY DEF Posted, PostCount
<1>4. CASE \E p \in Players : AccountOf[p] = a
  <2>1. PICK p \in Players : AccountOf[p] = a
    BY <1>4
  <2>2. \A q \in Players : AccountOf[q] = a => q = p
    BY <2>1 DEF W!DistinctKeys
  <2>3. Played' = [Played EXCEPT ![p] = @ + 1]
    BY <1>1, <1>2, <2>1, <2>2 DEF Played
  <2>4. Played[p] < MaxMatch
    BY <1>1, <2>1 DEF Played
  <2>5. Promise!Play(p)
    BY <1>3, <2>3, <2>4 DEF Promise!Play, Played, Posted
  <2> QED BY <2>5 DEF Promise!Next
<1>5. CASE ~\E p \in Players : AccountOf[p] = a
  <2>1. UNCHANGED Played
    BY <1>1, <1>2, <1>5 DEF Played
  <2> QED BY <1>3, <2>1
<1> QED BY <1>4, <1>5

\* What a tracker posts was played, and the channel gets it for the first time;
\* an error signal is no match.
LEMMA PromisePost ==
    ASSUME Announced, LinkInv, Fresh, NEW k \in T!Trackers, T!TrackerPost(k),
           UNCHANGED latest
    PROVE  Promise!Next \/ UNCHANGED <<Played, Posted>>
<1> DEFINE c == owner[k]
           m == cur[k]
<1>1. /\ c \in Channels /\ m \in W!Msg
      /\ Real(m) => m \in fanned /\ posted[<<c, m>>] = 0
      /\ posted \in [Channels \X W!Msg -> 0 .. 2]
  BY DEF T!TrackerPost, Fresh
<1>2. UNCHANGED Played
  BY DEF Played
<1>3. CASE UNCHANGED posted
  BY <1>2, <1>3 DEF Posted, PostCount
<1>4. CASE ~UNCHANGED posted
  <2>1. Real(m) /\ posted' = [posted EXCEPT ![<<c, m>>] = 1]
    BY <1>1, <1>4 DEF T!TrackerPost, T!CountPost, Real
  <2> HIDE DEF c, m
  <2>2. m.player \in Players /\ m.id \in 1 .. MaxMatch
    BY <1>1, <2>1 DEF W!Msg, Real, W!Ids
  <2>3. m = [player |-> m.player, id |-> m.id]
    BY <1>1 DEF W!Msg
  <2>4. m.id <= latest[AccountOf[m.player]]
    <3>1. CountOf(sent, m) >= 1
      BY <1>1, <2>1 DEF LinkInv
    <3>2. AccountOf[m.player] \in Accounts /\ m.id \in W!Ids
      BY <1>1, <2>1, RealId
    <3> QED BY <3>1, <3>2 DEF Announced, CountOf
  <2>5. Posted[<<c, m.player, m.id>>] = 0
    BY <1>1, <2>1, <2>2, <2>3 DEF Posted, PostCount
  <2>6. Posted' = [Posted EXCEPT ![<<c, m.player, m.id>>] = 1]
    <3>1. ASSUME NEW x \in Channels \X Players \X (1 .. MaxMatch)
          PROVE  PostCount(x)' = IF x = <<c, m.player, m.id>> THEN 1 ELSE PostCount(x)
      <4>1. /\ x = <<x[1], x[2], x[3]>> /\ x[1] \in Channels /\ x[2] \in Players
            /\ [player |-> x[2], id |-> x[3]] \in W!Msg
        BY DEF W!Msg, W!Ids
      <4>2. CASE x = <<c, m.player, m.id>>
        <5>1. x[1] = c /\ x[2] = m.player /\ x[3] = m.id
          BY <4>2
        <5> QED BY <1>1, <2>1, <2>3, <4>2, <5>1 DEF PostCount
      <4>3. CASE x # <<c, m.player, m.id>>
        <5>1. <<x[1], [player |-> x[2], id |-> x[3]]>> # <<c, m>>
          BY <4>1, <4>3
        <5> QED BY <1>1, <2>1, <4>1, <4>3, <5>1 DEF PostCount
      <4> QED BY <4>2, <4>3
    <3> QED BY <1>1, <2>2, <3>1 DEF Posted
  <2>7. Promise!Post(c, m.player, m.id)
    BY <1>2, <2>2, <2>4, <2>5, <2>6 DEF Promise!Post, Played, Posted
  <2> QED BY <1>1, <2>2, <2>7 DEF Promise!Next
<1> QED BY <1>3, <1>4

\* No other step plays or posts anything.
LEMMA PromiseStep ==
    ASSUME W!DistinctKeys, WatcherTypes, Announced, LinkInv, Fresh, [Next]_vars
    PROVE  Promise!Next \/ UNCHANGED <<Played, Posted>>
<1>0. ASSUME UNCHANGED <<latest, posted>> PROVE UNCHANGED <<Played, Posted>>
  BY <1>0 DEF Played, Posted, PostCount
<1>1. CASE WatcherStep
  <2>1. UNCHANGED posted
    BY <1>1 DEF WatcherStep, botVars
  <2>2. CASE \E a \in Accounts : W!MatchPlayed(a)
    BY <2>1, <2>2, PromisePlay
  <2>3. CASE ~\E a \in Accounts : W!MatchPlayed(a)
    <3>1. UNCHANGED latest
      BY <1>1, <2>3
      DEF WatcherStep, W!LoopStep, W!SyncOK, W!SyncFail, W!Backoff, W!Tick,
          W!RoundDone, W!LoopStop, W!PlayerStep, W!FetchOK, W!FetchFail,
          W!SendError, W!Decide, W!SendMatch, W!StoreSet, W!ReloadPlayers,
          W!MatchAges, W!worldVars
    <3> QED BY <1>0, <2>1, <3>1
  <2> QED BY <2>2, <2>3
<1>2. CASE BotOwnStep
  <2>1. UNCHANGED latest
    BY <1>2 DEF BotOwnStep, watcherVars
  <2>2. CASE \E k \in T!Trackers : T!TrackerPost(k)
    BY <2>1, <2>2, PromisePost
  <2>3. CASE ~\E k \in T!Trackers : T!TrackerPost(k)
    <3>1. UNCHANGED posted
      BY <1>2, <2>3
      DEF BotOwnStep, T!OwnNext, T!BotStep, T!BotTrackHome, T!FanoutStep,
          T!FanoutDone, T!FanoutSend, T!FanoutTimeout, T!BotUntrackAll, T!BotClose,
          T!TrackerStep, T!TrackerQuit, T!TrackerBye, T!CmdStep, T!DoTrack,
          T!DoUntrack, T!CmdEnd, T!TrackCmd, T!UntrackCmd, T!CmdStart, T!CmdCalled,
          T!CmdIgnored
    <3> QED BY <1>0, <2>1, <3>1
  <2> QED BY <2>2, <2>3
<1>3. CASE BotReceive
  BY <1>0, <1>3 DEF BotReceive, W!Receive, T!BotFanout, W!worldVars
<1>4. CASE BotStop
  BY <1>0, <1>4 DEF BotStop, T!BotStop, watcherVars
<1>5. CASE MainStartBot \/ Signal \/ MainJoin \/ UNCHANGED vars
  BY <1>0, <1>5 DEF MainStartBot, Signal, MainJoin, vars, watcherVars, botVars
<1> QED BY <1>1, <1>2, <1>3, <1>4, <1>5 DEF Next

\* The service implements Notifications: a channel is told of a match once, and
\* not before it was played, for any players, channels, commands and bounds, with
\* distinct keys.
THEOREM Promised ==
    ASSUME W!DistinctKeys
    PROVE  Spec => KeepsPromise
<1>1. WatcherTypes /\ Announced /\ LinkInv /\ Fresh /\ [Next]_vars =>
         [Promise!Next]_<<Played, Posted>>
  BY PromiseStep
<1>2. Spec => []WatcherTypes
  BY TypesHold
<1>3. Spec => []Announced
  BY AnnouncedHolds
<1>4. Spec => []LinkInv
  BY LinkHolds
<1>5. Spec => []Fresh
  BY FreshHolds
<1> QED BY <1>1, <1>2, <1>3, <1>4, <1>5, PromiseInit, PTL
        DEF Spec, KeepsPromise, Promise!Spec, Played, Posted

-----------------------------------------------------------------------------
(* How a shutdown hangs *)

\* Nobody frees a goroutine that sends to a channel without a reader: the
\* round waits for it, and only a receive makes room.
LEMMA WedgedStep ==
    ASSUME Inv, WatcherTypes, Wedged, [Next]_vars
    PROVE  Wedged'
<1>1. PICK p \in Players : pc[p] = "send"
  BY DEF Wedged
<1>2. /\ phase = "check"
      /\ Len(ch) = capacity /\ capacity \in Nat /\ pc \in [Players -> W!PcSet]
      /\ bpc \in {"stopped", "untracked", "done"}
  BY <1>1 DEF Inv, WatcherInv, Wedged, WatcherTypes, W!TypeOK
<1>3. ~(Len(ch) < capacity)
  BY <1>2
<1>4. CASE WatcherStep
  <2>1. bpc' = bpc
    BY <1>4 DEF WatcherStep, botVars
  <2>2. ~W!LoopStep
    BY <1>1, <1>2
    DEF W!LoopStep, W!SyncOK, W!SyncFail, W!Backoff, W!Tick, W!RoundDone, W!LoopStop
  <2>3. ASSUME NEW q \in Players, W!PlayerStep(q)
        PROVE  UNCHANGED <<ch, capacity>> /\ pc'[p] = "send"
    <3>1. ~W!SendMatch(q) /\ pc[q] # "send"
      BY <1>3, <2>3
      DEF W!PlayerStep, W!SendMatch, W!FetchOK, W!FetchFail, W!SendError,
          W!Decide, W!StoreSet
    <3>2. UNCHANGED <<ch, capacity>> /\ \E l : pc' = [pc EXCEPT ![q] = l]
      BY <1>3, <2>3, <3>1
      DEF W!PlayerStep, W!FetchOK, W!FetchFail, W!SendError, W!Decide,
          W!StoreSet, W!Return, W!Goto, W!chVars, W!configVars
    <3> QED BY <1>1, <1>2, <3>1, <3>2
  <2>4. ASSUME W!ReloadPlayers \/ \E a \in Accounts : W!MatchPlayed(a) \/ W!MatchAges(a)
        PROVE  UNCHANGED <<ch, capacity, pc>>
    BY <2>4
    DEF W!ReloadPlayers, W!MatchPlayed, W!MatchAges, W!chVars, W!configVars,
        W!roundVars
  <2> QED BY <1>1, <1>2, <1>4, <2>1, <2>2, <2>3, <2>4 DEF WatcherStep, Wedged
<1>5. ASSUME UNCHANGED <<ch, capacity, pc>>, bpc' \in {"stopped", "untracked", "done"}
      PROVE  Wedged'
  BY <1>5 DEF Wedged
<1>6. CASE BotOwnStep
  <2>1. bpc' \in {"stopped", "untracked", "done"}
    BY <1>2, <1>6
    DEF BotOwnStep, T!OwnNext, T!BotStep, T!BotTrackHome, T!FanoutStep,
        T!FanoutDone, T!FanoutSend, T!FanoutTimeout, T!BotUntrackAll, T!BotClose,
        T!TrackerStep, T!TrackerQuit, T!TrackerPost, T!TrackerBye, T!CmdStep,
        T!DoTrack, T!DoUntrack, T!CmdEnd, T!TrackCmd, T!UntrackCmd, T!CmdStart,
        T!CmdCalled, T!CmdIgnored
  <2> QED BY <1>5, <1>6, <2>1 DEF BotOwnStep, watcherVars
<1>7. CASE BotReceive \/ BotStop
  BY <1>2, <1>7 DEF BotReceive, BotStop, T!BotFanout, T!BotStop
<1>8. CASE MainStartBot \/ Signal \/ MainJoin \/ UNCHANGED vars
  BY <1>2, <1>5, <1>8 DEF MainStartBot, Signal, MainJoin, vars, watcherVars, botVars
<1> QED BY <1>4, <1>6, <1>7, <1>8 DEF Next

\* A goroutine that is stuck in its send stays stuck.
THEOREM StaysWedged == Spec => WedgedForGood
<1>1. Inv /\ WatcherTypes /\ [Next]_vars => [Wedged => Wedged']_vars
  BY WedgedStep
<1> QED BY <1>1, TypesHold, InvInit, InvStep, PTL DEF Spec, WedgedForGood

\* The bot is past its start only while main waits, or after both are joined.
BotStarted ==
    bpc # "open" =>
        mainPc \in {"wait", "joining"} \/ (mainPc = "exited" /\ phase = "stopped")

LEMMA StartedStep ==
    ASSUME BotStarted, [Next]_vars
    PROVE  BotStarted'
<1>1. CASE WatcherStep
  BY <1>1 DEF WatcherStep, Running, BotStarted, botVars
<1>2. CASE BotOwnStep \/ BotReceive \/ BotStop
  BY <1>2 DEF BotOwnStep, BotReceive, BotStop, BotUp, BotStarted
<1>3. CASE MainStartBot \/ Signal \/ MainJoin
  <2>1. UNCHANGED <<bpc, phase>>
    BY <1>3 DEF MainStartBot, Signal, MainJoin, watcherVars, botVars
  <2> QED BY <1>3, <2>1 DEF MainStartBot, Signal, MainJoin, BotStarted
<1>4. CASE UNCHANGED vars
  BY <1>4 DEF vars, watcherVars, botVars, BotStarted
<1> QED BY <1>1, <1>2, <1>3, <1>4 DEF Next

\* So the process does not end by itself any more: main waits for a watcher that
\* waits for its round, whose barrier waits for the stuck goroutine.
THEOREM NeverExits == Spec => [](Wedged => [](mainPc # "exited"))
<1>1. Init => BotStarted
  BY DEF Init, T!InitTracks, BotStarted
<1>2. BotStarted /\ [Next]_vars => BotStarted'
  BY StartedStep
<1>3. Inv /\ BotStarted /\ Wedged => mainPc # "exited"
  BY DEF Inv, WatcherInv, BotStarted, Wedged
<1>4. Inv /\ WatcherTypes /\ Wedged /\ [Next]_vars => Wedged'
  BY WedgedStep
<1> QED BY <1>1, <1>2, <1>3, <1>4, TypesHold, InvInit, InvStep, PTL DEF Spec

-----------------------------------------------------------------------------
(* No panic, whatever the keys *)

\* The bot as one that takes every message for a signal, and so forgets which
\* matches it has taken.
TA == INSTANCE TracksProofs WITH
        Matches <- W!Msg,
        Signals <- W!Msg,
        fanned <- {},
        posted <- [cm \in Channels \X W!Msg |-> 0]

LEMMA ForgetfulReady == TA!TracksAssumption
BY ServiceAssumption DEF T!TracksAssumption, TA!TracksAssumption

\* It takes the steps this one takes, whatever is received.
LEMMA ForgetfulBot == Spec => TA!Spec
<1> USE DEF T!vars, T!ownVars, T!mapVars, T!trackerVars, T!fanVars, T!cmdVars,
            TA!vars, TA!ownVars, TA!mapVars, TA!trackerVars, TA!fanVars, TA!cmdVars,
            T!Trackers, TA!Trackers
<1>1. Init => TA!Init
  BY DEF Init, W!Init, T!InitTracks, TA!Init, TA!InitTracks
<1>2. T!BotStep => TA!BotStep
  BY DEF T!BotStep, TA!BotStep, T!BotTrackHome, TA!BotTrackHome, T!Track, TA!Track,
         T!FanoutStep, TA!FanoutStep, T!FanoutDone, TA!FanoutDone, T!FanoutSend,
         TA!FanoutSend, T!FanoutTimeout, TA!FanoutTimeout, T!BotUntrackAll,
         TA!BotUntrackAll, T!UntrackSet, TA!UntrackSet, T!BotClose, TA!BotClose
<1>3. \A k \in T!Trackers : T!TrackerStep(k) => TA!TrackerStep(k)
  BY DEF T!TrackerStep, TA!TrackerStep, T!TrackerQuit, TA!TrackerQuit,
         T!TrackerPost, TA!TrackerPost, T!TrackerBye, TA!TrackerBye
<1>4. \A h \in Handlers : T!CmdStep(h) => TA!CmdStep(h)
  BY DEF T!CmdStep, TA!CmdStep, T!DoTrack, TA!DoTrack, T!DoUntrack, TA!DoUntrack,
         T!Track, TA!Track, T!UntrackSet, TA!UntrackSet, T!CmdEnd, TA!CmdEnd
<1>11. \A h \in Handlers :
         T!CmdCalled(h) \/ T!CmdIgnored(h) => TA!CmdCalled(h) \/ TA!CmdIgnored(h)
  BY DEF T!CmdCalled, TA!CmdCalled, T!CmdIgnored, TA!CmdIgnored
<1>5. \A h \in Handlers, c \in Channels :
         T!TrackCmd(h, c) \/ T!UntrackCmd(h, c) => TA!TrackCmd(h, c) \/ TA!UntrackCmd(h, c)
  BY DEF T!TrackCmd, TA!TrackCmd, T!UntrackCmd, TA!UntrackCmd, T!CmdStart,
         TA!CmdStart, T!Pending, TA!Pending, T!Cardinality, TA!Cardinality
<1>6. \A m \in W!Msg : T!BotFanout(m) => TA!BotFanout(m)
  BY DEF T!BotFanout, TA!BotFanout, T!Tracked, TA!Tracked
<1>7. T!BotStop(chClosed /\ ch = <<>>) => TA!BotStop(TRUE)
  BY DEF T!BotStop, TA!BotStop
<1>8. T!OwnNext => TA!OwnNext
  BY <1>2, <1>3, <1>4, <1>5, <1>11 DEF T!OwnNext, TA!OwnNext
<1>9. UNCHANGED <<botVars, ctxDone>> => UNCHANGED TA!vars
  BY DEF botVars
<1>10. Inv /\ WatcherTypes /\ [Next]_vars => [TA!Next]_(TA!vars)
  <2> SUFFICES ASSUME Inv, WatcherTypes, [Next]_vars
               PROVE  TA!Next \/ UNCHANGED <<botVars, ctxDone>>
    BY <1>9
  <2> USE DEF TA!Next
  <2>1. CASE WatcherStep
    <3>1. ASSUME NEW p \in Players, W!PlayerStep(p) PROVE ctxDone' = ctxDone
      BY <3>1, PlayerStepInv DEF Inv
    <3>2. CASE W!LoopStep
      BY <2>1, <3>2, LoopStepInv DEF Inv, WatcherStep
    <3>3. CASE \/ W!ReloadPlayers
               \/ \E a \in Accounts : W!MatchPlayed(a) \/ W!MatchAges(a)
      BY <2>1, <3>3
      DEF WatcherStep, W!ReloadPlayers, W!MatchPlayed, W!MatchAges, W!worldVars
    <3> QED BY <2>1, <3>1, <3>2, <3>3 DEF WatcherStep
  <2>2. CASE BotOwnStep
    BY <1>8, <2>2 DEF BotOwnStep
  <2>3. CASE BotReceive
    <3>1. ch \in Seq(W!Msg) /\ ch # <<>> /\ T!BotFanout(Head(ch))
      BY <2>3 DEF BotReceive, W!Receive, WatcherTypes, W!TypeOK
    <3>2. Head(ch) \in W!Msg \ {}
      BY <3>1
    <3> QED BY <1>6, <3>1, <3>2
  <2>4. CASE BotStop
    BY <1>7, <2>4 DEF BotStop
  <2>5. CASE Signal
    <3>1. CASE mainPc = "starting"
      BY <2>5, <3>1 DEF Signal
    <3>2. CASE mainPc = "wait"
      BY <2>5, <3>2 DEF Signal, botVars, Inv, MainInv, TA!Cancel
    <3> QED BY <2>5, <3>1, <3>2 DEF Signal
  <2>6. CASE MainStartBot \/ MainJoin \/ UNCHANGED vars
    BY <2>6 DEF MainStartBot, MainJoin, vars
  <2> QED BY <2>1, <2>2, <2>3, <2>4, <2>5, <2>6 DEF Next
<1> QED BY <1>1, <1>10, TypesHold, InvInit, InvStep, PTL DEF Spec, TA!Spec

\* Nothing is sent on the watcher's channel after it was closed, and a fan-out
\* or a shutdown of the bot only meets open trackers of the right channel.
THEOREM NeverPanics ==
    Spec => [](W!NoSendAfterClose /\ T!EntriesOpen /\ T!EntriesOwn)
<1>1. WP!Spec => []WP!NoSendAfterClose
  BY WP!SendsBeforeClose, WatcherReady DEF WP!WatcherAssumption
<1>2. TA!Spec => []TA!Inv
  BY TA!InvHolds, ForgetfulReady DEF TA!TracksAssumption
<1>3. TA!Inv => T!EntriesOpen /\ T!EntriesOwn
  BY ForgetfulReady
  DEF TA!Inv, TA!MapInv, TA!TypeOK, TA!Trackers, T!EntriesOpen, T!EntriesOwn,
      TA!TracksAssumption
<1>4. WP!NoSendAfterClose => W!NoSendAfterClose
  BY DEF WP!NoSendAfterClose, W!NoSendAfterClose
<1> QED BY <1>1, <1>2, <1>3, <1>4, ImplementsWatcher, SameWatcher, ForgetfulBot, PTL
=============================================================================
