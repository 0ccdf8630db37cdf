----------------------------- MODULE ServiceProofs -----------------------------
(***************************************************************************)
(* Proofs about LeagueWatcher: how the watcher, the bot and main go down   *)
(* together, for any players, accounts, channels, commands and bounds.     *)
(*                                                                         *)
(* The invariant relates where main is to the context, the context and the *)
(* closed channel to where the bot is, and the closed channel to where the *)
(* watcher and the goroutines of its round are.                            *)
(***************************************************************************)
EXTENDS LeagueWatcher, TLAPS

\* The watcher: goroutines only live in a round; the channel is closed by the
\* watcher's last step; without a cancellation only failed syncs lead there.
WatcherInv ==
    /\ phase # "check" => \A p \in Players : pc[p] = "idle"
    /\ chClosed <=> phase = "stopped"
    /\ phase \in {"sync", "backoff"} => syncAttempts \in 0 .. MaxSyncAttempts - 1
    /\ phase = "stopped" /\ ~ctxDone => syncAttempts = MaxSyncAttempts

\* The bot: it holds the mutex in a fan-out only; it goes down for a reason, and
\* closes its session last.
BotInv ==
    /\ mu = "free" <=> bpc # "fanout"
    /\ mu \in {"free", "bot"}
    /\ dgOpen <=> bpc # "done"
    /\ bpc \in {"stopped", "untracked", "done"} => ctxDone \/ chClosed

\* main: nobody else cancels; after a signal it waits for both.
MainInv ==
    /\ mainPc \in {"starting", "wait"} => ~ctxDone
    /\ mainPc = "exited" /\ ctxDone => phase = "stopped" /\ bpc = "done"

Inv == WatcherInv /\ BotInv /\ MainInv

LEMMA SyncLimit == MaxSyncAttempts \in Nat \ {0}
BY ServiceAssumption DEF W!WatcherAssumption

LEMMA InvInit == Init => Inv
<1> SUFFICES ASSUME Init PROVE Inv
  OBVIOUS
<1> USE SyncLimit DEF Init, W!Init, T!InitTracks
<1>1. WatcherInv
  BY DEF WatcherInv
<1>2. BotInv
  BY DEF BotInv
<1>3. MainInv
  BY DEF MainInv
<1> QED BY <1>1, <1>2, <1>3 DEF Inv

-----------------------------------------------------------------------------
(* Steps of the watcher *)

LEMMA LoopStepInv ==
    ASSUME WatcherInv, W!LoopStep
    PROVE  WatcherInv' /\ (chClosed => chClosed') /\ ctxDone' = ctxDone
<1> USE SyncLimit
<1> USE DEF WatcherInv, W!CloseAndStop, W!configVars, W!roundVars, W!errVars,
            W!matchVars, W!chVars, W!worldVars
<1>1. CASE W!SyncOK
  BY <1>1 DEF W!SyncOK
<1>2. CASE W!SyncFail
  <2>1. /\ phase = "sync" /\ syncAttempts' = syncAttempts + 1
        /\ syncAttempts \in 0 .. MaxSyncAttempts - 1
        /\ pc' = pc /\ ctxDone' = ctxDone /\ ~chClosed
    BY <1>2 DEF W!SyncFail
  <2>2. CASE syncAttempts + 1 >= MaxSyncAttempts
    <3>1. phase' = "stopped" /\ chClosed' = TRUE
      BY <1>2, <2>2 DEF W!SyncFail
    <3>2. syncAttempts' = MaxSyncAttempts
      BY <2>1, <2>2
    <3> QED BY <2>1, <3>1, <3>2
  <2>3. CASE ~(syncAttempts + 1 >= MaxSyncAttempts)
    <3>1. phase' = "backoff" /\ chClosed' = chClosed
      BY <1>2, <2>3 DEF W!SyncFail
    <3>2. syncAttempts' \in 0 .. MaxSyncAttempts - 1
      BY <2>1, <2>3
    <3> QED BY <2>1, <3>1, <3>2
  <2> QED BY <2>2, <2>3
<1>3. CASE W!Backoff
  BY <1>3 DEF W!Backoff
<1>4. CASE W!Tick
  BY <1>4 DEF W!Tick
<1>5. CASE W!RoundDone
  BY <1>5 DEF W!RoundDone
<1>6. CASE W!LoopStop
  BY <1>6 DEF W!LoopStop
<1> QED BY <1>1, <1>2, <1>3, <1>4, <1>5, <1>6 DEF W!LoopStep

LEMMA PlayerStepInv ==
    ASSUME WatcherInv, NEW p \in Players, W!PlayerStep(p)
    PROVE  WatcherInv' /\ UNCHANGED <<phase, chClosed, ctxDone>>
<1>1. pc[p] # "idle" /\ UNCHANGED <<phase, chClosed, ctxDone, syncAttempts>>
  BY DEF W!PlayerStep, W!FetchOK, W!FetchFail, W!SendError, W!Decide, W!SendMatch,
         W!StoreSet, W!chVars, W!worldVars
<1>2. phase = "check"
  BY <1>1 DEF WatcherInv
<1> QED BY <1>1, <1>2 DEF WatcherInv

LEMMA WatcherStepInv ==
    ASSUME Inv, WatcherStep
    PROVE  Inv'
<1>1. /\ mainPc # "exited" /\ UNCHANGED <<mainPc, mu, bpc, dgOpen>>
  BY DEF WatcherStep, Running, botVars
<1>2. WatcherInv' /\ (chClosed => chClosed') /\ ctxDone' = ctxDone
  <2>1. ASSUME W!LoopStep PROVE WatcherInv' /\ (chClosed => chClosed') /\ ctxDone' = ctxDone
    BY <2>1, LoopStepInv DEF Inv
  <2>2. ASSUME NEW p \in Players, W!PlayerStep(p)
        PROVE  WatcherInv' /\ (chClosed => chClosed') /\ ctxDone' = ctxDone
    BY <2>2, PlayerStepInv DEF Inv
  <2>3. ASSUME W!ReloadPlayers \/ \E a \in Accounts : W!MatchPlayed(a) \/ W!MatchAges(a)
        PROVE  WatcherInv' /\ (chClosed => chClosed') /\ ctxDone' = ctxDone
    BY <2>3 DEF Inv, WatcherInv, W!ReloadPlayers, W!MatchPlayed, W!MatchAges,
                W!roundVars, W!chVars, W!worldVars
  <2> QED BY <2>1, <2>2, <2>3 DEF WatcherStep
<1>3. BotInv' /\ MainInv'
  BY <1>1, <1>2 DEF Inv, BotInv, MainInv
<1> QED BY <1>2, <1>3 DEF Inv

-----------------------------------------------------------------------------
(* Steps of the bot *)

LEMMA BotOwnInv ==
    ASSUME BotInv, T!OwnNext
    PROVE  /\ mu' = "free" <=> bpc' # "fanout"
           /\ mu' \in {"free", "bot"}
           /\ dgOpen' <=> bpc' # "done"
           /\ bpc' \in {"stopped", "untracked", "done"} =>
                bpc \in {"stopped", "untracked", "done"}
           /\ bpc = "done" => bpc' = "done"
           /\ ctxDone' = ctxDone
<1> USE DEF BotInv, T!mapVars, T!trackerVars, T!fanVars, T!cmdVars
<1>1. CASE T!BotTrackHome
  BY <1>1 DEF T!BotTrackHome, T!Track
<1>2. CASE T!FanoutStep
  BY <1>2 DEF T!FanoutStep, T!FanoutDone, T!FanoutSend, T!FanoutTimeout
<1>3. CASE T!BotUntrackAll \/ T!BotClose
  BY <1>3 DEF T!BotUntrackAll, T!UntrackSet, T!BotClose
<1>4. ASSUME NEW i \in 1 .. MaxTrackers, T!TrackerStep(i)
      PROVE  UNCHANGED <<mu, bpc, dgOpen, ctxDone>>
  BY <1>4 DEF T!TrackerStep, T!TrackerQuit, T!TrackerPost, T!TrackerBye
<1>5. ASSUME NEW h \in Handlers, T!CmdStep(h)
      PROVE  UNCHANGED <<mu, bpc, dgOpen, ctxDone>>
  BY <1>5 DEF T!CmdStep, T!DoTrack, T!DoUntrack, T!Track, T!UntrackSet, T!CmdEnd
<1>6. ASSUME NEW h \in Handlers, NEW c \in Channels, T!TrackCmd(h, c) \/ T!UntrackCmd(h, c)
      PROVE  UNCHANGED <<mu, bpc, dgOpen, ctxDone>>
  BY <1>6 DEF T!TrackCmd, T!UntrackCmd, T!CmdStart
<1>7. ASSUME NEW h \in Handlers, T!CmdCalled(h) \/ T!CmdIgnored(h)
      PROVE  UNCHANGED <<mu, bpc, dgOpen, ctxDone>>
  BY <1>7 DEF T!CmdCalled, T!CmdIgnored
<1> QED BY <1>1, <1>2, <1>3, <1>4, <1>5, <1>6, <1>7
        DEF T!OwnNext, T!BotStep, T!Trackers

LEMMA BotOwnStepInv ==
    ASSUME Inv, BotOwnStep
    PROVE  Inv'
<1>1. /\ mainPc # "exited" /\ mainPc' = mainPc
      /\ UNCHANGED <<phase, syncAttempts, pc, chClosed>>
  BY DEF BotOwnStep, BotUp, watcherVars
<1>2. /\ mu' = "free" <=> bpc' # "fanout"
      /\ mu' \in {"free", "bot"}
      /\ dgOpen' <=> bpc' # "done"
      /\ bpc' \in {"stopped", "untracked", "done"} =>
           bpc \in {"stopped", "untracked", "done"}
      /\ ctxDone' = ctxDone
  BY BotOwnInv DEF BotOwnStep, Inv
<1>3. WatcherInv'
  BY <1>1, <1>2 DEF Inv, WatcherInv
<1>4. BotInv'
  BY <1>1, <1>2 DEF Inv, BotInv
<1>5. MainInv'
  BY <1>1, <1>2 DEF Inv, MainInv
<1> QED BY <1>3, <1>4, <1>5 DEF Inv

LEMMA BotReceiveInv ==
    ASSUME Inv, BotReceive
    PROVE  Inv'
<1>1. /\ mainPc # "exited" /\ mainPc' = mainPc
      /\ UNCHANGED <<phase, syncAttempts, pc, chClosed, ctxDone>>
  BY DEF BotReceive, BotUp, W!Receive, W!roundVars, W!worldVars
<1>2. bpc = "loop" /\ bpc' = "fanout" /\ mu' = "bot" /\ dgOpen' = dgOpen
  BY DEF BotReceive, T!BotFanout
<1> QED BY <1>1, <1>2 DEF Inv, WatcherInv, BotInv, MainInv

LEMMA BotStopInv ==
    ASSUME Inv, BotStop
    PROVE  Inv'
<1>1. /\ mainPc # "exited" /\ mainPc' = mainPc
      /\ UNCHANGED <<phase, syncAttempts, pc, chClosed>>
  BY DEF BotStop, BotUp, watcherVars
<1>2. /\ bpc = "loop" /\ bpc' = "stopped" /\ (ctxDone \/ chClosed)
      /\ UNCHANGED <<mu, dgOpen, ctxDone>>
  BY DEF BotStop, T!BotStop, T!mapVars
<1> QED BY <1>1, <1>2 DEF Inv, WatcherInv, BotInv, MainInv

-----------------------------------------------------------------------------
LEMMA MainStepInv ==
    ASSUME Inv, MainStartBot \/ Signal \/ MainJoin
    PROVE  Inv'
<1>1. UNCHANGED <<watcherVars, botVars>>
  BY DEF MainStartBot, Signal, MainJoin
<1>2. UNCHANGED <<phase, syncAttempts, pc, chClosed, mu, bpc, dgOpen>>
  BY <1>1 DEF watcherVars, botVars
<1>3. ctxDone => ctxDone'
  BY DEF MainStartBot, Signal, MainJoin
<1>4. WatcherInv' /\ BotInv'
  BY <1>2, <1>3 DEF Inv, WatcherInv, BotInv
<1>5. MainInv'
  BY <1>2 DEF Inv, MainInv, MainStartBot, Signal, MainJoin
<1> QED BY <1>4, <1>5 DEF Inv

LEMMA InvStep == Inv /\ [Next]_vars => Inv'
<1> SUFFICES ASSUME Inv, [Next]_vars PROVE Inv'
  OBVIOUS
<1>1. CASE UNCHANGED vars
  BY <1>1 DEF vars, watcherVars, botVars, Inv, WatcherInv, BotInv, MainInv
<1> QED BY <1>1, WatcherStepInv, BotOwnStepInv, BotReceiveInv, BotStopInv,
           MainStepInv DEF Next

\* When main returns after a signal nothing uses what it tears down.
THEOREM JoinedHolds == Spec => []JoinedExit
<1>1. Inv => JoinedExit
  BY DEF Inv, WatcherInv, BotInv, MainInv, JoinedExit
<1> QED BY <1>1, InvInit, InvStep, PTL DEF Spec

\* While main waits, only a watcher that never synced takes the bot off line.
THEOREM OnlineHolds == Spec => []OnlineWhileWatching
<1>1. Inv => OnlineWhileWatching
  BY DEF Inv, WatcherInv, BotInv, MainInv, OnlineWhileWatching
<1> QED BY <1>1, InvInit, InvStep, PTL DEF Spec
=============================================================================
