---------------------------- MODULE LeagueWatcher ----------------------------
(***************************************************************************)
(* The whole notification path: main (cmd/leaguewatcher/main.go) starts    *)
(* the watcher, then the bot, waits for a signal, cancels the context and  *)
(* joins both.  The watcher (module Watcher) hands matches to the bot      *)
(* (module Tracks) over the bounded channel ch; the context is shared.     *)
(***************************************************************************)
EXTENDS Integers, Sequences, FiniteSets

CONSTANTS
    Players, Accounts, Names, AccountOf, NameOf,
    MaxConsecutiveFailures, MaxSyncAttempts, MaxMatch,
    Channels, Home, MaxTrackers, Handlers, None

VARIABLES
    phase, syncAttempts, players, capacity, pc, job, store, failCount,
    errorReported, ch, chClosed, latest, aged, sent, errSent,
    mu, tracks, made, owner, closed, g, cur, bpc, todo, fanned, fanMsg,
    dgOpen, hpc, hch, posted,
    ctxDone,    \* shared by both
    mainPc      \* where main is: "starting" | "wait" | "joining" | "exited"

W == INSTANCE Watcher
T == INSTANCE Tracks WITH
        Matches <- W!Msg,
        Signals <- {m \in W!Msg : m.id = W!ErrorSignal}

ASSUME ServiceAssumption == W!WatcherAssumption /\ T!TracksAssumption

watcherVars ==
    <<phase, syncAttempts, players, capacity, pc, job, store, failCount,
      errorReported, ch, chClosed, latest, aged, sent, errSent>>
botVars ==
    <<mu, tracks, made, owner, closed, g, cur, bpc, todo, fanned, fanMsg,
      dgOpen, hpc, hch, posted>>
vars    == <<watcherVars, botVars, ctxDone, mainPc>>

Init ==
    /\ W!Init
    /\ T!InitTracks
    /\ mainPc = "starting"

-----------------------------------------------------------------------------
Running == mainPc # "exited"

\* Steps of the watcher and of the world it polls.
WatcherStep ==
    /\ Running
    /\ \/ W!LoopStep
       \/ \E p \in Players : W!PlayerStep(p)
       \/ W!ReloadPlayers
       \/ \E a \in Accounts : W!MatchPlayed(a) \/ W!MatchAges(a)
    /\ UNCHANGED <<botVars, mainPc>>

\* The bot runs once main has started it.
BotUp == mainPc \in {"wait", "joining"}

BotOwnStep ==
    /\ BotUp
    /\ T!OwnNext
    /\ UNCHANGED <<watcherVars, mainPc>>

\* m, ok := <-b.matchesCh, with a match: off the channel and into Fanout.
BotReceive ==
    /\ BotUp
    /\ W!Receive
    /\ T!BotFanout(Head(ch))
    /\ UNCHANGED mainPc

\* MUTANT of BotStop: an empty channel is taken for a closed one.
BotStopOnEmpty ==
    /\ BotUp
    /\ T!BotStop(ch = <<>>)
    /\ UNCHANGED <<watcherVars, mainPc>>

\* ... or ctx.Done, or the channel is closed and drained.
BotStop ==
    /\ BotUp
    /\ T!BotStop(chClosed /\ ch = <<>>)
    /\ UNCHANGED <<watcherVars, mainPc>>

\* watcher.Run returns once the first sync is over; then the bot is started,
\* unless it cannot be created or opened, which ends main.
MainStartBot ==
    /\ mainPc = "starting"
    /\ phase \notin {"sync", "backoff"}
    /\ mainPc' \in {"wait", "exited"}
    /\ UNCHANGED <<watcherVars, botVars, ctxDone>>

\* MUTANT of Signal: cancel() is left to main's defers.
SignalNoCancel ==
    /\ mainPc = "wait"
    /\ mainPc' = "joining"
    /\ UNCHANGED <<watcherVars, botVars, ctxDone>>

\* A signal before signal.Notify kills the process; after it, main cancels.
Signal ==
    /\ \/ /\ mainPc = "starting"
          /\ mainPc' = "exited"
          /\ UNCHANGED ctxDone
       \/ /\ mainPc = "wait"
          /\ mainPc' = "joining"
          /\ ctxDone' = TRUE
    /\ UNCHANGED <<watcherVars, botVars>>

\* MUTANT of MainJoin: the bot is not waited for.
MainJoinWatcher ==
    /\ mainPc = "joining"
    /\ phase = "stopped"
    /\ mainPc' = "exited"
    /\ UNCHANGED <<watcherVars, botVars, ctxDone>>

\* <-watcherDone, <-botDone; the deferred pool.Close follows.
MainJoin ==
    /\ mainPc = "joining"
    /\ phase = "stopped"
    /\ bpc = "done"
    /\ mainPc' = "exited"
    /\ UNCHANGED <<watcherVars, botVars, ctxDone>>

Next ==
    \/ WatcherStep \/ BotOwnStep \/ BotReceive \/ BotStop
    \/ MainStartBot \/ Signal \/ MainJoin

Spec == Init /\ [][Next]_vars

(* Fairness: the goroutines of both parts are scheduled, as in the modules    *)
(* they come from, the API answers now and then, and main goes on; nobody owes*)
(* a signal, a match, a command or a reload.                                  *)
AsWatcher(A) == Running /\ A /\ UNCHANGED <<botVars, mainPc>>
AsBot(A)     == BotUp /\ A /\ UNCHANGED <<watcherVars, mainPc>>

FairSpec ==
    /\ Spec
    /\ WF_vars(AsWatcher(W!SyncOK \/ W!SyncFail \/ W!Backoff \/ W!Tick \/ W!RoundDone))
    /\ SF_vars(AsWatcher(W!LoopStop))
    /\ \A p \in Players : /\ WF_vars(AsWatcher(W!PlayerStep(p)))
                         /\ SF_vars(AsWatcher(W!FetchOK(p)))
    /\ WF_vars(AsBot(T!BotStep) \/ BotReceive \/ BotStop)
    /\ \A i \in 1 .. MaxTrackers : WF_vars(AsBot(T!TrackerStep(i)))
    /\ \A h \in Handlers : WF_vars(AsBot(T!CmdStep(h)))
    /\ WF_vars(MainStartBot \/ MainJoin)

-----------------------------------------------------------------------------
(* Properties *)

\* The service implements what it promises to a channel.
PostCount(x) == posted[<<x[1], [player |-> x[2], id |-> x[3]]>>]
Promise == INSTANCE Notifications WITH
    played <- [p \in Players |-> latest[AccountOf[p]]],
    posted <- [x \in Channels \X Players \X (1 .. MaxMatch) |-> PostCount(x)]
KeepsPromise == Promise!Spec

\* The watcher feeds the bot what Tracks takes for granted, through the channel
\* and all retries: whatever is received, only an error signal comes again.
FeedsTracks == T!Spec

\* What takes the place of an announcement, as long as it was not sent: a newer
\* match, its age, or that the account is not listed any more.
Superseded(a, i) ==
    sent[a][i] = 0 /\ (latest[a] > i \/ aged[a] >= i \/ ~W!Listed(a))

\* A match an account plays reaches Fanout, which hands it to the channels: no
\* step between the API and the bot loses it, and no round that does not end, no
\* full channel and no bot that waits for a tracker holds it up for ever, but
\* for the shutdown and for a watcher that gave up in its first sync.
LatestFanned ==
    \A a \in Accounts, i \in 1 .. MaxMatch :
        latest[a] = i ~>
            \/ \E p \in Players : AccountOf[p] = a /\ [player |-> p, id |-> i] \in fanned
            \/ Superseded(a, i)
            \/ ctxDone \/ phase = "stopped" \/ ~Running

\* A player goroutine that can never send: ch is full and its reader is gone.
Wedged ==
    /\ bpc \in {"stopped", "untracked", "done"}
    /\ Len(ch) = capacity
    /\ \E p \in Players : pc[p] = "send"

\* Nothing frees such a goroutine, so the process has to be killed.
WedgedForGood == [][Wedged => Wedged']_vars

\* A signal ends the process, unless a goroutine is stuck in its send.
ExitsUnlessWedged == mainPc = "joining" ~> (mainPc = "exited" \/ Wedged)

\* "On shutdown: pool.Close() after watcherDone/botDone drain" (ADR-009).
Shutdown == mainPc = "joining" ~> mainPc = "exited"

\* When main returns after a signal, no player goroutine and no fan-out is left
\* that could use what main's deferred calls tear down.
JoinedExit ==
    mainPc = "exited" /\ ctxDone =>
        /\ chClosed /\ ~dgOpen /\ mu = "free"
        /\ \A p \in Players : pc[p] = "idle"

\* While main waits for a signal the bot goes off line for one reason only: the
\* watcher never got past its first sync.
OnlineWhileWatching ==
    mainPc = "wait" /\ ~dgOpen =>
        phase = "stopped" /\ syncAttempts = MaxSyncAttempts
=============================================================================
