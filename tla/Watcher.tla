------------------------------- MODULE Watcher -------------------------------
(***************************************************************************)
(* The match watcher: internal/leaguewatcher/watcher/watcher.go and its    *)
(* in-memory store watcher/repository/match.go.                            *)
(*                                                                         *)
(* Run first syncs champion data with bounded retries, then one goroutine  *)
(* loops over {ticker, ctx.Done}.  Every tick is a round: checkPlayers     *)
(* starts one goroutine per configured player and waits for all of them.   *)
(* A player goroutine asks the match API for the newest match, counts      *)
(* consecutive failures, drops matches that are too old or already         *)
(* processed, sends the rest on the bounded channel ch and only then       *)
(* records the match ID in the store.                                      *)
(*                                                                         *)
(* A config entry (player) names an account (region/name/tag), the key of  *)
(* the failure counters; the store is keyed by region:name only.  Match    *)
(* IDs of an account are 1, 2, ... in the order the matches are played.    *)
(***************************************************************************)
EXTENDS Integers, Sequences, FiniteSets

CONSTANTS
    Players,                \* config entries that PLAYERS_YAML may list
    Accounts,               \* region/name/tag triples
    Names,                  \* region:name pairs, the keys of the match store
    AccountOf,              \* [Players -> Accounts]
    NameOf,                 \* [Accounts -> Names]
    MaxConsecutiveFailures, \* maxConsecutiveFailures (30 in the code)
    MaxSyncAttempts,        \* maxSyncAttempts (5 in the code)
    MaxMatch                \* bound: matches an account plays

ASSUME WatcherAssumption ==
    /\ IsFiniteSet(Players) /\ Players # {}
    /\ AccountOf \in [Players -> Accounts]
    /\ NameOf \in [Accounts -> Names]
    /\ MaxConsecutiveFailures \in Nat \ {0}
    /\ MaxSyncAttempts \in Nat \ {0}
    /\ MaxMatch \in Nat

VARIABLES
    phase,          \* where Run and its goroutine are
    syncAttempts,   \* failed calls of api.Sync
    players,        \* the player list the ConfigManager holds
    capacity,       \* cap(ch): the number of players when Run was called
    pc,             \* where each player's goroutine of the round is
    job,            \* the match ID that goroutine works on
    store,          \* repository.Match: last processed match ID by name
    failCount,      \* consecutive failures, by account
    errorReported,  \* the failure was already reported, by account
    ch,             \* the channel from the watcher to the bot
    chClosed,
    ctxDone,        \* the application context is cancelled
    latest,         \* (API) newest match of an account, 0 if it has none
    aged,           \* (clock) matches up to this one are older than playedGap
    sent,           \* history: how often a match was put on ch
    errSent         \* history: error signals on ch since the last success

configVars  == <<players, capacity>>
roundVars   == <<pc, job>>
errVars     == <<failCount, errorReported, errSent>>
matchVars   == <<store, sent>>
chVars      == <<ch, chClosed>>
worldVars   == <<ctxDone, latest, aged>>
vars == <<phase, syncAttempts, configVars, roundVars, errVars, matchVars,
          chVars, worldVars>>

Ids         == 1 .. MaxMatch
NoMatch     == 0              \* absent from the store; an empty match list
ErrorSignal == 0              \* the Match whose Queue is "ERROR"
Msg         == [player : Players, id : Ids \cup {ErrorSignal}]
PhaseSet    == {"sync", "backoff", "loop", "check", "stopped"}
PcSet       == {"idle", "fetch", "got", "send", "set", "errsend"}

NameKey(p) == NameOf[AccountOf[p]]

TypeOK ==
    /\ phase \in PhaseSet
    /\ syncAttempts \in 0 .. MaxSyncAttempts
    /\ players \in (SUBSET Players) \ {{}}
    /\ capacity \in Nat \ {0}
    /\ pc \in [Players -> PcSet]
    /\ job \in [Players -> Ids \cup {NoMatch}]
    /\ store \in [Names -> Ids \cup {NoMatch}]
    /\ failCount \in [Accounts -> 0 .. MaxConsecutiveFailures]
    /\ errorReported \in [Accounts -> BOOLEAN]
    /\ ch \in Seq(Msg)
    /\ chClosed \in BOOLEAN
    /\ ctxDone \in BOOLEAN
    /\ latest \in [Accounts -> Ids \cup {NoMatch}]
    /\ aged \in [Accounts -> Ids \cup {NoMatch}]
    /\ sent \in [Accounts -> [Ids -> Nat]]
    /\ errSent \in [Accounts -> Nat]

Init ==
    /\ phase = "sync"
    /\ syncAttempts = 0
    /\ players \in (SUBSET Players) \ {{}}
    /\ capacity = Cardinality(players)
    /\ pc = [p \in Players |-> "idle"]
    /\ job = [p \in Players |-> NoMatch]
    /\ store = [n \in Names |-> NoMatch]
    /\ failCount = [a \in Accounts |-> 0]
    /\ errorReported = [a \in Accounts |-> FALSE]
    /\ ch = <<>>
    /\ chClosed = FALSE
    /\ ctxDone = FALSE
    /\ latest = [a \in Accounts |-> NoMatch]
    /\ aged = [a \in Accounts |-> NoMatch]
    /\ sent = [a \in Accounts |-> [i \in Ids |-> 0]]
    /\ errSent = [a \in Accounts |-> 0]

-----------------------------------------------------------------------------
(* Run: the initial sync, then the loop goroutine. *)

CloseAndStop ==
    /\ phase' = "stopped"
    /\ chClosed' = TRUE

\* The local counter is dead from here on: it is forgotten.
SyncOK ==
    /\ phase = "sync"
    /\ phase' = "loop"
    /\ syncAttempts' = 0
    /\ UNCHANGED <<configVars, roundVars, errVars, matchVars, chVars, worldVars>>

\* MUTANT of SyncFail: one attempt too many.
SyncFailOffByOne ==
    /\ phase = "sync"
    /\ syncAttempts' = syncAttempts + 1
    /\ IF syncAttempts >= MaxSyncAttempts
         THEN CloseAndStop
         ELSE phase' = "backoff" /\ UNCHANGED chClosed
    /\ UNCHANGED <<configVars, roundVars, errVars, matchVars, ch, worldVars>>

SyncFail ==
    /\ phase = "sync"
    /\ syncAttempts' = syncAttempts + 1
    /\ IF syncAttempts + 1 >= MaxSyncAttempts
         THEN CloseAndStop
         ELSE phase' = "backoff" /\ UNCHANGED chClosed
    /\ UNCHANGED <<configVars, roundVars, errVars, matchVars, ch, worldVars>>

\* select { time.After(15s) -> try again | ctx.Done -> give up }
Backoff ==
    /\ phase = "backoff"
    /\ \/ phase' = "sync" /\ UNCHANGED chClosed
       \/ ctxDone /\ CloseAndStop
    /\ UNCHANGED <<syncAttempts, configVars, roundVars, errVars, matchVars,
                   ch, worldVars>>

\* A tick may still win the select after cancellation.
Tick ==
    /\ phase = "loop"
    /\ phase' = "check"
    /\ pc' = [p \in Players |-> IF p \in players THEN "fetch" ELSE "idle"]
    /\ UNCHANGED <<syncAttempts, configVars, job, errVars, matchVars, chVars,
                   worldVars>>

\* MUTANT of RoundDone: nobody waits for the goroutines of the round.
RoundDoneEarly ==
    /\ phase = "check"
    /\ phase' = "loop"
    /\ UNCHANGED <<syncAttempts, configVars, roundVars, errVars, matchVars,
                   chVars, worldVars>>

RoundDone ==    \* wg.Wait returns
    /\ phase = "check"
    /\ \A p \in Players : pc[p] = "idle"
    /\ phase' = "loop"
    /\ UNCHANGED <<syncAttempts, configVars, roundVars, errVars, matchVars,
                   chVars, worldVars>>

LoopStop ==     \* ctx.Done wins; the defers close ch, then done
    /\ phase = "loop"
    /\ ctxDone
    /\ CloseAndStop
    /\ UNCHANGED <<syncAttempts, configVars, roundVars, errVars, matchVars,
                   ch, worldVars>>

-----------------------------------------------------------------------------
(* One player's goroutine of a round. *)

Goto(p, l) == pc' = [pc EXCEPT ![p] = l]

\* The goroutine returns, and its local match with it.
Return(p) == Goto(p, "idle") /\ job' = [job EXCEPT ![p] = NoMatch]

\* MUTANT of FetchOK: the first match of an unordered history.
FetchAnyMatch(p) ==
    LET a == AccountOf[p] IN
    /\ pc[p] = "fetch"
    /\ failCount' = [failCount EXCEPT ![a] = 0]
    /\ errorReported' = [errorReported EXCEPT ![a] = FALSE]
    /\ errSent' = [errSent EXCEPT ![a] = 0]
    /\ \E i \in 0 .. latest[a] :
         /\ job' = [job EXCEPT ![p] = i]
         /\ Goto(p, IF i = NoMatch THEN "idle" ELSE "got")
    /\ UNCHANGED <<phase, syncAttempts, configVars, matchVars, chVars,
                   worldVars>>

\* api.Matches succeeds: reportOK, then an empty list ends the goroutine.
\* Only the newest match is asked for (top: 1).  A reply that beat the
\* cancellation may still be handled after it.
FetchOK(p) ==
    LET a == AccountOf[p] IN
    /\ pc[p] = "fetch"
    /\ failCount' = [failCount EXCEPT ![a] = 0]
    /\ errorReported' = [errorReported EXCEPT ![a] = FALSE]
    /\ errSent' = [errSent EXCEPT ![a] = 0]
    /\ job' = [job EXCEPT ![p] = latest[a]]
    /\ Goto(p, IF latest[a] = NoMatch THEN "idle" ELSE "got")
    /\ UNCHANGED <<phase, syncAttempts, configVars, matchVars, chVars,
                   worldVars>>

\* MUTANT of ShouldReport: errorReported is not consulted.
ShouldReportAgain(a, n) == n >= MaxConsecutiveFailures

\* shouldReportError, given the counter after its increment.  The counter is
\* only compared with the threshold, so it is kept at most at the threshold.
ShouldReport(a, n) == n >= MaxConsecutiveFailures /\ ~errorReported[a]

FetchFail(p) ==
    LET a == AccountOf[p]
        n == IF failCount[a] < MaxConsecutiveFailures
               THEN failCount[a] + 1 ELSE failCount[a]
    IN
    /\ pc[p] = "fetch"
    /\ failCount' = [failCount EXCEPT ![a] = n]
    /\ IF ShouldReport(a, n)
         THEN /\ errorReported' = [errorReported EXCEPT ![a] = TRUE]
              /\ Goto(p, "errsend")
         ELSE /\ UNCHANGED errorReported
              /\ Goto(p, "idle")
    /\ UNCHANGED <<phase, syncAttempts, configVars, job, errSent, matchVars,
                   chVars, worldVars>>

\* select { ch <- error signal | default }: a full channel drops the signal.
SendError(p) ==
    LET a == AccountOf[p] IN
    /\ pc[p] = "errsend"
    /\ IF Len(ch) < capacity
         THEN /\ ch' = Append(ch, [player |-> p, id |-> ErrorSignal])
              /\ errSent' = [errSent EXCEPT ![a] = @ + 1]
         ELSE UNCHANGED <<ch, errSent>>
    /\ Goto(p, "idle")
    /\ UNCHANGED <<phase, syncAttempts, configVars, job, failCount,
                   errorReported, matchVars, chClosed, worldVars>>

\* MUTANT of Decide: the store is not consulted.
DecideWithoutStore(p) ==
    /\ pc[p] = "got"
    /\ IF job[p] <= aged[AccountOf[p]]
         THEN Return(p)
         ELSE Goto(p, "send") /\ UNCHANGED job
    /\ UNCHANGED <<phase, syncAttempts, configVars, errVars, matchVars,
                   chVars, worldVars>>

\* Too old, or the same match as last time: nothing to announce.
Decide(p) ==
    /\ pc[p] = "got"
    /\ IF \/ job[p] <= aged[AccountOf[p]]
          \/ store[NameKey(p)] = job[p]
         THEN Return(p)
         ELSE Goto(p, "send") /\ UNCHANGED job
    /\ UNCHANGED <<phase, syncAttempts, configVars, errVars, matchVars,
                   chVars, worldVars>>

\* MUTANT of SendMatch: a full channel drops the match, as it drops an error.
SendMatchOrDrop(p) ==
    /\ pc[p] = "send"
    /\ IF Len(ch) < capacity
         THEN /\ ch' = Append(ch, [player |-> p, id |-> job[p]])
              /\ sent' = [sent EXCEPT ![AccountOf[p]][job[p]] = @ + 1]
         ELSE UNCHANGED <<ch, sent>>
    /\ Goto(p, "set")
    /\ UNCHANGED <<phase, syncAttempts, configVars, job, errVars, store,
                   chClosed, worldVars>>

\* ch <- match: blocks while the buffer is full, whatever ctx says.
SendMatch(p) ==
    /\ pc[p] = "send"
    /\ Len(ch) < capacity
    /\ ch' = Append(ch, [player |-> p, id |-> job[p]])
    /\ sent' = [sent EXCEPT ![AccountOf[p]][job[p]] = @ + 1]
    /\ Goto(p, "set")
    /\ UNCHANGED <<phase, syncAttempts, configVars, job, errVars, store,
                   chClosed, worldVars>>

StoreSet(p) ==
    /\ pc[p] = "set"
    /\ store' = [store EXCEPT ![NameKey(p)] = job[p]]
    /\ Return(p)
    /\ UNCHANGED <<phase, syncAttempts, configVars, errVars, sent, chVars,
                   worldVars>>

PlayerStep(p) ==
    \/ FetchOK(p) \/ FetchFail(p) \/ SendError(p)
    \/ Decide(p) \/ SendMatch(p) \/ StoreSet(p)

-----------------------------------------------------------------------------
(* The surroundings: the bot at the other end of ch, the configuration, the *)
(* application context, the players and the clock.                          *)

Receive ==
    /\ ch # <<>>
    /\ ch' = Tail(ch)
    /\ UNCHANGED <<phase, syncAttempts, configVars, roundVars, errVars,
                   matchVars, chClosed, worldVars>>

ReloadPlayers ==
    /\ players' \in (SUBSET Players) \ {{}, players}
    /\ UNCHANGED <<phase, syncAttempts, capacity, roundVars, errVars,
                   matchVars, chVars, worldVars>>

Cancel ==
    /\ ~ctxDone
    /\ ctxDone' = TRUE
    /\ UNCHANGED <<phase, syncAttempts, configVars, roundVars, errVars,
                   matchVars, chVars, latest, aged>>

MatchPlayed(a) ==
    /\ latest[a] < MaxMatch
    /\ latest' = [latest EXCEPT ![a] = @ + 1]
    /\ UNCHANGED <<phase, syncAttempts, configVars, roundVars, errVars,
                   matchVars, chVars, ctxDone, aged>>

MatchAges(a) ==
    /\ aged[a] < latest[a]
    /\ aged' = [aged EXCEPT ![a] = @ + 1]
    /\ UNCHANGED <<phase, syncAttempts, configVars, roundVars, errVars,
                   matchVars, chVars, ctxDone, latest>>

World ==
    \/ ReloadPlayers \/ Cancel
    \/ \E a \in Accounts : MatchPlayed(a) \/ MatchAges(a)

LoopStep ==
    SyncOK \/ SyncFail \/ Backoff \/ Tick \/ RoundDone \/ LoopStop

Next == LoopStep \/ (\E p \in Players : PlayerStep(p)) \/ Receive \/ World

Spec == Init /\ [][Next]_vars

(* Fairness.  Goroutines are scheduled, the select of the loop takes a ready *)
(* case, api.Sync returns one way or the other; every request has a deadline *)
(* of 120 s, so a fetch ends, by success or failure.  The bot goes on        *)
(* receiving only until the context is cancelled.                            *)
FairSpec ==
    /\ Spec
    /\ WF_vars(SyncOK \/ SyncFail) /\ WF_vars(Backoff)
    /\ WF_vars(Tick) /\ WF_vars(RoundDone)
    /\ \A p \in Players : WF_vars(PlayerStep(p))
    /\ WF_vars(~ctxDone /\ Receive)

\* In addition the API answers now and then.
ApiFairSpec ==
    /\ FairSpec
    /\ \A p \in Players : SF_vars(FetchOK(p))

-----------------------------------------------------------------------------
(* Properties *)

\* The collision-free configuration the deduplication relies on: no account
\* is listed twice, and no two accounts share the store's key.
DistinctKeys ==
    /\ \A p, q \in Players : AccountOf[p] = AccountOf[q] => p = q
    /\ \A a, b \in Accounts : NameOf[a] = NameOf[b] => a = b

\* "Deduplicate match notifications" (ARCHITECTURE.md): a match of an account
\* is put on ch at most once, whatever rounds, reloads and failures happen
\* between the check of the store and its update.
AtMostOnce == \A a \in Accounts, i \in Ids : sent[a][i] <= 1

\* The store never claims a match nobody was told about: the ID is recorded
\* only once the channel has taken the message.
StoreImpliesSent ==
    \A n \in Names : store[n] # NoMatch =>
        \E a \in Accounts : NameOf[a] = n /\ sent[a][store[n]] >= 1

\* No goroutine of a round outlives the close of the channel it sends on:
\* checkPlayers waits for all of them before the loop can see ctx.Done.
NoSendAfterClose == chClosed => \A p \in Players : pc[p] = "idle"

\* An outage of an account, however long, costs at most one error message.
ErrorOncePerOutage == \A a \in Accounts : errSent[a] <= 1

\* A newer match of an account is never announced before an older one.
AnnouncedInOrder ==
    [][\A a \in Accounts : \A i, j \in Ids :
         i < j /\ sent'[a][i] > sent[a][i] => sent[a][j] = 0]_vars

\* A round ends: the barrier of checkPlayers cannot be held up for ever by a
\* player or a full channel while the bot consumes.
RoundTerminates == phase = "check" ~> (phase # "check" \/ ctxDone)

\* A match an account plays is announced, unless a newer one supersedes it,
\* it grows too old, the account is not listed or the watcher goes down.
Listed(a) == \E p \in players : AccountOf[p] = a
LatestAnnounced ==
    \A a \in Accounts, i \in Ids :
        latest[a] = i ~> \/ sent[a][i] >= 1
                         \/ latest[a] > i
                         \/ aged[a] >= i
                         \/ ~Listed(a)
                         \/ ctxDone \/ phase = "stopped"
=============================================================================
