# leaguewatcherbot in TLA+

Specifications of leaguewatcherbot, a Discord bot written in Go that polls the
match histories of League of Legends players, announces new matches in the
channels that track them, and runs a daily draw. The code is under `src/`; the
specifications follow the code, not its documents. Where the two disagree, a
run shows the disagreement and `PROJECT.json` lists it under `findings`.

## 1. The system

One process (`cmd/leaguewatcher`) and three operator tools (`tools/`).

| Part | State it keeps | Operations | Talks to |
|---|---|---|---|
| `watcher.Watcher` | failure counters and reported flags per account, the bounded channel `ch` | `Run` (sync with retries, ticker loop), `checkPlayers` (one goroutine per player, a barrier) | Mobalytics through `mobalytics.Client`; the match store; the bot through `ch` |
| `watcher/repository.Match` | last processed match ID per `region:name` | `Get`, `Set` | called by the player goroutines |
| `mobalytics.Client` | its cookie, the champion table | `Matches`, `Champions`/`Sync`, `getCookie`, `clearCookie` | `CookieGetter`, the API |
| `flaresolverr.CookieGetter` | cookie, expiry, a `sync.Once` | `GetCookie`, `backgroundFetcher`, `Stop` (`Reset` has no caller) | the FlareSolverr service |
| `bot.TracksMap` | tracker per channel, under a mutex | `Track`, `Untrack`, `UntrackAll`, `Fanout`, `IsTracking` | tracker goroutines over unbuffered channels |
| `bot.Bot` | the Discord session | `Run` (consumer goroutine), `cmd` and the commands, each in a goroutine of discordgo | watcher (`ch`), TracksMap, Postgres |
| `main` | - | start-up, signal, cancellation, joins | all of the above |
| `leaguewatcher.ConfigManager` | the configuration | `Reload`, `Get`, `GetPlayers`, auto-reload every 5 minutes | Doppler; read by the watcher, the commands and Ask |
| `bot` Ask, Tavily | none between questions | a search and a model call under one budget | Tavily, the LLM gateway |
| `bot` Khaleesi, `internal/khaleesi` | a counter and a threshold (atomics), the substitution table | count, compare, rewrite, reply, reset | Discord |
| `bot` pidor commands, `PidorStorePostgres` | table `pidor_rolls` | `TryChooseToday`, `Stats` (`CanBeChosen` has no caller) | Postgres |
| `tools/migrator` | `schema_migrations`, an advisory lock | `up`, `down`, `status`, `version` | Postgres |
| `tools/pidors-backfill` | rewrites `pidor_rolls` from a JSON file | `computePlan`, `applyPlan` | Postgres |
| info, event log, DSN resolution, Neon Auth check, `pidors2csv` | little or none | see section 8 | |

What is hard here, and what makes each part correct:

* **Watcher.** Player goroutines interleave; the store is read, the match sent
  and only then recorded; the channel may be full; the context may be cancelled
  anywhere; the player list changes under way. Correct: no match twice, none
  after a newer one, one error message per outage, rounds end, nothing is sent
  on a closed channel.
* **Delivery.** `Fanout` holds the mutex over blocking sends while commands
  replace and close trackers, and trackers leave by themselves when the context
  ends. Correct: no send on or second close of a closed channel, no double
  post, the mutex comes back, every tracker ends.
* **Composition.** Shutdown meets a bounded channel whose reader leaves.
  Correct: what `main` tears down is no longer used, and it ends.
* **Cookies.** Two caches with different rules, a `sync.Once` that is
  reassigned, a background writer, and a remote that invalidates cookies.
  Correct: one solve at a time, failures are retried, a refused cookie goes.
* **Migrator.** Plans are made before the lock is taken; the lock lives in one
  session and the work is done in others; commits may be lost. Correct: the
  books agree with the schema, which is a prefix of the migrations.
* **Daily roll.** Concurrent rolls, crashes, midnight, and an import that
  empties the table. Correct: one winner a day, no recorded roll is lost, and
  the statistics say what the rows say through renames and imports.
* **Configuration.** Secrets are edited one by one while a goroutine reloads
  them; some do not parse, some sets are not valid. Correct: the bot runs on
  one valid listing as a whole, and gets the next one in the end.
* **Ask.** Two remote calls share a budget, under a configuration that changes
  meanwhile. Correct: a question is late only if the model is.
* **Khaleesi.** Handlers count, compare and reset two atomics in separate
  steps; one key of the table is fatal. Correct: replies keep their distance
  but for the handlers a reply overtook, and they do not stop.

`PROJECT.json` lists the hazards one by one at their lines, each with the
properties that watch it or the reason why none does.

## 2. Modules

| Module | What it is |
|---|---|
| `Watcher` | the poll loop and player goroutines, with the match store and the channel |
| `Tracks` | the tracks map, trackers, the bot's consumer goroutine, track commands |
| `LeagueWatcher` | `main`: `Watcher` and `Tracks` composed over `ch` and the context (two `INSTANCE`s that share variables) |
| `Notifications` | the abstract promise to a channel; `LeagueWatcher` implements it |
| `CookieGetter` | both cookie caches, `sync.Once` with its mutex, the background fetcher |
| `Migrator` | concurrent migrator runs |
| `PidorDay` | the daily roll and the import of old statistics |
| `PidorStats` | extends `PidorDay` with what `!pidorstats` and `!pidorok` answer |
| `ConfigManager` | Doppler's listing, its parsing and validation, the auto-reload goroutine |
| `Ask` | a question: search, model, reply, and the two budgets |
| `Khaleesi` | the counter, the threshold and the rewriting of texts |
| `Chat` | `ConfigManager`, `Ask` and `Khaleesi` composed in a process that starts, exits and crashes |
| `WatcherProofs`, `TracksProofs`, `ServiceProofs`, `CookieProofs`, `MigratorProofs`, `PidorProofs`, `ChatProofs` | theorems about the module each one extends (`ServiceProofs`: `LeagueWatcher`; `PidorProofs`: `PidorDay` and `PidorStats`) |
| `PromiseProofs` | extends `ServiceProofs`: `LeagueWatcher` implements `Watcher`, `Tracks` and `Notifications`; how it hangs |
| `MC*` | constants for TLC; each `MC*.cfg` but `MCWatcherLive.cfg` is a run |

Operators marked `MUTANT` in a comment are not part of a specification: each is
a wrong version of the action next to it, the way a bug would change the code.
Substituting it must violate a property; `PROJECT.json` pairs them. `map` in
the same file names the lines every definition stands for.

### How state and actions correspond to the code

**Watcher.** `phase` is the position of `Run` (first sync, back-off, select of
the loop, inside `checkPlayers`, returned). `pc[p]` is the position of a
player's goroutine between two accesses to shared state: `fetch` (the API
call), `got` (a match in hand: age check and `store.Get`), `send`
(`ch <- match`), `set` (`store.Set`), `errsend` (the non-blocking error
signal). A critical section of a mutex is one action. The errgroup never
returns an error, so its derived context cancels nothing. `capacity` is fixed
when `Run` is called, whereas a round reads `players` afresh. An account's
matches are numbered in the order of play; the API returns the newest (`top: 1`)
or fails; `aged` is the clock passing `FinishedAt + playedGap`. `sent` and
`errSent` are history variables. The failure counter is only compared with
the threshold and is kept at most at it. The local counter of sync attempts is
forgotten once the sync succeeded.

**Tracks.** Trackers are numbered in the order in which `Track` made them; `g`
is where the goroutine is (`select`, posting, farewell, gone). Both of a track's
channels are closed together (`closed`). `mu` is only ever held over several
steps by `Fanout`; the other critical sections are one action each, guarded by
`mu = "free"`. `IsTracking` and the call it leads to are two actions, as in the
code. Before them comes `CmdCalled`, with which discordgo starts the goroutine of
a message while the session is open; the goroutine may look at its message, and
at the map, long after `BotClose`. Which message it has is chosen when it looks:
one that is to be tracked, one that is to be untracked, or one that comes to
nothing (`CmdIgnored`). `Signals` are the messages that may come again, the error signals; a match
comes at most once, which `fanned` records and `FeedsTracks` checks of the
composed service. A send meets a tracker that waits; otherwise the 10 s timer
ends the wait.

**LeagueWatcher.** `mainPc` is `main` before the bot runs, waiting for a
signal, joining, gone. `watcher.Run` returns only after the first sync, so the
bot starts after it. A signal before `signal.Notify` kills the process. The
receive of the bot and the beginning of `Fanout` are one action, since nothing
shared is touched between them (the map is locked at that point).
`ServiceAssumption` is that of both parts: an instance does not bring its
`ASSUME` along.

**CookieGetter.** `once` is the `sync.Once`: its flag and the locked bit, woken
bit and waiter count of its mutex (normal mode; spinning and starvation change
who gets the lock, not whether the state is consistent). This is the part of
the standard library that decides what an overwritten `Once` does; it is marked
external in the map. Assigning the zero value is one step; with the assignment
torn into words more outcomes exist, none of them better. `c.cookie` is read
without the lock after a cache hit: the model may return a torn value (`Torn`)
while a store of the background fetcher or of a caller is under way. Cookies are
numbered by the epoch of the challenge they were solved in. A solve and the store
of what it got are two steps, of a caller and of the fetcher: a cookie that is
refused by the time it is stored goes into the cache all the same.

**Migrator.** `objs` are the migrations in effect, `rows` the recorded ones;
version 1 creates the table of `rows`, and dropping it drops them all. Every
`ApplyMigration` is one transaction, hence one action. `Known[r]` is what the
binary of runner `r` embeds, `1 .. n` as `LoadMigrations` demands. The two
queries of `ReadApplied` are one step. The exit codes are the actions a run
ends with: 0 in `Finish`, 4 in `Fail` and after a COMMIT whose answer is lost,
5 when `TryLock` finds the lock held. `goal` (the plan as made), `raced`,
`ahead` and `lost` (a lock's session died) are history.

**PidorDay, PidorStats.** A handler fetches members, draws and reads the date,
then inserts. The unique constraint is `Slot = {}` in the guard. An uncommitted
`TRUNCATE` locks the table, an uncommitted `CREATE TABLE AS` does not. Users are
numbered in the order of their IDs; a bad entry of the JSON file has a count
of 0. A live row carries the winner's name of its day, an imported one that of
the file: `NameOn` gives both, and the statistics take the name on the latest
row, as the query does. `slices.SortFunc` is not stable and the rows come from a
walk over a map, so `sortPidors` is the set of the orders that may result. The
rank of `!pidorok` is looked up by name in one of them.

**ConfigManager.** A listing is a record of secrets; each is a value, `Missing`
or `Bad` (present, and not parsable). `Parse` is the construction of a `Config`
with its defaults, `Loads` is success of the parsing and of `IsValid`. The list
call and the publication under the lock are two actions, since an edit can come
between them. Secrets that no behaviour here tells apart are represented by one
of their kind.

**Ask.** `acfg` is the configuration the handler took at its start. Time is
counted in units of the budgets: the search uses up to `SearchLimit`, then the
model needs `n`, and at equality either the answer or the deadline wins.

**Khaleesi.** Each access to one of the two atomics is an action; `kval` is what
`Add` returned. A text is the set of keys a scan of it meets and those followed
by the letters `gi`; which key is last in the regular expression is the Go map's
choice at every start (`last`), and only that one needs the suffix, is then
absent from the table and ends the process. `Wrap` is the conversion to `int32`.
The counter saturates at `IntMax` in the model. `gap` counts texts between
replies, as far as the property looks; `overlap[h]` says that a reply or its
reset fell into the work of handler `h`.

**Chat.** `Start` is `main` loading the configuration and making the bot with
its own copy of the threshold; `Exit` and `Crash` drop what the process held. A
signal ends the process in one step: handlers are not waited for, and what one
of them does before `main` returns it may also do before the signal. A question
is taken alone (`Asking`), because it writes nothing that another handler reads.

## 3. Runs

| Run | Specification | Question | Bounds |
|---|---|---|---|
| `watcher` | `Watcher!Spec` | safety of polling | 2 players, 2 matches each, thresholds 2 |
| `tracks` | `Tracks!FairSpec` | safety and liveness of delivery | 2 channels, 2 trackers, 2 handlers, a match and an error signal |
| `service` | `LeagueWatcher!FairSpec` | refinement of `Notifications` and `Tracks`, delivery in the end, shutdown | 1 player, 2 matches, 1 channel |
| `cookie` | `RecoverySpec` | one solver, retries, recovery from a 403 | 2 callers, 2 epochs |
| `migrator` | `FairSpec` | books and schema, exit codes, lock release | 2 runners (2 and 3 versions known), 3 versions |
| `pidor` | `Spec` | one winner, nothing lost, true statistics | 2 handlers, 3 users, 2 days, 1 import, 2 rows shown |
| `chat` | `Chat!FairSpec` | one valid listing, budgets, distance and persistence of replies | 3 listings, 2 handlers, 2 keys, 2 texts, jitter 0..1, `IntMax` 3 |
| `watcher_collision` | `Spec`, violated | two tags under one store key | as `watcher` |
| `service_shutdown` | `FairSpec`, violated | does main always end after a signal | as `service` |
| `cookie_once` | `Spec`, violated | is the mutex of the Once intact | 2 callers |
| `cookie_stale` | `Spec`, violated | does a 403 reset the cache | 1 caller |
| `migrator_race` | `Spec`, violated | is the schema always linear | 2 equal runners, 2 versions |

`MCWatcherLive.cfg` can be run by hand on `MCWatcher` (one to two minutes):
`RoundTerminates` and `LatestAnnounced` for the watcher with a bot that is only
assumed to receive. `LatestFanned` of the run `service` asks the same with the
real bot at the other end.

### Why the bounds are enough

Everything between two players goes through the channel, the barrier and the
store, pairwise: two suffice to fill a channel of capacity one (started with
one player, reloaded to two), to race, and to collide on a key; two matches per
account suffice for order and repetition. Thresholds of 2 let a counter be
below, at and stay at its limit. Two tracker generations let a channel be
tracked again while its old tracker is still posting. One match is enough there:
no step of `Tracks` relates two, and the error signal, which may come at any time
and again, keeps the fan-out and the trackers as busy as a second match would. Two callers are what it
takes to be inside `Do` while the other resets it. Three versions with a binary
that knows two let a run be ahead of, behind and equal to the database. One
import and two days give every order of roll, snapshot, truncate and midnight;
of the three users one takes a name another had in the file, and one is renamed.
The three listings of `chat` are a full one, one with defaults for both budgets,
no model and replies disabled, and one that does not load; the texts are
one that only a lucky order of the keys rewrites and one that an unlucky order
makes fatal. Two handlers let one count and compare while the other replies. The
base is 2 and the jitter 0 or 1 there, so a threshold of 2 or 3; the jitter of
-10 to 10, a base beyond `int32` and the threshold's floor of 1 are left to the
proof. The theorems of section 6 remove the bounds for what they cover. In the
run `watcher` the two players are interchangeable and symmetry is used; no
liveness property is checked under symmetry. They have different store keys
(`DistinctKeys`): two tags of one name are what `watcher_collision` is about, and
an account listed twice is not in any run, it is announced twice (see the hazard).

Deadlock is checked for `migrator`, `pidor` and `chat`. The others may really
stop: the service ends after a signal (`watcher`, `tracks`, `service`), and
`cookie` stops with the runtime's fatal error or at shutdown.

### What the violated runs show

* `watcher_collision`: the store's key leaves out the tag, so two accounts of
  one name in one region make each other's match look new.
* `service_shutdown`: `ch <- match` has no `ctx.Done` case. With the bot gone
  and the buffer full the goroutine, the barrier, `watcherDone` and `main` wait
  for ever. `service` shows that this is the only way not to exit
  (`ExitsUnlessWedged`) and that it is final (`WedgedForGood`).
* `cookie_once`: with no cookie yet, one caller's reset replaces the `Once`
  another one is inside of.
* `cookie_stale`: a 403 clears one cache of two.
* `migrator_race`: both runs plan before either takes the lock.

Two more disagreements with documents have no run, because no property turns on
them. ADR-011 (`adr/011-pidor-rolls-table.md:87-93`) has the import insert with `ON
CONFLICT DO NOTHING`, so that a re-run overwrites nothing; the tool truncates the
table (`backfill.go:173`), and so does `ImportTruncate` in `PidorDay`. ADR-010
(`adr/010-migrator-cli.md:95-96`) puts the lock on a dedicated connection, "not on a
pool slot"; `migrator.go:82` acquires it from the pool.

### How to run them

With TLC and the community modules on the path, in this directory:
`tlc -config MCTracks.cfg MCTracks` (likewise for every `MC*.cfg`; the module is
named in `PROJECT.json` under `runs`). `watcher` has 2.2 million states and takes
about a minute, as does `cookie` (159,822); `tracks` (120,622), `chat` (69,486) and
`service` (47,122) take most of theirs for the liveness properties. `tlapm
WatcherProofs.tla`, and so on, check the proofs.

## 4. Properties

Stated with comments in the modules. The ones that carry most:

* `AtMostOnce`, `AnnouncedInOrder` (Watcher): under distinct store keys.
* `StoreImpliesSent`: an ID is recorded only after its match was sent, so a
  blocked or interrupted send loses nothing.
* `EntriesOpen`, `EntriesOwn`, `PostedOnce` (Tracks): no panic, right channel,
  no double post, whatever the commands do during a fan-out.
* `KeepsPromise` (LeagueWatcher): `Notifications` with `posted` read off the
  trackers' posts and `played` off the API.
* `FeedsTracks` (LeagueWatcher): what `Tracks` takes for granted of its sender,
  that only an error signal comes again, the watcher keeps through the channel
  and all rounds.
* `LatestFanned` (LeagueWatcher): the newest match of a listed account reaches
  the fan-out, through polling, outages, a full channel and busy trackers.
* `JoinedExit`, `OnlineWhileWatching`, `ExitsUnlessWedged`, `WedgedForGood`:
  shutdown.
* `RetryPossible`, `CallsReturn`, `Recovers` (CookieGetter).
* `RecordedIsApplied`, `LinearUnlessRaced`, `ExitTellsTruth` (Migrator): the
  last ties the exit code to the database, for stale plans too.
* `OneWinner`, `Recoverable` (PidorDay), `StatsTrue` (PidorStats): a rank is no
  worse than the true one by more than the ties, and is the true one for who
  shares neither name nor count; the total is that of the rolls; nobody left out
  beats one who is shown; all that for every order the sort may return.
* `ConfigSound`, `Propagates` (ConfigManager): ADR-004's "last known good
  config", never a mixture, and the next good one in the end.
* `SearchLeavesTime` (Ask): ADR-008's shared budget.
* `RepliesSpaced`, `RepliesAgain` (Khaleesi).

Where a property does not hold of the code in full, it is weakened by a history
variable or a disjunct that names the exact circumstance (`overlap`, `raced`,
`ahead`, `lost`, `late`, `Wedged`), and the comment says so.

## 5. Fairness

Weak fairness of a goroutine's steps means that the Go scheduler runs it and
that the call it makes returns: requests to the API have a deadline of 120 s,
solves of 60 s or 90 s, Discord calls the timeout of the HTTP client, a
migrator run 5 minutes. Tickers tick. `Fanout`'s timer fires. Strong fairness
is used where a remote that is asked again and again must give one good answer
in the end, or a `select` must pick each of its ready cases: `FetchOK` (the match
API, in `LeagueWatcher` and `ApiFairSpec`), `LoopStop` in `LeagueWatcher` and
`BotStop` in `Tracks` (Go picks among the ready cases of a
`select` at random, so a cancelled context wins in the end, however many ticks or
error signals come), `BgOK` and `Forbidden` in
`RecoverySpec` (background solves do not fail for ever; an API asked with a
cookie it does not accept says so), `ListOK` (Doppler) and `SendOK` (Discord) in
`Chat`. In `LeagueWatcher` the bot goroutine as a whole (`BotStep`, `BotReceive` or
`BotStop`) is weakly fair and no more: `service` does not need that it notices the
cancellation while matches keep coming, because the cancelled watcher ends and
sends no more. Nobody owes a signal, a start, a command, a text, a question, a match, an
edit or a roll; the bot owes receives only until cancellation.

## 6. Proofs

Checked by TLAPS for every value of the constants that satisfies the modules'
named assumptions.

**WatcherProofs.** `TypeCorrect` from `TypeInv`: `TypeOK` with the fact that
the sync counter is below its limit while a sync or back-off is pending.
`SendsBeforeClose` from `Barrier`: outside `check` every goroutine is idle, and
the channel is closed only in `stopped`. `RecordedWasSent` from `StoreInv`: a
goroutine that is about to record has sent, and one past `got` has a match.
`NoDuplicates`, `InOrder` and `OneErrorPerOutage` assume
`DistinctKeys` (the configuration whose absence `watcher_collision` shows). The
first two rest on `Dedup`: between the fetch and the send a goroutine's match
is no older than the stored one and strictly newer once the store was consulted,
the store is never ahead of the API, and every match that was sent is at most
the stored one or is about to be recorded by the goroutine that sent it. Without
that last alternative the invariant is not inductive: between the send and the
`Set` the store is behind. `OneErrorPerOutage` rests on `ErrInv`: a sent signal
is a reported failure, and a goroutine that goes to send one has set the flag
while none was sent.

**TracksProofs.** One invariant of three parts. `BotInv`: the mutex is held in
a fan-out and only there, and the channels still to be served are tracked.
`MapInv`: an entry's tracker exists, belongs to the channel and is open; a
tracker that is not yet made is gone, and one that leaves was closed or saw the
cancellation. `PostInv`: for a channel and a match at most one of these is true:
the fan-out has still to serve it, one tracker is about to post it, it is posted.
The part about two trackers of one channel (they never hold the same match) is
what makes re-tracking in the middle of a post harmless. `TypeCorrect`,
`OpenHolds`, `OwnHolds` and `OnceHolds` follow.

**ServiceProofs.** `JoinedHolds` and `OnlineHolds` from an invariant in three
parts: goroutines of a round live in a round, and the channel is closed exactly
when the watcher has stopped; the bot goes down only after a cancellation or the
closed channel, and its session closes last; nobody but the signal cancels, and
`main` leaves `joining` only when both are down. The steps are those of
`Watcher` and `Tracks`, seen through their instances.

**PromiseProofs.** `ImplementsWatcher`: in the service the watcher takes the
steps of `Watcher` and no others. `BotReceive` is its `Receive`, the
signal its `Cancel`, everything else of the bot is a stutter; so the theorems of
`WatcherProofs` hold in the service. `ImplementsTracks` is the same for the bot,
and is not free: `Tracks` demands that a match it receives is new.
`LinkInv` says why: a match on the channel was announced, is there once, and is
not among those the bot has taken. It is inductive because `Dedup` makes what a
goroutine is about to send newer than everything its account has sent, hence than
everything on the channel and everything taken. Then `PostInv` of `TracksProofs`
holds in the service, and `Fresh` follows from it: a tracker that is about to post
a match posts one that its channel has not seen. With it every post is a `Post` of
`Notifications` and every match played a `Play`: `Promised`, the refinement that
`service` checks for one player and one channel.
`ImplementsTracks` and `Promised` assume `DistinctKeys`, and need it: without it
the watcher announces a match again (`watcher_collision`).

`NeverPanics` does not: nobody sends on a closed channel of the watcher, and the
entries of the tracks map are open and own, whatever the keys. The bot is mapped to
one that takes every message for a signal (`TA`: an instance of `TracksProofs`
whose `Signals` are all messages and whose histories are constant), since that
part of the invariant of `Tracks` does not depend on which messages come.

`StaysWedged` and `NeverExits` are the other side of `service_shutdown`: a
goroutine that sends to a full channel whose reader is gone keeps its round, the
watcher and `main` waiting for ever. That is an argument of safety and needs no
fairness.

**CookieProofs.** `TypeCorrect` needs that no more waiters are counted than
callers are parked, which survives the reset of the `Once` because the reset only
lowers the count, and that whoever is about to store a cookie has one. `OneSolverHolds` is mutual exclusion by `MutexInv`: until a
zero `Once` is assigned under somebody's feet, who is inside holds the mutex and
is alone. `RetryHolds`: the property is inductive as it stands.

**MigratorProofs.** `TypeCorrect`; `RecordedHolds`, where the book's rows are a
subset of the schema and both change in one transaction; `LinearHolds` from
`LinearInv`: as long as nothing raced, the schema is `1 .. V`, the books agree,
and the plan of every run whose snapshot still equals the books is the interval
above `V` (up) or the top of `1 .. V` (down). `NewestIsTop` is the lemma that
`planDown` on a linear database yields such a top. `ExitHolds` is an action
property: what the holder of the lock has taken off its plan is done, and stays
done while no lock's session dies, for nobody else applies.

**PidorProofs.** `TypeCorrect` includes that no two rows share a channel and a
date, for which `PlanTypes` shows that the ranks the import turns into dates
differ and lie in the past. `OneWinnerHolds` counts, for a channel and a day, the
announcements made, the handlers about to make one, and the slot if it is free:
no step but an import adds to that sum, and an import adds one. Without counting
the pending handlers and the free slot the bound is not inductive.
`RecoverableHolds`: while an import is under way every row of the table is in its
snapshot or came too late for it.
`StatsHolds` needs only `TypeOK` and has three parts. The total: sums
over a set are recursive in the library, with an element chosen at each step. The
proof counts units instead: `Units(A, w)` pairs each element with the numbers up
to its weight, `SumExists` and `SumUnique` show that the recursion has that
cardinality as its only solution, and cardinalities of disjoint sets add up
(`TotalTrue`). Where it takes an induction over finite sets, `SubsetInduction`
has it for a set of good subsets, by the well-foundedness of strict inclusion.
That a sorted order exists (`OrderExists`): the number of lines that come before
one, with the user as the last criterion, numbers the lines. The places
(`PlaceIs`, `RatingIs`, `ShownAre`): whoever stands before a line has at least its
count, so the position is at most the number of higher lines plus the ties, plus
one; the first line with a name is not behind the line of its user.

**ChatProofs.** One invariant: the configuration is a parsed listing that loads
while the process runs, and so is what a reload is going to publish if it loads;
what a question has used is at most the search's limit until the model is done;
the threshold is at least `Least`, and, unless a handler is about to zero the
counter or `Least` texts were counted since the last reply already, the counter
is at most the texts counted since then; so is what a handler that is not excused
brings to its comparison, and one that sends has seen `Least` of them.
From it `TypeCorrect`, `ConfigHolds`, `BudgetHolds` and `SpacedHolds`, for any
jitter, base and width of the counter.

The proofs use lemmas for counters, sequences and cardinalities, one lemma per
invariant for the step, with one step per action below it.

Only model-checked: the liveness properties (fairness and `ENABLED` are beyond
the prover). Every invariant and every action property of the passing runs, and
both refinements, are theorems. No module declares a `RECURSIVE` operator.

## 7. Abstractions worth knowing

* Messages, names and payloads are left out; a match is its account's number.
* The API is monotone: it never returns an older match than before. The code
  depends on that, because it keeps only one ID (hazard `ordering` at
  `watcher.go:203`).
* The bot's session opens or it does not; reconnects are the library's.
* A statement whose answer is lost is modelled where it matters (COMMIT of the
  migrator, INSERT of the roll); other failures roll back.
* A question's and a reply's text, the prompts and the substitution table are
  left out; what a text does (rewritten, left alone, fatal) is not.
* Bounds: `MaxMatch`, `MaxTrackers`, `Handlers`, `Askers`, `Asking`, `Matches`,
  `MaxEpoch`, `MaxVersion`, `MaxDay`, `MaxImports`, `MaxTime`; the counter of the
  Khaleesi stays at `IntMax`; torn reads stop once one was refused.

## 8. Not modelled

* `!info` and the Ready handler, the event log, DSN resolution, the database
  connection, the Neon Auth check, `pidors2csv`: stateless, or pure I/O at start.
* Docker and CI, but for the restart of the process.
* In modelled parts: the checks of `LoadMigrations` on file names (a loaded
  sequence is `1 .. n`), flags, dry run and summary of the operator tools, the
  JSON of the APIs, the text of messages, the limit of 1000 of `GuildMembers`
  (listed as a hazard), `RefreshProfile` (disabled by ADR-003), functions
  without a caller (`Reset`, `CanBeChosen`).

## 9. Plan

Done: `Watcher`, `Tracks`, `Notifications`, `LeagueWatcher`, `CookieGetter`,
`Migrator`, `PidorDay`, `PidorStats`, `ConfigManager`, `Ask`, `Khaleesi`, `Chat`,
and the eight modules of proofs; `LeagueWatcher` is proved to implement
`Watcher`, `Tracks` and `Notifications`.

Next, in order:

1. The circumstances that properties excuse, made tighter where a proof allows:
   how many announcements `overlap` and an import may cost.
2. Larger instances by hand: two players in `service`, three handlers in `chat`.
3. The checks of `LoadMigrations` against a reference definition.
