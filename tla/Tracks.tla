------------------------------- MODULE Tracks --------------------------------
(***************************************************************************)
(* The delivery side of the bot: internal/leaguewatcher/bot/track.go (the  *)
(* TracksMap, its tracker goroutines, the !track and !untrack commands)    *)
(* and the consumer goroutine of Bot.Run in bot.go.                        *)
(*                                                                         *)
(* The bot goroutine receives matches and fans each one out to the trackers*)
(* of all channels, holding the mutex mu of the TracksMap for the whole    *)
(* fan-out; an unbuffered send meets a tracker that waits in its select, or*)
(* gives up after 10 s.  discordgo runs every command in a goroutine of its*)
(* own.  The other methods of the TracksMap are short critical sections:   *)
(* each is one step, taken while mu is free.                               *)
(***************************************************************************)
EXTENDS Naturals, FiniteSets

CONSTANTS
    Channels,   \* Discord channels
    Home,       \* cfg.ChannelID, tracked at startup
    MaxTrackers,\* bound: calls of Track
    Handlers,   \* bound: commands in progress at a time
    Matches,    \* messages the watcher may send
    Signals,    \* the error signals among them: one may come again
    None        \* no tracker

ASSUME TracksAssumption ==
    /\ Home \in Channels
    /\ MaxTrackers \in Nat \ {0}
    /\ None \notin 1 .. MaxTrackers /\ None \notin Matches
    /\ Signals \subseteq Matches

VARIABLES
    mu,         \* who holds TracksMap.mu: "free" or "bot" (in Fanout)
    tracks,     \* TracksMap.tracks
    made,       \* Track values made so far; trackers are numbered in that order
    owner,      \* the channel of a tracker goroutine
    closed,     \* its msgs and done channels are closed
    g,          \* where the tracker goroutine is
    cur,        \* the message it posts
    bpc,        \* where the bot goroutine is
    todo,       \* channels the running Fanout has still to serve
    fanned,     \* history: matches taken from the watcher so far (no signals)
    fanMsg,     \* the message that is fanned out
    dgOpen,     \* the Discord session is open
    hpc, hch,   \* what a command handler is about to do, and to which channel
    ctxDone,    \* the application context is cancelled
    posted      \* history: how often a match was posted to a channel (2: more
                \* than once)

mapVars     == <<mu, tracks, made>>
trackerVars == <<owner, closed, g, cur>>
fanVars     == <<todo, fanned, fanMsg>>
cmdVars     == <<hpc, hch>>
ownVars     == <<mapVars, trackerVars, bpc, fanVars, dgOpen, cmdVars, posted>>
vars        == <<ownVars, ctxDone>>

Trackers  == 1 .. MaxTrackers
BotPc     == {"open", "loop", "fanout", "stopped", "untracked", "done"}
TrackerPc == {"gone", "select", "sending", "bye"}
CmdPc     == {"idle", "called", "track", "untrack"}

TypeOK ==
    /\ mu \in {"free", "bot"}
    /\ tracks \in [Channels -> Trackers \cup {None}]
    /\ made \in 0 .. MaxTrackers
    /\ owner \in [Trackers -> Channels]
    /\ closed \in [Trackers -> BOOLEAN]
    /\ g \in [Trackers -> TrackerPc]
    /\ cur \in [Trackers -> Matches \cup {None}]
    /\ \A i \in Trackers : g[i] = "sending" => cur[i] # None
    /\ bpc \in BotPc
    /\ todo \in SUBSET Channels
    /\ fanned \in SUBSET Matches
    /\ fanMsg \in Matches \cup {None}
    /\ dgOpen \in BOOLEAN
    /\ hpc \in [Handlers -> CmdPc]
    /\ hch \in [Handlers -> Channels]
    /\ ctxDone \in BOOLEAN
    /\ posted \in [Channels \X Matches -> 0 .. 2]

\* dg.Open has returned; the bot goroutine starts.
InitTracks ==
    /\ mu = "free"
    /\ tracks = [c \in Channels |-> None]
    /\ made = 0
    /\ owner = [i \in Trackers |-> Home]
    /\ closed = [i \in Trackers |-> FALSE]
    /\ g = [i \in Trackers |-> "gone"]
    /\ cur = [i \in Trackers |-> None]
    /\ bpc = "open"
    /\ todo = {} /\ fanned = {} /\ fanMsg = None
    /\ dgOpen = TRUE
    /\ hpc = [h \in Handlers |-> "idle"]
    /\ hch = [h \in Handlers |-> Home]
    /\ posted = [cm \in Channels \X Matches |-> 0]

Init == InitTracks /\ ctxDone = FALSE

-----------------------------------------------------------------------------
(* TracksMap *)

\* Track: a fresh tracker goroutine, whatever the map held for the channel.
Track(c) ==
    /\ mu = "free"
    /\ made < MaxTrackers
    /\ made' = made + 1
    /\ tracks' = [tracks EXCEPT ![c] = made']
    /\ owner' = [owner EXCEPT ![made'] = c]
    /\ g' = [g EXCEPT ![made'] = "select"]
    /\ UNCHANGED <<mu, closed, cur>>

\* MUTANT of UntrackSet: the entry stays in the map.
UntrackKeepEntry(cs) ==
    /\ mu = "free"
    /\ closed' = [i \in Trackers |->
                    closed[i] \/ \E c \in cs : tracks[c] = i]
    /\ UNCHANGED <<mu, tracks, made, owner, g, cur>>

\* untrack for each of the channels cs: close msgs and done, delete the entry.
\* A channel without an entry is left alone.
UntrackSet(cs) ==
    /\ mu = "free"
    /\ closed' = [i \in Trackers |->
                    closed[i] \/ \E c \in cs : tracks[c] = i]
    /\ tracks' = [c \in Channels |-> IF c \in cs THEN None ELSE tracks[c]]
    /\ UNCHANGED <<mu, made, owner, g, cur>>

Tracked == {c \in Channels : tracks[c] # None}

-----------------------------------------------------------------------------
(* The bot goroutine *)

BotTrackHome ==
    /\ bpc = "open"
    /\ Track(Home)
    /\ bpc' = "loop"
    /\ UNCHANGED <<fanVars, dgOpen, cmdVars, posted, ctxDone>>

\* A match from the watcher: Fanout locks mu and starts its range over tracks.
BotFanout(m) ==
    /\ bpc = "loop"
    /\ mu = "free"
    /\ mu' = "bot"
    /\ fanMsg' = m
    /\ fanned' = fanned \cup ({m} \ Signals)
    /\ todo' = Tracked
    /\ bpc' = "fanout"
    /\ UNCHANGED <<tracks, made, trackerVars, dgOpen, cmdVars, posted, ctxDone>>

\* MUTANT of FanoutSend: the channel stays on the list.
FanoutSendAgain(c) ==
    /\ bpc = "fanout" /\ c \in todo
    /\ LET i == tracks[c] IN
         /\ g[i] = "select"
         /\ g' = [g EXCEPT ![i] = "sending"]
         /\ cur' = [cur EXCEPT ![i] = fanMsg]
    /\ UNCHANGED <<mapVars, owner, closed, bpc, fanVars, dgOpen, cmdVars,
                   posted, ctxDone>>

\* track.msgs <- m: the tracker waits in its select.
FanoutSend(c) ==
    /\ bpc = "fanout" /\ c \in todo
    /\ LET i == tracks[c] IN
         /\ g[i] = "select"
         /\ g' = [g EXCEPT ![i] = "sending"]
         /\ cur' = [cur EXCEPT ![i] = fanMsg]
    /\ todo' = todo \ {c}
    /\ UNCHANGED <<mapVars, owner, closed, bpc, fanned, fanMsg, dgOpen,
                   cmdVars, posted, ctxDone>>

\* MUTANT of FanoutTimeout: there is none.
FanoutNoTimeout(c) == c \notin Channels /\ UNCHANGED vars

\* <-timeout: for 10 s the tracker was not at its select.
FanoutTimeout(c) ==
    /\ bpc = "fanout" /\ c \in todo
    /\ g[tracks[c]] # "select"
    /\ todo' = todo \ {c}
    /\ UNCHANGED <<mapVars, trackerVars, bpc, fanned, fanMsg, dgOpen, cmdVars,
                   posted, ctxDone>>

FanoutDone ==
    /\ bpc = "fanout" /\ todo = {}
    /\ mu' = "free"
    /\ fanMsg' = None
    /\ bpc' = "loop"
    /\ UNCHANGED <<tracks, made, trackerVars, todo, fanned, dgOpen, cmdVars, posted,
                   ctxDone>>

\* ctx.Done, or the closed channel of a watcher that ended.
BotStop(chEnded) ==
    /\ bpc = "loop"
    /\ ctxDone \/ chEnded
    /\ bpc' = "stopped"
    /\ UNCHANGED <<mapVars, trackerVars, fanVars, dgOpen, cmdVars, posted,
                   ctxDone>>

\* The deferred calls: UntrackAll, then dg.Close, then close(done).
BotUntrackAll ==
    /\ bpc = "stopped"
    /\ UntrackSet(Channels)
    /\ bpc' = "untracked"
    /\ UNCHANGED <<fanVars, dgOpen, cmdVars, posted, ctxDone>>

BotClose ==
    /\ bpc = "untracked"
    /\ dgOpen' = FALSE
    /\ bpc' = "done"
    /\ UNCHANGED <<mapVars, trackerVars, fanVars, cmdVars, posted, ctxDone>>

FanoutStep == FanoutDone \/ \E c \in Channels : FanoutSend(c) \/ FanoutTimeout(c)
BotStep    == BotTrackHome \/ FanoutStep \/ BotUntrackAll \/ BotClose

-----------------------------------------------------------------------------
(* Tracker goroutine i *)

\* MUTANTS of TrackerQuit: ctx is not consulted; a closed msgs is not noticed
\* and yields an empty match.
TrackerIgnoresCtx(i) ==
    /\ g[i] = "select"
    /\ closed[i]
    /\ g' = [g EXCEPT ![i] = "bye"]
    /\ UNCHANGED <<mapVars, owner, closed, cur, bpc, fanVars, dgOpen, cmdVars,
                   posted, ctxDone>>
TrackerTakesZero(i) ==
    /\ g[i] = "select"
    /\ ctxDone \/ closed[i]
    /\ g' = [g EXCEPT ![i] = IF ctxDone THEN "bye" ELSE "sending"]
    /\ UNCHANGED <<mapVars, owner, closed, cur, bpc, fanVars, dgOpen, cmdVars,
                   posted, ctxDone>>

TrackerQuit(i) ==
    /\ g[i] = "select"
    /\ ctxDone \/ closed[i]
    /\ g' = [g EXCEPT ![i] = "bye"]
    /\ UNCHANGED <<mapVars, owner, closed, cur, bpc, fanVars, dgOpen, cmdVars,
                   posted, ctxDone>>

\* Signals are not counted.
CountPost(c, m) ==
    IF m \in Signals THEN UNCHANGED posted ELSE
    posted' = [posted EXCEPT ![<<c, m>>] = IF @ = 0 THEN 1 ELSE 2]

\* MUTANT of TrackerPost: a failed message ends the tracker.
TrackerPostOrQuit(i) ==
    /\ g[i] = "sending"
    /\ \/ /\ CountPost(owner[i], cur[i])
          /\ g' = [g EXCEPT ![i] = "select"]
       \/ /\ UNCHANGED posted
          /\ g' = [g EXCEPT ![i] = "bye"]
    /\ cur' = [cur EXCEPT ![i] = None]
    /\ UNCHANGED <<mapVars, owner, closed, bpc, fanVars, dgOpen, cmdVars,
                   ctxDone>>

\* ChannelMessageSendComplex succeeds or fails; a failure is only logged.
TrackerPost(i) ==
    /\ g[i] = "sending"
    /\ \/ CountPost(owner[i], cur[i])
       \/ UNCHANGED posted
    /\ g' = [g EXCEPT ![i] = "select"]
    /\ cur' = [cur EXCEPT ![i] = None]
    /\ UNCHANGED <<mapVars, owner, closed, bpc, fanVars, dgOpen, cmdVars,
                   ctxDone>>

TrackerBye(i) ==    \* the deferred farewell message
    /\ g[i] = "bye"
    /\ g' = [g EXCEPT ![i] = "gone"]
    /\ UNCHANGED <<mapVars, owner, closed, cur, bpc, fanVars, dgOpen, cmdVars,
                   posted, ctxDone>>

TrackerStep(i) == TrackerQuit(i) \/ TrackerPost(i) \/ TrackerBye(i)

-----------------------------------------------------------------------------
(* Commands.  discordgo starts a goroutine for each message that comes in     *)
(* while the session is open; the goroutine may get to run long after that.   *)
(* Which message it has got is chosen when it looks.  Between IsTracking and  *)
(* the call it leads to, mu is free.                                          *)

CmdCalled(h) ==
    /\ dgOpen
    /\ hpc[h] = "idle"
    /\ hpc' = [hpc EXCEPT ![h] = "called"]
    /\ UNCHANGED <<mapVars, trackerVars, bpc, fanVars, dgOpen, hch, posted,
                   ctxDone>>

\* A command that finds nothing to do, or is not the owner's.
CmdIgnored(h) ==
    /\ hpc[h] = "called"
    /\ hpc' = [hpc EXCEPT ![h] = "idle"]
    /\ UNCHANGED <<mapVars, trackerVars, bpc, fanVars, dgOpen, hch, posted,
                   ctxDone>>

CmdStart(h, c, what) ==
    /\ mu = "free"
    /\ hpc[h] = "called"
    /\ hpc' = [hpc EXCEPT ![h] = what]
    /\ hch' = [hch EXCEPT ![h] = c]
    /\ UNCHANGED <<mapVars, trackerVars, bpc, fanVars, dgOpen, posted, ctxDone>>

\* Calls of Track that are under way (the bound on trackers counts them).
Pending == Cardinality({h \in Handlers : hpc[h] = "track"})
             + (IF bpc = "open" THEN 1 ELSE 0)

TrackCmd(h, c) ==
    /\ tracks[c] = None
    /\ made + Pending < MaxTrackers
    /\ CmdStart(h, c, "track")
UntrackCmd(h, c) == tracks[c] # None /\ CmdStart(h, c, "untrack")

CmdEnd(h) ==
    /\ hpc' = [hpc EXCEPT ![h] = "idle"]
    /\ hch' = [hch EXCEPT ![h] = Home]
    /\ UNCHANGED <<bpc, fanVars, dgOpen, posted, ctxDone>>

DoTrack(h)   == hpc[h] = "track" /\ Track(hch[h]) /\ CmdEnd(h)
DoUntrack(h) == hpc[h] = "untrack" /\ UntrackSet({hch[h]}) /\ CmdEnd(h)

CmdStep(h) == DoTrack(h) \/ DoUntrack(h)

-----------------------------------------------------------------------------
Cancel ==
    /\ ~ctxDone
    /\ ctxDone' = TRUE
    /\ UNCHANGED ownVars

\* Everything but the watcher's end of the channel and the context.
OwnNext ==
    \/ BotStep
    \/ \E i \in Trackers : TrackerStep(i)
    \/ \E h \in Handlers : CmdCalled(h) \/ CmdIgnored(h) \/ CmdStep(h)
    \/ \E h \in Handlers, c \in Channels : TrackCmd(h, c) \/ UntrackCmd(h, c)

Next ==
    \/ OwnNext
    \/ \E m \in Matches \ fanned : BotFanout(m)
    \/ BotStop(TRUE)        \* the watcher may end at any time
    \/ Cancel

Spec == Init /\ [][Next]_vars

(* Fairness.  Goroutines are scheduled and mu goes to whoever waits for it;   *)
(* the 10 s timer of Fanout fires; a call to Discord returns (the HTTP client *)
(* has a timeout); the select of the bot takes one of its ready cases at      *)
(* random, so a cancelled context is noticed however many signals come.       *)
(* Commands and the watcher owe nothing.                                      *)
FairSpec ==
    /\ Spec
    /\ WF_vars(BotStep) /\ SF_vars(BotStop(FALSE))
    /\ \A i \in Trackers : WF_vars(TrackerStep(i))
    /\ \A h \in Handlers : WF_vars(CmdStep(h))

-----------------------------------------------------------------------------
(* Properties *)

\* Fanout and UntrackAll only meet open trackers: a send on, or a second close
\* of, a closed channel would panic the bot.
EntriesOpen == \A c \in Channels : tracks[c] # None => ~closed[tracks[c]]

\* A tracker posts to the channel its entry is for, also after re-tracking.
EntriesOwn ==
    \A c \in Channels : tracks[c] # None =>
        owner[tracks[c]] = c /\ (g[tracks[c]] = "gone" => ctxDone)

\* A match is never posted to a channel twice, whatever commands
\* replace or remove the channel's tracker meanwhile.
PostedOnce ==
    \A c \in Channels, m \in Matches \ Signals : posted[<<c, m>>] <= 1

\* Fanout gives the mutex back: a slow, departed or cancelled tracker delays
\* commands and other channels, but never for ever.
MutexReleased == mu = "bot" ~> mu = "free"

\* After cancellation every tracker goroutine ends, one started by a command
\* that was already past UntrackAll included, and the bot closes its session.
AllGoroutinesExit ==
    ctxDone ~> [](bpc = "done" /\ \A i \in Trackers : g[i] = "gone")
=============================================================================
