----------------------------- MODULE CookieGetter -----------------------------
(***************************************************************************)
(* How a request to Mobalytics gets its cf_clearance cookie.  Two caches   *)
(* lie on the way: the one of mobalytics.Client (client.go: getCookie,     *)
(* clearCookie and the 403 branch of Matches) has no expiry; the one of    *)
(* flaresolverr.CookieGetter (flaresolverr.go) has one, fills itself under *)
(* a sync.Once when asked and is refreshed by a background goroutine.      *)
(*                                                                         *)
(* The callers are the player goroutines of one round of the watcher; a    *)
(* round starts when all calls of the last one have returned.              *)
(*                                                                         *)
(* Cloudflare accepts the cookies solved since it last changed its         *)
(* challenge.  Cookies solved between two changes are not told apart: a    *)
(* cookie is the number of its epoch.                                      *)
(*                                                                         *)
(* sync.Once is modelled with its mutex, because the code assigns a zero   *)
(* Once while goroutines may be inside: the Go runtime then finds a mutex  *)
(* that does not know its holder or a woken waiter and kills the process,  *)
(* or never wakes a parked waiter.                                         *)
(***************************************************************************)
EXTENDS Naturals, FiniteSets

CONSTANTS
    Callers,    \* player goroutines
    MaxEpoch    \* bound: changes of the challenge

ASSUME CookieAssumption == MaxEpoch \in Nat \ {0} /\ IsFiniteSet(Callers)

VARIABLES
    epoch,          \* cookies of this epoch are accepted
    clientCookie,   \* Client.cookie; NoCookie is ""
    cookie,         \* CookieGetter.cookie
    fresh,          \* now is before CookieGetter.expiry
    once,           \* CookieGetter.solveOnce
    pc, cur,        \* where a call is, and the cookie it holds
    bg, bgCookie,   \* where backgroundFetcher is, and the cookie it solved
    stopped,        \* the application shuts down: stopChan is closed
    crashed,        \* a fatal error of the Go runtime
    overlap,        \* history: a zero Once was assigned under somebody's feet
    refused         \* history: epochs whose cookies got a 403

vars == <<epoch, clientCookie, cookie, fresh, once, pc, cur, bg, bgCookie,
          stopped, crashed, overlap, refused>>

NoCookie == 0
Torn     == MaxEpoch + 1    \* half of one string, half of another
Cookies  == NoCookie .. Torn

\* Once.done, and the state of Once.m: the locked and woken bits, the waiters.
ZeroOnce == [done |-> FALSE, locked |-> FALSE, woken |-> FALSE, waiters |-> 0]

InOnce   == {"inside", "solve", "store", "unlock", "parked", "woken"}
CallerPc == InOnce \cup {"start", "flare", "hit", "once", "lock", "check",
                         "reset", "return", "keep", "request", "clear", "done"}

TypeOK ==
    /\ epoch \in 1 .. MaxEpoch
    /\ clientCookie \in Cookies
    /\ cookie \in NoCookie .. MaxEpoch
    /\ fresh \in BOOLEAN
    /\ once \in [done : BOOLEAN, locked : BOOLEAN, woken : BOOLEAN,
                 waiters : 0 .. Cardinality(Callers)]
    /\ pc \in [Callers -> CallerPc]
    /\ cur \in [Callers -> Cookies]
    /\ bg \in {"sleep", "solve", "store", "gone"}
    /\ bgCookie \in NoCookie .. MaxEpoch
    /\ stopped \in BOOLEAN /\ crashed \in BOOLEAN /\ overlap \in BOOLEAN
    /\ refused \in SUBSET (1 .. Torn)
    /\ cookie = NoCookie => ~fresh
    /\ bg = "store" => bgCookie # NoCookie
    /\ \A t \in Callers : pc[t] = "store" => cur[t] \in 1 .. MaxEpoch

Init ==
    /\ epoch = 1
    /\ clientCookie = NoCookie
    /\ cookie = NoCookie /\ fresh = FALSE
    /\ once = ZeroOnce
    /\ pc = [t \in Callers |-> "start"]
    /\ cur = [t \in Callers |-> NoCookie]
    /\ bg = "sleep" /\ bgCookie = NoCookie
    /\ stopped = FALSE /\ crashed = FALSE /\ overlap = FALSE
    /\ refused = {}

At(t, l)   == ~crashed /\ pc[t] = l
Goto(t, l) == pc' = [pc EXCEPT ![t] = l]
Hold(t, c) == cur' = [cur EXCEPT ![t] = c]

flareVars == <<cookie, fresh, once>>
envVars   == <<epoch, bg, bgCookie, stopped>>
history   == <<overlap, refused>>

-----------------------------------------------------------------------------
(* Client.getCookie *)

ReadClient(t) ==
    /\ At(t, "start")
    /\ Hold(t, clientCookie)
    /\ Goto(t, IF clientCookie # NoCookie THEN "request" ELSE "flare")
    /\ UNCHANGED <<flareVars, clientCookie, envVars, crashed, history>>

\* The cookie of GetCookie goes into the client's cache, unless it is "".
Keep(t) ==
    /\ At(t, "keep")
    /\ clientCookie' = IF cur[t] # NoCookie THEN cur[t] ELSE clientCookie
    /\ Goto(t, "request")
    /\ UNCHANGED <<flareVars, cur, envVars, crashed, history>>

-----------------------------------------------------------------------------
(* CookieGetter.GetCookie *)

ReadFlare(t) ==
    /\ At(t, "flare")
    /\ Goto(t, IF cookie # NoCookie /\ fresh THEN "hit" ELSE "once")
    /\ UNCHANGED <<flareVars, clientCookie, cur, envVars, crashed, history>>

\* return c.cookie, after RUnlock: it races with a store, of the background
\* fetcher or of a caller, and a string is two words.  (Bound: no torn read once
\* a torn cookie was refused.)
Hit(t) ==
    /\ At(t, "hit")
    /\ \/ Hold(t, cookie)
       \/ /\ bg = "store" \/ \E u \in Callers : pc[u] = "store"
          /\ Torn \notin refused /\ Hold(t, Torn)
    /\ Goto(t, "keep")
    /\ UNCHANGED <<flareVars, clientCookie, envVars, crashed, history>>

\* MUTANT of OnceFast: the solve is not wrapped in the Once.
OnceSkipped(t) ==
    /\ At(t, "once")
    /\ Goto(t, "solve")
    /\ UNCHANGED <<flareVars, clientCookie, cur, envVars, crashed, history>>

OnceFast(t) ==      \* Once.Do: the check of done without the mutex
    /\ At(t, "once")
    /\ Goto(t, IF once.done THEN "check" ELSE "lock")
    /\ UNCHANGED <<flareVars, clientCookie, cur, envVars, crashed, history>>

\* sync.Mutex.Lock: take it, or count oneself as a waiter and park.
Acquire(t, o) ==
    IF o.locked
    THEN /\ once' = [o EXCEPT !.waiters = @ + 1]
         /\ Goto(t, "parked")
    ELSE /\ once' = [o EXCEPT !.locked = TRUE]
         /\ Goto(t, "inside")

Lock(t) ==
    /\ At(t, "lock")
    /\ Acquire(t, once)
    /\ UNCHANGED <<cookie, fresh, clientCookie, cur, envVars, crashed, history>>

\* A woken waiter competes again; "sync: inconsistent mutex state" if the mutex
\* does not know that it woke somebody.
Woken(t) ==
    /\ At(t, "woken")
    /\ IF once.woken
       THEN /\ Acquire(t, [once EXCEPT !.woken = FALSE])
            /\ UNCHANGED crashed
       ELSE /\ crashed' = TRUE
            /\ UNCHANGED <<once, pc>>
    /\ UNCHANGED <<cookie, fresh, clientCookie, cur, envVars, history>>

Inside(t) ==        \* done, checked again under the mutex
    /\ At(t, "inside")
    /\ Goto(t, IF once.done THEN "unlock" ELSE "solve")
    /\ UNCHANGED <<flareVars, clientCookie, cur, envVars, crashed, history>>

\* The callback solves the challenge, then stores the cookie it got; done is set
\* when it returns.
SolveOK(t) ==
    /\ At(t, "solve")
    /\ Hold(t, epoch)
    /\ Goto(t, "store")
    /\ UNCHANGED <<flareVars, clientCookie, envVars, crashed, history>>

SolveStore(t) ==
    /\ At(t, "store")
    /\ cookie' = cur[t] /\ fresh' = TRUE
    /\ once' = [once EXCEPT !.done = TRUE]
    /\ Goto(t, "unlock")
    /\ UNCHANGED <<clientCookie, cur, envVars, crashed, history>>

\* MUTANTS of SolveFail: the expiry is set all the same; the callback reassigns
\* the Once it runs in.
SolveFailFresh(t) ==
    /\ At(t, "solve")
    /\ fresh' = TRUE
    /\ once' = [once EXCEPT !.done = TRUE]
    /\ Goto(t, "unlock")
    /\ UNCHANGED <<cookie, clientCookie, cur, envVars, crashed, history>>
SolveFailResets(t) ==
    /\ At(t, "solve")
    /\ once' = [ZeroOnce EXCEPT !.done = TRUE]
    /\ Goto(t, "unlock")
    /\ UNCHANGED <<cookie, fresh, clientCookie, cur, envVars, crashed, history>>

SolveFail(t) ==
    /\ At(t, "solve")
    /\ once' = [once EXCEPT !.done = TRUE]
    /\ Goto(t, "unlock")
    /\ UNCHANGED <<cookie, fresh, clientCookie, cur, envVars, crashed, history>>

\* sync.Mutex.Unlock: "sync: unlock of unlocked mutex" is fatal; otherwise a
\* waiter that is counted is woken.
Unlock(t) ==
    /\ At(t, "unlock")
    /\ IF ~once.locked
       THEN crashed' = TRUE /\ UNCHANGED <<once, pc>>
       ELSE /\ IF once.waiters > 0 /\ ~once.woken
               THEN /\ once' = [once EXCEPT !.locked = FALSE, !.woken = TRUE,
                                            !.waiters = @ - 1]
                    /\ \E u \in Callers :
                         /\ pc[u] = "parked"
                         /\ pc' = [pc EXCEPT ![u] = "woken", ![t] = "check"]
               ELSE /\ once' = [once EXCEPT !.locked = FALSE]
                    /\ Goto(t, "check")
            /\ UNCHANGED crashed
    /\ UNCHANGED <<cookie, fresh, clientCookie, cur, envVars, history>>

\* MUTANT of Check: no retry after a failed solve.
CheckNoRetry(t) ==
    /\ At(t, "check")
    /\ Goto(t, "return")
    /\ UNCHANGED <<flareVars, clientCookie, cur, envVars, crashed, history>>

\* needRetry, read under mu, ...
Check(t) ==
    /\ At(t, "check")
    /\ Goto(t, IF cookie = NoCookie THEN "reset" ELSE "return")
    /\ UNCHANGED <<flareVars, clientCookie, cur, envVars, crashed, history>>

\* ... and c.solveOnce = sync.Once{}, which mu does not protect from Do.
Reset(t) ==
    /\ At(t, "reset")
    /\ once' = ZeroOnce
    /\ overlap' = (overlap \/ \E u \in Callers : pc[u] \in InOnce)
    /\ Goto(t, "return")
    /\ UNCHANGED <<cookie, fresh, clientCookie, cur, envVars, crashed, refused>>

Return(t) ==
    /\ At(t, "return")
    /\ Hold(t, cookie)
    /\ Goto(t, "keep")
    /\ UNCHANGED <<flareVars, clientCookie, envVars, crashed, history>>

-----------------------------------------------------------------------------
(* Client.Matches with the cookie it got *)

\* Anything but a 403.  Without a cookie Cloudflare may or may not object; it
\* does object to a cookie it does not accept, but the API may fail before.
Answered(t) ==
    /\ At(t, "request")
    /\ Goto(t, "done")
    /\ UNCHANGED <<flareVars, clientCookie, cur, envVars, crashed, history>>

Forbidden(t) ==
    /\ At(t, "request")
    /\ cur[t] # epoch
    /\ refused' = refused \cup ({cur[t]} \ {NoCookie})
    /\ Goto(t, "clear")
    /\ UNCHANGED <<flareVars, clientCookie, cur, envVars, crashed, overlap>>

\* MUTANT of Clear: the client keeps its cookie.
ClearNothing(t) ==
    /\ At(t, "clear")
    /\ Goto(t, "done")
    /\ UNCHANGED <<flareVars, clientCookie, cur, envVars, crashed, history>>

\* clearCookie: whatever the client holds by now.
Clear(t) ==
    /\ At(t, "clear")
    /\ clientCookie' = NoCookie
    /\ Goto(t, "done")
    /\ UNCHANGED <<flareVars, cur, envVars, crashed, history>>

Call(t) ==
    \/ ReadClient(t) \/ ReadFlare(t) \/ Hit(t) \/ OnceFast(t)
    \/ Lock(t) \/ Woken(t) \/ Inside(t) \/ SolveOK(t) \/ SolveStore(t)
    \/ SolveFail(t) \/ Unlock(t) \/ Check(t) \/ Reset(t) \/ Return(t) \/ Keep(t)
    \/ Answered(t) \/ Forbidden(t) \/ Clear(t)

\* The next tick of the watcher.
Round ==
    /\ ~crashed /\ ~stopped
    /\ \A t \in Callers : pc[t] = "done"
    /\ pc' = [t \in Callers |-> "start"]
    /\ cur' = [t \in Callers |-> NoCookie]
    /\ UNCHANGED <<flareVars, clientCookie, envVars, crashed, history>>

-----------------------------------------------------------------------------
(* backgroundFetcher: every 14 minutes; its solve does not use the Once. *)

BgGoto(from, to) == ~crashed /\ bg = from /\ bg' = to

bgRest == <<clientCookie, once, pc, cur, epoch, stopped, crashed, history>>

bgKeeps == <<cookie, fresh, bgCookie, bgRest>>

BgTick == BgGoto("sleep", "solve") /\ UNCHANGED bgKeeps
BgFail == BgGoto("solve", "sleep") /\ UNCHANGED bgKeeps

BgOK ==
    /\ BgGoto("solve", "store")
    /\ bgCookie' = epoch
    /\ UNCHANGED <<cookie, fresh, bgRest>>

BgStore ==
    /\ BgGoto("store", "sleep")
    /\ cookie' = bgCookie /\ fresh' = TRUE
    /\ bgCookie' = NoCookie
    /\ UNCHANGED bgRest

BgStop == stopped /\ BgGoto("sleep", "gone") /\ UNCHANGED bgKeeps

-----------------------------------------------------------------------------
(* The world *)

Expire ==       \* 14 minutes after the last store
    /\ ~crashed /\ fresh
    /\ fresh' = FALSE
    /\ UNCHANGED <<cookie, bg, bgCookie, bgRest>>

Revoke ==       \* Cloudflare changes its challenge
    /\ ~crashed /\ epoch < MaxEpoch
    /\ epoch' = epoch + 1
    /\ UNCHANGED <<flareVars, clientCookie, pc, cur, bg, bgCookie, stopped,
                   crashed, history>>

Stop ==         \* main: cancel(), then api.Stop()
    /\ ~crashed /\ ~stopped
    /\ stopped' = TRUE
    /\ UNCHANGED <<flareVars, clientCookie, pc, cur, epoch, bg, bgCookie,
                   crashed, history>>

Next ==
    \/ \E t \in Callers : Call(t)
    \/ Round
    \/ BgTick \/ BgOK \/ BgFail \/ BgStore \/ BgStop
    \/ Expire \/ Revoke \/ Stop

Spec == Init /\ [][Next]_vars

(* Fairness.  Goroutines run, the tickers tick, solves end (they have a       *)
(* timeout): weak fairness.  For the recovery from a 403 also: background     *)
(* solves do not fail for ever, and an API that is asked again and again with *)
(* a cookie it does not accept says so at some time.                          *)
FairSpec ==
    /\ Spec
    /\ \A t \in Callers : WF_vars(Call(t))
    /\ WF_vars(Round)
    /\ WF_vars(BgTick) /\ WF_vars(BgOK \/ BgFail) /\ WF_vars(BgStore)

RecoverySpec ==
    /\ FairSpec
    /\ SF_vars(BgOK)
    /\ \A t \in Callers : SF_vars(Forbidden(t))

-----------------------------------------------------------------------------
(* Properties *)

\* "Solve challenge (once at a time)": at most one caller is solving, as long
\* as no zero Once was assigned while somebody used the old one.
OneSolver ==
    ~overlap => Cardinality({t \in Callers : pc[t] \in {"solve", "store"}}) <= 1

\* A solve that failed is retried: the Once is never left done without a cookie
\* unless a caller is on its way to reset it.
RetryPossible ==
    once.done /\ cookie = NoCookie =>
        \E t \in Callers : pc[t] \in {"unlock", "check", "reset"}

\* Every call returns (none waits for the Once for ever), unless a zero Once was
\* assigned while somebody used the old one.
CallsReturn == \A t \in Callers : pc[t] = "start" ~> pc[t] = "done" \/ overlap

\* After a 403 some later call carries a cookie that Cloudflare accepts: the
\* refused cookie leaves both caches.
Recovers ==
    (\E t \in Callers : pc[t] = "clear") ~>
        \/ \E t \in Callers : pc[t] = "request" /\ cur[t] = epoch
        \/ overlap \/ stopped

\* "If Mobalytics returns HTTP 403 (cookie rejected), the cache is reset and
\* FlareSolverr fetches a fresh cookie" (README.docker.md): GetCookie does not
\* answer from its cache with a cookie that was refused.
RefusedIsReset == \A t \in Callers : pc[t] = "hit" => cookie \notin refused

\* "Reset happens OUTSIDE the Do callback: reassigning the Once from inside its
\* own callback would corrupt the mutex" (flaresolverr.go): reassigning it from
\* outside does not.
MutexIntact == ~crashed
=============================================================================
