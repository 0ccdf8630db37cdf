-------------------------------- MODULE Chat ---------------------------------
(***************************************************************************)
(* What the bot does with what members write (bot.go, cmd), as far as no   *)
(* command is given: a question goes to Ask, any other text to Khaleesi.   *)
(* Both depend on the configuration: Ask on that of the moment, Khaleesi on*)
(* what main read when the process started.  Docker restarts the process   *)
(* when it ends or crashes.                                                *)
(***************************************************************************)
EXTENDS Integers

CONSTANTS
    Listings, Missing, Bad, DefaultSearch, DefaultAsk,
    Handlers,
    Askers,         \* bound: the handlers that may take a question
    Rules, Texts, MinJitter, MaxJitter, IntMax, MaxTime

VARIABLES
    listed, config, rpc, fetched,
    apc, acfg, spent, need, said,
    base, last, cnt, thresh, kpc, ktext, kval, gap, overlap,
    up          \* the process runs

C == INSTANCE ConfigManager
A == INSTANCE Ask WITH Handlers <- Askers
K == INSTANCE Khaleesi WITH None <- Missing

ASSUME ChatAssumption ==
    /\ C!ConfigAssumption /\ A!AskAssumption /\ K!KhaleesiAssumption
    /\ Askers \subseteq Handlers

configVars == <<listed, config, rpc, fetched>>
askVars    == <<apc, acfg, spent, need, said>>
kVars      == <<base, last, cnt, thresh, kpc, ktext, kval, gap, overlap>>
vars       == <<configVars, askVars, kVars, up>>

Init ==
    /\ C!InitConfig
    /\ A!InitAsk
    /\ K!InitKhaleesi
    /\ up = FALSE

-----------------------------------------------------------------------------
Start ==        \* main; it ends at once if the configuration does not load
    /\ ~up /\ up' = TRUE
    /\ C!Load
    /\ K!StartKhaleesi(C!Parse(listed).threshold)
    /\ UNCHANGED askVars

Dies ==         \* and nothing the process held survives
    /\ up /\ up' = FALSE
    /\ C!Forget
    /\ A!DropAsks
    /\ K!StartKhaleesi(0)

\* A signal.  Handlers are not waited for, and what one of them does before main
\* returns (module LeagueWatcher) it may do before the signal as well: a call
\* that is cut short fails, as any call may.
Exit == Dies

Crash == (\E h \in Handlers : K!Panic(h)) /\ Dies

Edit == C!Edit /\ UNCHANGED <<askVars, kVars, up>>

Reload ==
    /\ up
    /\ C!ReloadTick \/ C!ListOK \/ C!ListFail \/ C!Publish
    /\ UNCHANGED <<askVars, kVars, up>>

\* Bound: a question is taken alone.  It writes nothing that any other handler
\* reads.
Asking == \E h \in Askers : apc[h] # "idle"

Question(h) ==  \* a mention of the bot with a text after it
    /\ up /\ ~Asking /\ \A u \in Handlers : kpc[u] = "idle"
    /\ A!Ask(h)
    /\ UNCHANGED <<configVars, kVars, up>>

Text(h) ==      \* any other text, unless the bot wrote it
    /\ up /\ ~Asking
    /\ \E t \in Texts : K!Count(h, t)
    /\ UNCHANGED <<configVars, askVars, up>>

AskStep(h) ==
    /\ up
    /\ A!AskStep(h)
    /\ UNCHANGED <<configVars, kVars, up>>

KhaleesiStep(h) ==
    /\ up
    /\ K!KhaleesiStep(h)
    /\ UNCHANGED <<configVars, askVars, up>>

Next ==
    \/ Start \/ Exit \/ Crash \/ Edit \/ Reload
    \/ \E h \in Askers : Question(h) \/ AskStep(h)
    \/ \E h \in Handlers : Text(h) \/ KhaleesiStep(h)

Spec == Init /\ [][Next]_vars

(* Fairness: the goroutines are scheduled; of Doppler and of Discord, asked   *)
(* again and again, one answer in the end is good.  Nobody owes a text, a     *)
(* question, an edit, a start or a signal.                                    *)
AsReload(X) == up /\ X /\ UNCHANGED <<askVars, kVars, up>>
AsText(X)   == up /\ X /\ UNCHANGED <<configVars, askVars, up>>

FairSpec ==
    /\ Spec
    /\ WF_vars(Reload) /\ WF_vars(Crash)
    /\ SF_vars(AsReload(C!ListOK))
    /\ \A h \in Handlers : WF_vars(KhaleesiStep(h)) /\ SF_vars(AsText(K!SendOK(h)))

-----------------------------------------------------------------------------
(* Properties *)

TypeOK ==
    /\ C!ConfigTypeOK /\ A!AskTypeOK /\ K!KhaleesiTypeOK
    /\ up \in BOOLEAN
    /\ \A h \in Askers : apc[h] = "idle" \/ kpc[h] = "idle"
    /\ up <=> rpc # "gone"

\* "Auto-reload failures: Log error but continue with last known good config"
\* (ADR-004): the bot never runs on a mixture of two listings, nor on one that
\* does not load.
ConfigSound == up => C!Sound

SearchLeavesTime == A!SearchLeavesTime

RepliesSpaced == K!RepliesSpaced

\* What Doppler holds arrives: a listing that loads is the configuration some
\* time later, unless it changes again or the process ends.
Propagates ==
    \A s \in Listings : C!Loads(s) =>
        (listed = s ~> config = C!Parse(s) \/ listed # s \/ ~up)

\* Texts that can be rewritten get replies again and again, whatever else is
\* written between them and however often a send fails.
RepliesAgain ==
    /\ <>[](up /\ base > 0)
    /\ []<>(\E h \in Handlers : kpc[h] = "compare" /\ K!Rewrites(ktext[h]))
    => []<>(\E h \in Handlers : kpc[h] = "zero")
=============================================================================
