---------------------------- MODULE ConfigManager ----------------------------
(***************************************************************************)
(* The configuration: internal/leaguewatcher/config.go.  Doppler holds the *)
(* secrets; Reload lists them, parses and validates them, and publishes    *)
(* the result as a whole.  main loads the configuration once and ends if   *)
(* it does not load; then a goroutine reloads it every 5 minutes.          *)
(*                                                                         *)
(* A listing and a configuration are records with the same fields.  Of the *)
(* secrets that nothing here tells apart (URLs, models, sampling and search*)
(* parameters) there is none: they go the way of "tofa" or "searchTime".   *)
(***************************************************************************)
EXTENDS Integers

CONSTANTS
    Listings,       \* what Doppler may hold
    Missing,        \* a secret that is not there
    Bad,            \* a secret whose text does not parse
    DefaultSearch,  \* TAVILY_TIMEOUT_SECONDS and ASK_TIMEOUT_SECONDS if they
    DefaultAsk      \* are not set (5 and 15 in the code)

\* The budgets and the threshold are numbers wherever they parse.
ConfigAssumption ==
    /\ Missing # Bad /\ Missing \notin Int /\ Bad \notin Int
    /\ \A s \in Listings : \A n \in {"threshold", "searchTime", "askTime"} :
           s[n] \in Int \cup {Missing, Bad}
    /\ DefaultSearch \in Nat \ {0} /\ DefaultAsk \in Nat \ {0}

VARIABLES
    listed,     \* what Doppler holds
    config,     \* ConfigManager.config
    rpc,        \* where the auto-reload goroutine is; "gone": there is none
    fetched     \* the answer of ListSecrets it works on

reloadVars == <<config, rpc, fetched>>
configVars == <<listed, reloadVars>>

-----------------------------------------------------------------------------
(* Reload, up to the lock *)

\* The secrets whose text must parse, or the reload fails.
Strict == {"period", "gap", "threshold", "players"}

\* What is not there.  A threshold of 0 and none at all come to the same.
Default == [period |-> 0, gap |-> 0, players |-> {}, threshold |-> 0,
            channel |-> Missing, token |-> Missing, owner |-> Missing,
            tofa |-> Missing, tavily |-> Missing,
            searchTime |-> DefaultSearch, askTime |-> DefaultAsk]

\* The other secrets count as missing when they do not parse, and so does an
\* ask budget that is not positive; the search's timeout may be any number.
Lenient(s, n) ==
    \/ s[n] \in {Missing, Bad}
    \/ n = "askTime" /\ s[n] <= 0

Parse(s) == [n \in DOMAIN Default |-> IF Lenient(s, n) THEN Default[n] ELSE s[n]]

\* Config.IsValid; a player with an empty name is Missing.
IsValid(c) ==
    /\ c.period > 0 /\ c.gap > 0
    /\ c.players # {} /\ Missing \notin c.players
    /\ c.threshold >= 0
    /\ Missing \notin {c.channel, c.token, c.owner}

Loads(s) == (\A n \in Strict : s[n] # Bad) /\ IsValid(Parse(s))

-----------------------------------------------------------------------------
ConfigTypeOK ==
    /\ listed \in Listings
    /\ fetched \in Listings \cup {Default}
    /\ rpc \in {"wait", "list", "publish", "gone"}
    /\ DOMAIN config = DOMAIN Default

InitConfig ==
    /\ listed \in Listings
    /\ config = Default
    /\ rpc = "gone"
    /\ fetched = Default

\* NewConfigManager, the first Reload and StartAutoReload.
Load ==
    /\ Loads(listed)
    /\ config' = Parse(listed)
    /\ rpc' = "wait"
    /\ UNCHANGED <<listed, fetched>>

Forget ==       \* the process is gone, and the configuration with it
    /\ config' = Default
    /\ rpc' = "gone"
    /\ fetched' = Default
    /\ UNCHANGED listed

-----------------------------------------------------------------------------
Goes(from, to) == rpc = from /\ rpc' = to

ReloadTick ==
    /\ Goes("wait", "list")
    /\ UNCHANGED <<listed, config, fetched>>

ListOK ==
    /\ Goes("list", "publish")
    /\ fetched' = listed
    /\ UNCHANGED <<listed, config>>

\* MUTANT of ListFail: the error ends the goroutine.
ListFailQuits ==
    /\ Goes("list", "gone")
    /\ UNCHANGED <<listed, config, fetched>>

\* The error is only logged.
ListFail ==
    /\ Goes("list", "wait")
    /\ UNCHANGED <<listed, config, fetched>>

\* MUTANT of Publish: what is missing keeps its old value.
PublishMerged ==
    /\ Goes("publish", "wait")
    /\ config' = IF Loads(fetched)
                 THEN [n \in DOMAIN Default |->
                         IF fetched[n] = Missing THEN config[n]
                         ELSE Parse(fetched)[n]]
                 ELSE config
    /\ fetched' = Default
    /\ UNCHANGED listed

\* What does not load leaves the last known good configuration in place.
Publish ==
    /\ Goes("publish", "wait")
    /\ config' = IF Loads(fetched) THEN Parse(fetched) ELSE config
    /\ fetched' = Default
    /\ UNCHANGED listed

Edit ==         \* somebody changes the secrets in Doppler
    /\ listed' \in Listings \ {listed}
    /\ UNCHANGED reloadVars

-----------------------------------------------------------------------------
(* Properties *)

\* A configuration that is valid and that Doppler held as a whole: neither a
\* mixture of two listings nor one that does not load.
Sound == IsValid(config) /\ \E s \in Listings : Loads(s) /\ config = Parse(s)
=============================================================================
