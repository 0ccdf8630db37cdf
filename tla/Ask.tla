--------------------------------- MODULE Ask ---------------------------------
(***************************************************************************)
(* A question to the bot: bot/ask.go and bot/tavily.go.  The handler takes *)
(* the configuration of the moment, searches the web if that is configured,*)
(* asks the language model, and replies.  One budget covers both calls, a  *)
(* smaller one the search.  Time is counted in units of the budgets.       *)
(***************************************************************************)
EXTENDS Integers

CONSTANTS
    Handlers,   \* bound: handlers in progress at a time
    Missing,    \* a secret that is not there
    MaxTime     \* bound: the longest time the model may take

AskAssumption == MaxTime \in Nat

VARIABLES
    config,     \* ConfigManager.config
    apc,        \* where a handler is
    acfg,       \* its cfg
    spent,      \* what the search has used of its budget
    need,       \* history: the time the model would have taken
    said        \* what it replies with

askVars == <<apc, acfg, spent, need, said>>

AskTypeOK ==
    /\ apc \in [Handlers -> {"idle", "search", "llm", "reply"}]
    /\ need \in [Handlers -> 0 .. MaxTime]
    /\ said \in [Handlers -> {"", "unset", "answer", "failed", "late"}]
    /\ \A h \in Handlers : apc[h] # "idle" => spent[h] \in 0 .. acfg[h].askTime

InitAsk ==
    /\ apc = [h \in Handlers |-> "idle"]
    /\ acfg = [h \in Handlers |-> Missing]
    /\ spent = [h \in Handlers |-> 0]
    /\ need = [h \in Handlers |-> 0]
    /\ said = [h \in Handlers |-> ""]

DropAsks ==     \* the process is gone, and its handlers with it
    /\ apc' = [h \in Handlers |-> "idle"]
    /\ acfg' = [h \in Handlers |-> Missing]
    /\ spent' = [h \in Handlers |-> 0]
    /\ need' = [h \in Handlers |-> 0]
    /\ said' = [h \in Handlers |-> ""]

AGoto(h, l) == apc' = [apc EXCEPT ![h] = l]

Smaller(a, b) == IF a < b THEN a ELSE b

\* What the search may use: a child context ends with its parent, and one
\* whose timeout is not positive has ended when it is made.
SearchLimit(c) ==
    IF c.tavily = Missing \/ c.searchTime < 0 THEN 0
    ELSE Smaller(c.searchTime, c.askTime)

-----------------------------------------------------------------------------
Ask(h) ==
    /\ apc[h] = "idle"
    /\ acfg' = [acfg EXCEPT ![h] = config]
    /\ AGoto(h, "search")
    /\ UNCHANGED <<spent, need, said>>

\* MUTANT of Search: the search runs in the outer context.
SearchOuter(h) ==
    /\ apc[h] = "search"
    /\ \E t \in 0 .. IF acfg[h].tavily = Missing THEN 0 ELSE acfg[h].askTime :
           spent' = [spent EXCEPT ![h] = t]
    /\ AGoto(h, "llm")
    /\ UNCHANGED <<acfg, need, said>>

\* Whatever the search comes to, the model is asked next.
Search(h) ==
    /\ apc[h] = "search"
    /\ \E t \in 0 .. SearchLimit(acfg[h]) : spent' = [spent EXCEPT ![h] = t]
    /\ AGoto(h, "llm")
    /\ UNCHANGED <<acfg, need, said>>

\* The model needs n, for its answer or for its error.
Says(h, w, n) ==
    /\ said' = [said EXCEPT ![h] = w]
    /\ need' = [need EXCEPT ![h] = n]
    /\ spent' = [spent EXCEPT ![h] = 0]
    /\ AGoto(h, "reply")
    /\ UNCHANGED acfg

Asks(h) == apc[h] = "llm" /\ acfg[h].tofa # Missing

NotConfigured(h) ==
    /\ apc[h] = "llm"
    /\ acfg[h].tofa = Missing
    /\ Says(h, "unset", 0)

\* A text, or none: then the oracle keeps silence.  Or an error: that of the
\* model, of the way to it, or of a context that main has cancelled.
Generate(h, n) ==
    /\ Asks(h)
    /\ spent[h] + n <= acfg[h].askTime
    /\ \E w \in {"answer", "failed"} : Says(h, w, n)

\* The context ends first.
DeadlineExceeded(h, n) ==
    /\ Asks(h)
    /\ spent[h] + n >= acfg[h].askTime
    /\ Says(h, "late", n)

\* The error of the send is ignored.
AskReply(h) ==
    /\ apc[h] = "reply"
    /\ AGoto(h, "idle")
    /\ acfg' = [acfg EXCEPT ![h] = Missing]
    /\ spent' = [spent EXCEPT ![h] = 0]
    /\ need' = [need EXCEPT ![h] = 0]
    /\ said' = [said EXCEPT ![h] = ""]

AskStep(h) ==
    \/ Search(h) \/ NotConfigured(h) \/ AskReply(h)
    \/ \E n \in 0 .. MaxTime : Generate(h, n) \/ DeadlineExceeded(h, n)

-----------------------------------------------------------------------------
(* Properties *)

\* "release budget before the LLM call" (ask.go): a question is given up for
\* lack of time only if the model needs what remains of the budget after the
\* longest search allowed, or more, whatever the search did and whatever was
\* reloaded in the meantime.
SearchLeavesTime ==
    \A h \in Handlers :
        said[h] = "late" => need[h] + SearchLimit(acfg[h]) >= acfg[h].askTime
=============================================================================
