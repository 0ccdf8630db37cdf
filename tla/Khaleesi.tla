------------------------------ MODULE Khaleesi -------------------------------
(***************************************************************************)
(* The replies in the Khaleesi's voice: bot/khaleesi.go and the rewriting  *)
(* engine internal/khaleesi.  Every text of a member counts; when the count*)
(* reaches a threshold drawn around the configured base, the bot rewrites  *)
(* the text and, if that changes it, replies and starts over.              *)
(*                                                                         *)
(* Handlers run concurrently.  The count and the threshold are two atomics:*)
(* Add, Load and the two Stores are a step each.                           *)
(***************************************************************************)
EXTENDS Integers

CONSTANTS
    Handlers,   \* bound: handlers in progress at a time
    Rules,      \* the keys of the substitution table
    Texts,      \* texts of 10 runes or more: the keys a scan of the text meets,
                \* and those of them that the letters "gi" follow
    MinJitter, MaxJitter,   \* -10 and 10 in the code
    IntMax,     \* the largest int32
    None        \* no text

KhaleesiAssumption ==
    /\ Texts \subseteq {t \in [rules : SUBSET Rules, gi : SUBSET Rules] :
                            t.gi \subseteq t.rules}
    /\ MinJitter \in Int /\ MaxJitter \in Int /\ 0 \in MinJitter .. MaxJitter
    /\ IntMax \in Nat \ {0}

VARIABLES
    base,       \* the bot's copy of KHALEESI_THRESHOLD; 0: disabled
    last,       \* the key that comes last in the expression
    cnt, thresh,
    kpc, ktext, kval,   \* a handler: where it is, its text, its count
    gap,        \* history: texts counted since the last reply, up to Least
    overlap     \* history: a reply and its reset fell into this handler's work

kShared == <<base, last, cnt, thresh>>
kVars   == <<kShared, kpc, ktext, kval, gap, overlap>>

KhaleesiTypeOK ==
    /\ base \in Nat
    /\ last \in Rules
    /\ cnt \in 0 .. IntMax /\ gap \in 0 .. IntMax
    /\ thresh \in 1 .. IntMax
    /\ kpc \in [Handlers -> {"idle", "compare", "send", "zero", "draw"}]
    /\ ktext \in [Handlers -> Texts \cup {None}]
    /\ kval \in [Handlers -> 0 .. IntMax]
    /\ overlap \in [Handlers -> BOOLEAN]

\* int32(x)
Wrap(x) == ((x + IntMax + 1) % (2 * IntMax + 2)) - IntMax - 1

\* MUTANT of Threshold: the jitter is added twice.
ThresholdTwice(b, j) == IF b + j + j < 1 THEN 1 ELSE b + j + j

\* resetKhaleesi draws the next threshold, at least 1.
Threshold(b, j) ==
    LET t == Wrap(Wrap(b) + j) IN IF t < 1 THEN 1 ELSE t

Thresholds(b) == {Threshold(b, j) : j \in MinJitter .. MaxJitter}

\* The least threshold of base b, as long as int32 holds all that may be drawn.
Least(b) ==
    IF b + MaxJitter > IntMax \/ b + MinJitter < 1 THEN 1 ELSE b + MinJitter

InitKhaleesi ==     \* no bot yet
    /\ base = 0 /\ cnt = 0 /\ gap = 0 /\ thresh = 1
    /\ last \in Rules
    /\ kpc = [h \in Handlers |-> "idle"]
    /\ ktext = [h \in Handlers |-> None]
    /\ kval = [h \in Handlers |-> 0]
    /\ overlap = [h \in Handlers |-> FALSE]

\* A new process with base b.  The table is a Go map: which key comes last in
\* the expression is up to the runtime.
StartKhaleesi(b) ==
    /\ base' = b
    /\ last' \in Rules
    /\ cnt' = 0 /\ gap' = 0
    /\ thresh' \in IF b > 0 THEN Thresholds(b) ELSE {1}
    /\ kpc' = [h \in Handlers |-> "idle"]
    /\ ktext' = [h \in Handlers |-> None]
    /\ kval' = [h \in Handlers |-> 0]
    /\ overlap' = [h \in Handlers |-> FALSE]

-----------------------------------------------------------------------------
KGoto(h, l) == kpc' = [kpc EXCEPT ![h] = l]

DropText(h) ==  \* the handler needs its text and its count no more
    /\ ktext' = [ktext EXCEPT ![h] = None]
    /\ kval' = [kval EXCEPT ![h] = 0]

KReturn(h) ==
    /\ KGoto(h, "idle")
    /\ DropText(h)
    /\ overlap' = [overlap EXCEPT ![h] = FALSE]

\* Bound: the count is only compared with thresholds, so it stays at IntMax when
\* it gets there.  (After 2^31 texts without a reply the code's is negative for
\* as many.)
Inc(n) == IF n < IntMax THEN n + 1 ELSE n

\* v := cnt.Add(1)
Count(h, t) ==
    /\ base > 0 /\ kpc[h] = "idle"
    /\ cnt' = Inc(cnt) /\ gap' = IF gap < Least(base) THEN gap + 1 ELSE gap
    /\ kval' = [kval EXCEPT ![h] = cnt']
    /\ ktext' = [ktext EXCEPT ![h] = t]
    /\ KGoto(h, "compare")
    /\ overlap' = [overlap EXCEPT ![h] = \E u \in Handlers : kpc[u] = "zero"]
    /\ UNCHANGED <<base, last, thresh>>

\* ReplaceAllStringFunc calls back for every key the expression matches.  The
\* expression ends in "gi": the last key needs that suffix, and then it is not
\* a key of the table.  No key is its own substitute.
Rewrites(t) == t.rules \ {last} # {}
Panics(t)   == last \in t.gi

Due(h) == kpc[h] = "compare" /\ kval[h] >= thresh

\* v < thresh.Load()
NotDue(h) ==
    /\ kpc[h] = "compare" /\ kval[h] < thresh
    /\ KReturn(h)
    /\ UNCHANGED <<kShared, gap>>

\* MUTANT of Unmodified: the count starts over all the same.
UnmodifiedResets(h) ==
    /\ Due(h) /\ ~Rewrites(ktext[h]) /\ ~Panics(ktext[h])
    /\ KReturn(h)
    /\ cnt' = 0
    /\ UNCHANGED <<base, last, thresh, gap>>

Unmodified(h) ==
    /\ Due(h) /\ ~Rewrites(ktext[h]) /\ ~Panics(ktext[h])
    /\ KReturn(h)
    /\ UNCHANGED <<kShared, gap>>

Modified(h) ==
    /\ Due(h) /\ Rewrites(ktext[h]) /\ ~Panics(ktext[h])
    /\ KGoto(h, "send")
    /\ DropText(h)
    /\ UNCHANGED <<kShared, gap, overlap>>

\* rand.IntN(0), in the callback: it ends the process.
Panic(h) == Due(h) /\ Panics(ktext[h])

\* The others at work have counted towards a threshold that is now reached.
Replied(h) ==
    /\ gap' = 0
    /\ overlap' = [u \in Handlers |-> u # h /\ kpc[u] \in {"compare", "send"}]

\* MUTANT of SendOK: nobody resets the count.
SendKeepsCount(h) ==
    /\ kpc[h] = "send"
    /\ KGoto(h, "draw")
    /\ Replied(h)
    /\ UNCHANGED <<kShared, ktext, kval>>

SendOK(h) ==
    /\ kpc[h] = "send"
    /\ KGoto(h, "zero")
    /\ Replied(h)
    /\ UNCHANGED <<kShared, ktext, kval>>

\* The error return leaves the count as it is: the next text will do.
SendFail(h) ==
    /\ kpc[h] = "send"
    /\ KReturn(h)
    /\ UNCHANGED <<kShared, gap>>

StoreCount(h) ==
    /\ kpc[h] = "zero"
    /\ cnt' = 0
    /\ KGoto(h, "draw")
    /\ UNCHANGED <<base, last, thresh, ktext, kval, gap, overlap>>

StoreThreshold(h) ==
    /\ kpc[h] = "draw"
    /\ thresh' \in Thresholds(base)
    /\ KReturn(h)
    /\ UNCHANGED <<base, last, cnt, gap>>

KhaleesiStep(h) ==
    \/ NotDue(h) \/ Unmodified(h) \/ Modified(h)
    \/ SendOK(h) \/ SendFail(h) \/ StoreCount(h) \/ StoreThreshold(h)

-----------------------------------------------------------------------------
(* Properties *)

Replies(h) == kpc[h] = "send" /\ kpc'[h] \in {"zero", "draw"}

\* "Trigger after approximately this many messages (+-10 message jitter)"
\* (README.docker.md): a reply comes no sooner than base - 10 texts after the
\* one before it, unless its text was counted before that one's reset.
RepliesSpaced ==
    [][\A h \in Handlers : Replies(h) /\ ~overlap[h] => gap >= Least(base)]_kVars
=============================================================================
