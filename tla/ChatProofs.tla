------------------------------ MODULE ChatProofs ------------------------------
(***************************************************************************)
(* Proofs about Chat, for any secrets, any number of handlers, any table   *)
(* and any texts, any jitter around 0 and any width of the counters.       *)
(*                                                                         *)
(* The three parts of the inductive invariant speak of different variables.*)
(* For RepliesSpaced, the texts since the last reply (gap) are compared    *)
(* with the count: unless a reset is pending, the count is not ahead of    *)
(* them; so neither is what a handler has counted, unless a reply fell into*)
(* its work.                                                               *)
(***************************************************************************)
EXTENDS Chat, TLAPS

-----------------------------------------------------------------------------
(* Lemmas about the operators *)

\* What the secrets are parsed into is typed, whatever Doppler holds.
LEMMA ParseTypes ==
    ASSUME NEW s \in Listings
    PROVE  /\ C!Parse(s).threshold \in Int
           /\ C!Parse(s).searchTime \in Int
           /\ C!Parse(s).askTime \in Nat \ {0}
           /\ DOMAIN C!Parse(s) = DOMAIN C!Default
<1> USE ChatAssumption DEF C!ConfigAssumption
<1>1. DOMAIN C!Default = {"period", "gap", "players", "threshold", "channel",
          "token", "owner", "tofa", "tavily", "searchTime", "askTime"}
  BY DEF C!Default
<1>2. \A n \in DOMAIN C!Default : C!Parse(s)[n] =
          IF C!Lenient(s, n) THEN C!Default[n] ELSE s[n]
  BY DEF C!Parse
<1>3. C!Parse(s)["threshold"] \in Int
  BY <1>1, <1>2 DEF C!Lenient, C!Default
<1>4. C!Parse(s)["searchTime"] \in Int
  BY <1>1, <1>2 DEF C!Lenient, C!Default
<1>5. C!Parse(s)["askTime"] \in Nat \ {0}
  BY <1>1, <1>2 DEF C!Lenient, C!Default
<1> QED BY <1>3, <1>4, <1>5 DEF C!Parse

\* int32 keeps what fits.
LEMMA WrapFits ==
    ASSUME NEW x \in Int
    PROVE  /\ K!Wrap(x) \in -IntMax - 1 .. IntMax
           /\ x \in -IntMax - 1 .. IntMax => K!Wrap(x) = x
<1> USE ChatAssumption DEF K!KhaleesiAssumption
<1> DEFINE m == 2 * IntMax + 2
           y == x + IntMax + 1
<1>1. m \in Nat \ {0} /\ y \in Int
  OBVIOUS
<1>2. y % m \in 0 .. m - 1
  BY <1>1
<1>3. y \in 0 .. m - 1 => y % m = y
  BY <1>1
<1> QED BY <1>1, <1>2, <1>3 DEF K!Wrap

\* Whatever is drawn is a threshold, and is not below Least.
LEMMA ThresholdBounds ==
    ASSUME NEW b \in Nat, NEW t \in K!Thresholds(b)
    PROVE  /\ t \in 1 .. IntMax
           /\ t >= K!Least(b)
<1> USE ChatAssumption DEF K!KhaleesiAssumption
<1>1. PICK j \in MinJitter .. MaxJitter : t = K!Threshold(b, j)
  BY DEF K!Thresholds
<1>2. K!Wrap(b) \in -IntMax - 1 .. IntMax
  BY WrapFits
<1>3. K!Wrap(b) + j \in Int
  BY <1>2
<1>4. K!Wrap(K!Wrap(b) + j) \in -IntMax - 1 .. IntMax
  BY <1>3, WrapFits
<1>5. t \in 1 .. IntMax
  BY <1>1, <1>4 DEF K!Threshold
<1>6. ASSUME b + MaxJitter <= IntMax, b + MinJitter >= 1
      PROVE  t >= b + MinJitter
  <2>1. K!Wrap(b) = b
    BY <1>6, WrapFits
  <2>2. K!Wrap(b + j) = b + j
    BY <1>6, WrapFits
  <2> QED BY <1>1, <1>6, <2>1, <2>2 DEF K!Threshold
<1> QED BY <1>5, <1>6 DEF K!Least

\* The search never has more than the whole budget.
LEMMA LimitBounds ==
    ASSUME NEW c, c.askTime \in Nat, c.searchTime \in Int
    PROVE  A!SearchLimit(c) \in 0 .. c.askTime
BY DEF A!SearchLimit, A!Smaller

-----------------------------------------------------------------------------
(* The configuration *)

ConfigInv ==
    /\ C!ConfigTypeOK
    /\ up \in BOOLEAN
    /\ up <=> rpc # "gone"
    /\ up => C!Sound
    /\ rpc = "publish" => fetched \in Listings

\* How a step changes the configuration, if it does.
LEMMA ConfigSteps ==
    ASSUME [Next]_vars
    PROVE  \/ UNCHANGED <<configVars, up>>
           \/ ~up /\ up' = TRUE /\ C!Load
           \/ up /\ up' = FALSE /\ C!Forget
           \/ C!Edit /\ UNCHANGED up
           \/ /\ up /\ UNCHANGED up
              /\ C!ReloadTick \/ C!ListOK \/ C!ListFail \/ C!Publish
BY DEF Next, vars, configVars, Start, Exit, Crash, Dies, Edit, Reload,
       Question, Text, AskStep, KhaleesiStep

LEMMA ConfigKept ==
    ASSUME ConfigInv, [Next]_vars
    PROVE  ConfigInv'
<1> USE DEF ConfigInv, C!ConfigTypeOK
<1>1. CASE UNCHANGED <<configVars, up>>
  BY <1>1 DEF configVars, C!Sound
<1>2. CASE ~up /\ up' = TRUE /\ C!Load
  <2>1. config' = C!Parse(listed) /\ C!Loads(listed) /\ listed \in Listings
    BY <1>2 DEF C!Load
  <2>2. C!Sound'
    BY <1>2, <2>1 DEF C!Sound, C!Load, C!Loads
  <2>3. DOMAIN config' = DOMAIN C!Default
    BY <2>1, ParseTypes
  <2> QED BY <1>2, <2>2, <2>3 DEF C!Load
<1>3. CASE up /\ up' = FALSE /\ C!Forget
  BY <1>3 DEF C!Forget
<1>4. CASE C!Edit /\ UNCHANGED up
  BY <1>4 DEF C!Edit, C!reloadVars, C!Sound
<1>5. CASE up /\ UNCHANGED up /\ (C!ReloadTick \/ C!ListOK \/ C!ListFail)
  BY <1>5 DEF C!ReloadTick, C!ListOK, C!ListFail, C!Goes, C!Sound
<1>6. CASE up /\ UNCHANGED up /\ C!Publish
  <2>1. fetched \in Listings /\ C!Sound
    BY <1>6 DEF C!Publish, C!Goes
  <2>2. CASE C!Loads(fetched)
    <3>1. config' = C!Parse(fetched)
      BY <1>6, <2>2 DEF C!Publish
    <3>2. C!Sound'
      BY <2>1, <2>2, <3>1 DEF C!Sound, C!Loads
    <3>3. DOMAIN config' = DOMAIN C!Default
      BY <2>1, <3>1, ParseTypes
    <3> QED BY <1>6, <3>2, <3>3 DEF C!Publish, C!Goes
  <2>3. CASE ~C!Loads(fetched)
    <3>1. config' = config
      BY <1>6, <2>3 DEF C!Publish
    <3>2. C!Sound'
      BY <2>1, <3>1 DEF C!Sound
    <3> QED BY <1>6, <3>1, <3>2 DEF C!Publish, C!Goes
  <2> QED BY <2>2, <2>3
<1> QED BY <1>1, <1>2, <1>3, <1>4, <1>5, <1>6, ConfigSteps

-----------------------------------------------------------------------------
(* The questions *)

\* A handler at l, with configuration c and reply w, has used t.
AskFits(l, c, t, w) ==
    /\ IF l = "idle" THEN t = 0
       ELSE /\ c.askTime \in Nat /\ c.searchTime \in Int
            /\ t \in 0 .. c.askTime
    /\ l = "llm" => t <= A!SearchLimit(c)
    /\ w = "late" => l = "reply"

\* It is late only if the model, with all that the search may use, is too slow.
LateFits(c, n, w) == w = "late" => n + A!SearchLimit(c) >= c.askTime

LEMMA NoTime == 0 \in 0 .. MaxTime
BY ChatAssumption DEF A!AskAssumption

LEMMA AskSteps ==
    ASSUME [Next]_vars
    PROVE  \/ UNCHANGED askVars
           \/ A!DropAsks
           \/ up /\ \E h \in Askers : A!Ask(h) \/ A!AskStep(h)
BY DEF Next, vars, Start, Exit, Crash, Dies, Edit, Reload,
       Question, Text, AskStep, KhaleesiStep

AskTypes ==
    /\ apc \in [Askers -> {"idle", "search", "llm", "reply"}]
    /\ need \in [Askers -> 0 .. MaxTime]
    /\ said \in [Askers -> {"", "unset", "answer", "failed", "late"}]
    /\ DOMAIN acfg = Askers /\ DOMAIN spent = Askers

AskInv ==
    /\ AskTypes
    /\ \A h \in Askers :
         /\ AskFits(apc[h], acfg[h], spent[h], said[h])
         /\ LateFits(acfg[h], need[h], said[h])

\* A step of handler h concerns h alone.
LEMMA OneAsks ==
    ASSUME AskInv, AskTypes', NEW h \in Askers,
           \A u \in Askers \ {h} :
               /\ apc'[u] = apc[u] /\ acfg'[u] = acfg[u] /\ spent'[u] = spent[u]
               /\ need'[u] = need[u] /\ said'[u] = said[u],
           AskFits(apc'[h], acfg'[h], spent'[h], said'[h]),
           LateFits(acfg'[h], need'[h], said'[h])
    PROVE  AskInv'
<1>1. ASSUME NEW u \in Askers
      PROVE  /\ AskFits(apc'[u], acfg'[u], spent'[u], said'[u])
             /\ LateFits(acfg'[u], need'[u], said'[u])
  <2>1. CASE u = h
    BY <2>1
  <2>2. CASE u # h
    BY <2>2 DEF AskInv
  <2> QED BY <2>1, <2>2
<1> QED BY <1>1 DEF AskInv, AskFits, LateFits, A!SearchLimit, A!Smaller

LEMMA AskKept ==
    ASSUME ConfigInv, AskInv, [Next]_vars
    PROVE  AskInv'
<1>1. CASE UNCHANGED askVars
  BY <1>1 DEF askVars, AskInv, AskTypes, AskFits, LateFits, A!SearchLimit,
             A!Smaller
<1>2. CASE A!DropAsks
  <2>1. AskTypes'
    BY <1>2, NoTime DEF A!DropAsks, AskTypes
  <2>2. \A h \in Askers : apc'[h] = "idle" /\ spent'[h] = 0 /\ said'[h] = ""
    BY <1>2 DEF A!DropAsks
  <2> QED BY <2>1, <2>2 DEF AskInv, AskFits, LateFits
<1>3. ASSUME up, NEW h \in Askers, A!Ask(h) PROVE AskInv'
  <2>1. PICK s \in Listings : config = C!Parse(s)
    BY <1>3 DEF ConfigInv, C!Sound
  <2>2. config.askTime \in Nat /\ config.searchTime \in Int
    BY <2>1, ParseTypes
  <2>3. AskTypes'
    BY <1>3 DEF A!Ask, A!AGoto, AskInv, AskTypes
  <2>4. /\ apc[h] = "idle" /\ apc'[h] = "search" /\ acfg'[h] = config
        /\ UNCHANGED <<spent, need, said>>
    BY <1>3 DEF A!Ask, A!AGoto, AskInv, AskTypes
  <2>5. spent[h] = 0 /\ said[h] # "late"
    BY <2>4 DEF AskInv, AskFits
  <2>6. AskFits(apc'[h], acfg'[h], spent'[h], said'[h])
    BY <2>2, <2>4, <2>5 DEF AskFits
  <2>7. LateFits(acfg'[h], need'[h], said'[h])
    BY <2>4, <2>5 DEF LateFits
  <2> QED BY <1>3, <2>3, <2>6, <2>7, OneAsks DEF A!Ask, A!AGoto, AskInv, AskTypes
<1>4. ASSUME NEW h \in Askers, A!Search(h) PROVE AskInv'
  <2>1. PICK t \in 0 .. A!SearchLimit(acfg[h]) : spent' = [spent EXCEPT ![h] = t]
    BY <1>4 DEF A!Search
  <2>2. /\ apc[h] = "search" /\ apc'[h] = "llm" /\ spent'[h] = t
        /\ UNCHANGED <<acfg, need, said>>
    BY <1>4, <2>1 DEF A!Search, A!AGoto, AskInv, AskTypes
  <2>3. /\ acfg[h].askTime \in Nat /\ acfg[h].searchTime \in Int
        /\ said[h] # "late"
    BY <2>2 DEF AskInv, AskFits
  <2>4. A!SearchLimit(acfg[h]) \in 0 .. acfg[h].askTime
    BY <2>3, LimitBounds
  <2>5. AskFits(apc'[h], acfg'[h], spent'[h], said'[h])
    BY <2>2, <2>3, <2>4 DEF AskFits
  <2>6. AskTypes' /\ LateFits(acfg'[h], need'[h], said'[h])
    BY <1>4, <2>1, <2>2, <2>3 DEF A!Search, A!AGoto, AskInv, AskTypes, LateFits
  <2> QED BY <1>4, <2>1, <2>5, <2>6, OneAsks
          DEF A!Search, A!AGoto, AskInv, AskTypes
<1>5. ASSUME NEW h \in Askers, NEW n \in 0 .. MaxTime,
             NEW w \in {"unset", "answer", "failed", "late"},
             apc[h] = "llm", A!Says(h, w, n), LateFits(acfg[h], n, w)
      PROVE  AskInv'
  <2>1. /\ apc'[h] = "reply" /\ acfg'[h] = acfg[h] /\ spent'[h] = 0
        /\ need'[h] = n /\ said'[h] = w
    BY <1>5 DEF A!Says, A!AGoto, AskInv, AskTypes
  <2>2. acfg[h].askTime \in Nat /\ acfg[h].searchTime \in Int
    BY <1>5 DEF AskInv, AskFits
  <2>3. AskFits(apc'[h], acfg'[h], spent'[h], said'[h])
    BY <2>1, <2>2 DEF AskFits
  <2>4. AskTypes'
    BY <1>5 DEF A!Says, A!AGoto, AskInv, AskTypes
  <2> QED BY <1>5, <2>1, <2>3, <2>4, OneAsks DEF A!Says, A!AGoto, AskInv, AskTypes
<1>6. ASSUME NEW h \in Askers, A!NotConfigured(h) PROVE AskInv'
  BY <1>5, <1>6, NoTime DEF A!NotConfigured, LateFits
<1>7. ASSUME NEW h \in Askers, NEW n \in 0 .. MaxTime, A!Generate(h, n)
      PROVE  AskInv'
  BY <1>5, <1>7 DEF A!Generate, A!Asks, LateFits
<1>8. ASSUME NEW h \in Askers, NEW n \in 0 .. MaxTime, A!DeadlineExceeded(h, n)
      PROVE  AskInv'
  <2>1. apc[h] = "llm" /\ spent[h] + n >= acfg[h].askTime
    BY <1>8 DEF A!DeadlineExceeded, A!Asks
  <2>2. /\ acfg[h].askTime \in Nat /\ acfg[h].searchTime \in Int
        /\ spent[h] \in Nat /\ spent[h] <= A!SearchLimit(acfg[h])
    BY <2>1 DEF AskInv, AskFits
  <2>3. A!SearchLimit(acfg[h]) \in Nat
    BY <2>2, LimitBounds
  <2>4. LateFits(acfg[h], n, "late")
    BY <2>1, <2>2, <2>3 DEF LateFits
  <2> QED BY <1>5, <1>8, <2>1, <2>4 DEF A!DeadlineExceeded
<1>9. ASSUME NEW h \in Askers, A!AskReply(h) PROVE AskInv'
  <2>1. /\ apc'[h] = "idle" /\ spent'[h] = 0 /\ said'[h] = ""
    BY <1>9 DEF A!AskReply, A!AGoto, AskInv, AskTypes
  <2>2. AskTypes'
    BY <1>9, NoTime DEF A!AskReply, A!AGoto, AskInv, AskTypes
  <2>3. /\ AskFits(apc'[h], acfg'[h], spent'[h], said'[h])
        /\ LateFits(acfg'[h], need'[h], said'[h])
    BY <2>1 DEF AskFits, LateFits
  <2> QED BY <1>9, <2>2, <2>3, OneAsks DEF A!AskReply, A!AGoto, AskInv, AskTypes
<1> QED BY <1>1, <1>2, <1>3, <1>4, <1>6, <1>7, <1>8, <1>9, AskSteps
        DEF A!AskStep

-----------------------------------------------------------------------------
(* The replies *)

\* What handler h has counted towards its reply, the gap has seen.
GapFits(h) ==
    ~overlap[h] =>
        /\ kpc[h] = "compare" => gap >= K!Least(base) \/ kval[h] <= gap
        /\ kpc[h] = "send" => gap >= K!Least(base)

KhaleesiInv ==
    /\ K!KhaleesiTypeOK
    /\ thresh >= K!Least(base)
    /\ \/ \E h \in Handlers : kpc[h] = "zero"
       \/ gap >= K!Least(base)
       \/ cnt <= gap
    /\ \A h \in Handlers : GapFits(h)

LEMMA KhaleesiSteps ==
    ASSUME [Next]_vars
    PROVE  \/ UNCHANGED kVars
           \/ C!Load /\ K!StartKhaleesi(C!Parse(listed).threshold)
           \/ K!StartKhaleesi(0)
           \/ \E h \in Handlers :
                  (\E t \in Texts : K!Count(h, t)) \/ K!KhaleesiStep(h)
BY DEF Next, vars, Start, Exit, Crash, Dies, Edit, Reload,
       Question, Text, AskStep, KhaleesiStep

LEMMA LeastType ==
    ASSUME NEW b \in Nat
    PROVE  K!Least(b) \in 1 .. IntMax
BY ChatAssumption DEF K!KhaleesiAssumption, K!Least

\* A new bot, with any base, has nothing counted.
LEMMA StartKept ==
    ASSUME NEW b \in Nat, K!StartKhaleesi(b)
    PROVE  KhaleesiInv'
<1>1. thresh' \in 1 .. IntMax /\ thresh' >= K!Least(b)
  <2>1. CASE b > 0
    BY <2>1, ThresholdBounds DEF K!StartKhaleesi
  <2>2. CASE b = 0
    <3>1. thresh' = 1
      BY <2>2 DEF K!StartKhaleesi
    <3>2. K!Least(b) = 1 /\ 1 \in 1 .. IntMax
      BY <2>2, ChatAssumption DEF K!KhaleesiAssumption, K!Least
    <3> QED BY <3>1, <3>2
  <2> QED BY <2>1, <2>2
<1>2. /\ base' = b /\ last' \in Rules /\ cnt' = 0 /\ gap' = 0
      /\ kpc' = [h \in Handlers |-> "idle"]
      /\ ktext' = [h \in Handlers |-> Missing]
      /\ kval' = [h \in Handlers |-> 0]
      /\ overlap' = [h \in Handlers |-> FALSE]
  BY DEF K!StartKhaleesi
<1>3. 0 \in 0 .. IntMax
  BY ChatAssumption DEF K!KhaleesiAssumption
<1>4. K!KhaleesiTypeOK'
  BY <1>1, <1>2, <1>3 DEF K!KhaleesiTypeOK
<1> QED BY <1>1, <1>2, <1>4 DEF KhaleesiInv, GapFits

\* A text is counted.
LEMMA CountKept ==
    ASSUME KhaleesiInv, NEW h \in Handlers, NEW t \in Texts, K!Count(h, t)
    PROVE  KhaleesiInv'
<1> DEFINE L == K!Least(base)
<1>1. /\ IntMax \in Nat \ {0} /\ L \in 1 .. IntMax
      /\ cnt \in 0 .. IntMax /\ gap \in 0 .. IntMax
  BY LeastType, ChatAssumption
  DEF K!KhaleesiAssumption, KhaleesiInv, K!KhaleesiTypeOK
<1>2. /\ cnt' \in 0 .. IntMax /\ cnt' <= cnt + 1
      /\ gap' = (IF gap < L THEN gap + 1 ELSE gap)
  BY <1>1 DEF K!Count, K!Inc
<1>3. gap' \in 0 .. IntMax /\ gap' >= gap /\ K!Least(base)' = L
  BY <1>1, <1>2 DEF K!Count, K!Least
<1> HIDE DEF L
<1>4. gap >= L \/ cnt <= gap => gap' >= L \/ cnt' <= gap'
  BY <1>1, <1>2
<1>5. gap >= L => gap' >= L
  BY <1>1, <1>2
<1>6. K!KhaleesiTypeOK'
  BY <1>2, <1>3 DEF K!Count, K!KGoto, KhaleesiInv, K!KhaleesiTypeOK
<1>7. /\ kpc' = [kpc EXCEPT ![h] = "compare"] /\ kpc[h] = "idle"
      /\ kval' = [kval EXCEPT ![h] = cnt']
      /\ overlap' = [overlap EXCEPT ![h] = \E u \in Handlers : kpc[u] = "zero"]
  BY DEF K!Count, K!KGoto
<1>8. ASSUME NEW u \in Handlers PROVE GapFits(u)'
  <2>1. CASE u = h
    <3>1. kpc'[h] = "compare" /\ kval'[h] = cnt'
      BY <1>7 DEF KhaleesiInv, K!KhaleesiTypeOK
    <3>2. ASSUME ~overlap'[h] PROVE gap' >= L \/ cnt' <= gap'
      <4>1. overlap'[h] = \E w \in Handlers : kpc[w] = "zero"
        BY <1>7 DEF KhaleesiInv, K!KhaleesiTypeOK
      <4>2. ~ \E w \in Handlers : kpc[w] = "zero"
        BY <3>2, <4>1, Zenon
      <4> QED BY <1>4, <4>2 DEF KhaleesiInv, L
    <3> QED BY <1>3, <2>1, <3>1, <3>2 DEF GapFits
  <2>2. CASE u # h
    <3>1. kpc'[u] = kpc[u] /\ kval'[u] = kval[u] /\ overlap'[u] = overlap[u]
      BY <1>7, <2>2 DEF KhaleesiInv, K!KhaleesiTypeOK
    <3>2. GapFits(u) /\ kval[u] \in 0 .. IntMax
      BY DEF KhaleesiInv, K!KhaleesiTypeOK
    <3> QED BY <1>1, <1>3, <1>5, <3>1, <3>2 DEF GapFits, L
  <2> QED BY <2>1, <2>2
<1>9. (\E u \in Handlers : kpc[u] = "zero") => \E u \in Handlers : kpc'[u] = "zero"
  BY <1>7 DEF KhaleesiInv, K!KhaleesiTypeOK
<1>10. thresh' >= K!Least(base)'
  BY <1>3 DEF K!Count, KhaleesiInv, L
<1> QED BY <1>3, <1>4, <1>6, <1>8, <1>9, <1>10 DEF KhaleesiInv, L

\* A handler that comes to no reply leaves the counts as they are.
LEMMA QuietKept ==
    ASSUME KhaleesiInv, NEW h \in Handlers,
           \/ K!NotDue(h) \/ K!Unmodified(h) \/ K!SendFail(h)
    PROVE  KhaleesiInv'
<1>1. /\ kpc' = [kpc EXCEPT ![h] = "idle"] /\ kpc[h] # "zero"
      /\ ktext' = [ktext EXCEPT ![h] = Missing]
      /\ kval' = [kval EXCEPT ![h] = 0]
      /\ overlap' = [overlap EXCEPT ![h] = FALSE]
      /\ UNCHANGED <<base, last, cnt, thresh, gap>>
  BY DEF K!NotDue, K!Unmodified, K!SendFail, K!KReturn, K!KGoto, K!DropText,
         K!kShared, K!Due
<1>2. IntMax \in Nat /\ K!Least(base)' = K!Least(base)
  BY <1>1, ChatAssumption DEF K!KhaleesiAssumption, K!Least
<1>3. K!KhaleesiTypeOK'
  BY <1>1, <1>2 DEF KhaleesiInv, K!KhaleesiTypeOK
<1>4. ASSUME NEW u \in Handlers PROVE GapFits(u)'
  BY <1>1, <1>2 DEF KhaleesiInv, K!KhaleesiTypeOK, GapFits
<1>5. (\E u \in Handlers : kpc[u] = "zero") => \E u \in Handlers : kpc'[u] = "zero"
  BY <1>1 DEF KhaleesiInv, K!KhaleesiTypeOK
<1> QED BY <1>1, <1>2, <1>3, <1>4, <1>5 DEF KhaleesiInv

\* The count that reaches a threshold has seen a gap of Least.
LEMMA ModifiedKept ==
    ASSUME KhaleesiInv, NEW h \in Handlers, K!Modified(h)
    PROVE  KhaleesiInv'
<1>1. /\ kpc' = [kpc EXCEPT ![h] = "send"] /\ kpc[h] = "compare"
      /\ kval[h] >= thresh
      /\ ktext' = [ktext EXCEPT ![h] = Missing]
      /\ kval' = [kval EXCEPT ![h] = 0]
      /\ UNCHANGED <<base, last, cnt, thresh, gap, overlap>>
  BY DEF K!Modified, K!KGoto, K!DropText, K!kShared, K!Due
<1>2. /\ IntMax \in Nat /\ K!Least(base)' = K!Least(base)
      /\ K!Least(base) \in 1 .. IntMax
  BY <1>1, LeastType, ChatAssumption
  DEF K!KhaleesiAssumption, K!Least, KhaleesiInv, K!KhaleesiTypeOK
<1>3. K!KhaleesiTypeOK'
  BY <1>1, <1>2 DEF KhaleesiInv, K!KhaleesiTypeOK
<1>4. ASSUME NEW u \in Handlers PROVE GapFits(u)'
  <2>1. CASE u = h
    <3>1. kpc'[h] = "send" /\ overlap'[h] = overlap[h] /\ gap' = gap
      BY <1>1 DEF KhaleesiInv, K!KhaleesiTypeOK
    <3>2. ~overlap[h] => gap >= K!Least(base) \/ kval[h] <= gap
      BY <1>1 DEF KhaleesiInv, GapFits
    <3>3. ~overlap[h] => gap >= K!Least(base)
      BY <1>1, <1>2, <3>2 DEF KhaleesiInv, K!KhaleesiTypeOK
    <3> QED BY <1>2, <2>1, <3>1, <3>3 DEF GapFits
  <2>2. CASE u # h
    BY <1>1, <1>2, <2>2 DEF KhaleesiInv, K!KhaleesiTypeOK, GapFits
  <2> QED BY <2>1, <2>2
<1>5. (\E u \in Handlers : kpc[u] = "zero") => \E u \in Handlers : kpc'[u] = "zero"
  BY <1>1 DEF KhaleesiInv, K!KhaleesiTypeOK
<1> QED BY <1>1, <1>2, <1>3, <1>4, <1>5 DEF KhaleesiInv

\* A reply: whoever has counted before it is marked.
LEMMA ReplyKept ==
    ASSUME KhaleesiInv, NEW h \in Handlers, K!SendOK(h)
    PROVE  KhaleesiInv'
<1>1. /\ kpc' = [kpc EXCEPT ![h] = "zero"] /\ gap' = 0
      /\ overlap' = [u \in Handlers |-> u # h /\ kpc[u] \in {"compare", "send"}]
      /\ UNCHANGED <<base, last, cnt, thresh, ktext, kval>>
  BY DEF K!SendOK, K!KGoto, K!Replied, K!kShared
<1>2. IntMax \in Nat /\ K!Least(base)' = K!Least(base)
  BY <1>1, ChatAssumption DEF K!KhaleesiAssumption, K!Least
<1>3. K!KhaleesiTypeOK'
  <2>1. overlap' \in [Handlers -> BOOLEAN]
    BY <1>1
  <2> QED BY <1>1, <1>2, <2>1 DEF KhaleesiInv, K!KhaleesiTypeOK
<1>4. ASSUME NEW u \in Handlers PROVE GapFits(u)'
  <2>1. CASE u = h
    BY <1>1, <2>1 DEF KhaleesiInv, K!KhaleesiTypeOK, GapFits
  <2>2. CASE u # h
    <3>1. kpc'[u] = kpc[u]
      BY <1>1, <2>2 DEF KhaleesiInv, K!KhaleesiTypeOK
    <3>2. kpc[u] \in {"compare", "send"} => overlap'[u]
      BY <1>1, <2>2
    <3> QED BY <3>1, <3>2 DEF GapFits
  <2> QED BY <2>1, <2>2
<1>5. kpc'[h] = "zero"
  BY <1>1 DEF KhaleesiInv, K!KhaleesiTypeOK
<1> QED BY <1>1, <1>2, <1>3, <1>4, <1>5 DEF KhaleesiInv

\* cnt.Store(0): the count is behind the gap, however many resets are pending.
LEMMA ResetKept ==
    ASSUME KhaleesiInv, NEW h \in Handlers, K!StoreCount(h)
    PROVE  KhaleesiInv'
<1>1. /\ kpc' = [kpc EXCEPT ![h] = "draw"] /\ cnt' = 0
      /\ UNCHANGED <<base, last, thresh, ktext, kval, gap, overlap>>
  BY DEF K!StoreCount, K!KGoto
<1>2. IntMax \in Nat /\ K!Least(base)' = K!Least(base)
  BY <1>1, ChatAssumption DEF K!KhaleesiAssumption, K!Least
<1>3. K!KhaleesiTypeOK'
  BY <1>1, <1>2 DEF KhaleesiInv, K!KhaleesiTypeOK
<1>4. ASSUME NEW u \in Handlers PROVE GapFits(u)'
  BY <1>1, <1>2 DEF KhaleesiInv, K!KhaleesiTypeOK, GapFits
<1>5. cnt' <= gap'
  BY <1>1 DEF KhaleesiInv, K!KhaleesiTypeOK
<1> QED BY <1>1, <1>2, <1>3, <1>4, <1>5 DEF KhaleesiInv

\* thresh.Store: no draw is below Least.
LEMMA RedrawKept ==
    ASSUME KhaleesiInv, NEW h \in Handlers, K!StoreThreshold(h)
    PROVE  KhaleesiInv'
<1>1. /\ kpc' = [kpc EXCEPT ![h] = "idle"] /\ kpc[h] = "draw"
      /\ ktext' = [ktext EXCEPT ![h] = Missing]
      /\ kval' = [kval EXCEPT ![h] = 0]
      /\ overlap' = [overlap EXCEPT ![h] = FALSE]
      /\ thresh' \in K!Thresholds(base)
      /\ UNCHANGED <<base, last, cnt, gap>>
  BY DEF K!StoreThreshold, K!KReturn, K!KGoto, K!DropText
<1>2. /\ IntMax \in Nat /\ K!Least(base)' = K!Least(base)
      /\ thresh' \in 1 .. IntMax /\ thresh' >= K!Least(base)
  BY <1>1, ThresholdBounds, ChatAssumption
  DEF K!KhaleesiAssumption, K!Least, KhaleesiInv, K!KhaleesiTypeOK
<1>3. K!KhaleesiTypeOK'
  BY <1>1, <1>2 DEF KhaleesiInv, K!KhaleesiTypeOK
<1>4. ASSUME NEW u \in Handlers PROVE GapFits(u)'
  BY <1>1, <1>2 DEF KhaleesiInv, K!KhaleesiTypeOK, GapFits
<1>5. (\E u \in Handlers : kpc[u] = "zero") => \E u \in Handlers : kpc'[u] = "zero"
  BY <1>1 DEF KhaleesiInv, K!KhaleesiTypeOK
<1> QED BY <1>1, <1>2, <1>3, <1>4, <1>5 DEF KhaleesiInv

LEMMA KhaleesiKept ==
    ASSUME ConfigInv, KhaleesiInv, [Next]_vars
    PROVE  KhaleesiInv'
<1>1. CASE UNCHANGED kVars
  BY <1>1 DEF kVars, KhaleesiInv, K!KhaleesiTypeOK, GapFits, K!Least
<1>2. CASE C!Load /\ K!StartKhaleesi(C!Parse(listed).threshold)
  <2>1. C!Parse(listed).threshold \in Nat
    <3>1. listed \in Listings
      BY DEF ConfigInv, C!ConfigTypeOK
    <3>2. C!Parse(listed).threshold >= 0
      BY <1>2 DEF C!Load, C!Loads, C!IsValid
    <3> QED BY <3>1, <3>2, ParseTypes
  <2> QED BY <1>2, <2>1, StartKept
<1>3. CASE K!StartKhaleesi(0)
  BY <1>3, StartKept
<1>4. ASSUME NEW h \in Handlers, NEW t \in Texts, K!Count(h, t)
      PROVE  KhaleesiInv'
  BY <1>4, CountKept
<1>5. ASSUME NEW h \in Handlers, K!KhaleesiStep(h) PROVE KhaleesiInv'
  BY <1>5, QuietKept, ModifiedKept, ReplyKept, ResetKept, RedrawKept
  DEF K!KhaleesiStep
<1> QED BY <1>1, <1>2, <1>3, <1>4, <1>5, KhaleesiSteps

-----------------------------------------------------------------------------
(* Theorems *)

\* No handler is in both kinds of work at once.
Apart == \A h \in Askers : apc[h] = "idle" \/ kpc[h] = "idle"

Inv == ConfigInv /\ AskInv /\ KhaleesiInv /\ Apart

LEMMA ApartKept ==
    ASSUME Inv, [Next]_vars
    PROVE  Apart'
<1> USE DEF Inv, Apart
<1> SUFFICES ASSUME NEW h \in Askers, apc'[h] # "idle" PROVE kpc'[h] = "idle"
  OBVIOUS
<1>0. h \in Handlers
  BY ChatAssumption
<1>1. CASE UNCHANGED askVars /\ UNCHANGED kVars
  BY <1>1 DEF askVars, kVars
<1>2. ASSUME NEW u \in Askers, Question(u) PROVE kpc'[h] = "idle"
  BY <1>0, <1>2 DEF Question, kVars
<1>3. ASSUME NEW u \in Handlers, Text(u) PROVE kpc'[h] = "idle"
  BY <1>3 DEF Text, askVars, Asking
<1>4. ASSUME NEW u \in Askers, AskStep(u) PROVE kpc'[h] = "idle"
  <2>1. apc[u] # "idle" /\ \A w \in Askers \ {u} : apc'[w] = apc[w]
    BY <1>4 DEF AskStep, A!AskStep, A!Search, A!NotConfigured, A!Generate,
                A!DeadlineExceeded, A!AskReply, A!Asks, A!Says, A!AGoto, AskInv,
                AskTypes
  <2> QED BY <1>4, <2>1 DEF AskStep, kVars
<1>5. ASSUME NEW u \in Handlers, KhaleesiStep(u) PROVE kpc'[h] = "idle"
  <2>1. kpc[u] # "idle" /\ \A w \in Handlers \ {u} : kpc'[w] = kpc[w]
    BY <1>5 DEF KhaleesiStep, K!KhaleesiStep, K!NotDue, K!Unmodified, K!Modified,
                K!SendOK, K!SendFail, K!StoreCount, K!StoreThreshold, K!Due,
                K!KReturn, K!KGoto, KhaleesiInv, K!KhaleesiTypeOK
  <2>2. apc[h] # "idle"
    BY <1>5 DEF KhaleesiStep, askVars
  <2> QED BY <1>0, <2>1, <2>2
<1>6. CASE Start \/ Dies
  BY <1>0, <1>6 DEF Start, Dies, K!StartKhaleesi
<1> QED BY <1>1, <1>2, <1>3, <1>4, <1>5, <1>6
        DEF Next, vars, Exit, Crash, Edit, Reload

LEMMA Inductive == Spec => []Inv
<1>1. Init => Inv
  <2> SUFFICES ASSUME Init PROVE Inv
    OBVIOUS
  <2>1. ConfigInv
    BY DEF Init, C!InitConfig, ConfigInv, C!ConfigTypeOK
  <2>2. AskInv
    <3>1. AskTypes
      BY NoTime DEF Init, A!InitAsk, AskTypes
    <3> QED BY <3>1 DEF Init, A!InitAsk, AskInv, AskFits, LateFits
  <2>3. KhaleesiInv
    <3>1. 0 \in 0 .. IntMax /\ 1 \in 1 .. IntMax /\ K!Least(0) = 1
      BY ChatAssumption DEF K!KhaleesiAssumption, K!Least
    <3>2. K!KhaleesiTypeOK
      BY <3>1 DEF Init, K!InitKhaleesi, K!KhaleesiTypeOK
    <3> QED BY <3>1, <3>2 DEF Init, K!InitKhaleesi, KhaleesiInv, GapFits
  <2>4. Apart
    BY DEF Init, A!InitAsk, Apart
  <2> QED BY <2>1, <2>2, <2>3, <2>4 DEF Inv
<1>2. Inv /\ [Next]_vars => Inv'
  BY ConfigKept, AskKept, KhaleesiKept, ApartKept DEF Inv
<1> QED BY <1>1, <1>2, PTL DEF Spec

\* The state of the configuration, of every question and of every reply is of
\* the right type.
THEOREM TypeCorrect == Spec => []TypeOK
<1>1. Inv => TypeOK
  BY DEF Inv, TypeOK, ConfigInv, AskInv, AskTypes, AskFits, KhaleesiInv, Apart,
         A!AskTypeOK
<1> QED BY <1>1, Inductive, PTL

\* The bot runs on configurations that are valid and that Doppler held as they
\* are, whatever is edited when and whichever reloads fail.
THEOREM ConfigHolds == Spec => []ConfigSound
<1>1. Inv => ConfigSound
  BY DEF Inv, ConfigInv, ConfigSound
<1> QED BY <1>1, Inductive, PTL

\* With any budgets, a question is late only if the model needs what the longest
\* search allowed leaves it.
THEOREM BudgetHolds == Spec => []SearchLeavesTime
<1>1. Inv => SearchLeavesTime
  BY DEF Inv, AskInv, LateFits, SearchLeavesTime, A!SearchLeavesTime
<1> QED BY <1>1, Inductive, PTL

\* Any number of handlers, any base and any jitter: no reply comes sooner after
\* the one before it than the least threshold, but for texts counted before that
\* one's reset.
THEOREM SpacedHolds == Spec => RepliesSpaced
<1>1. Inv /\ [Next]_vars =>
        [\A h \in Handlers :
            K!Replies(h) /\ ~overlap[h] => gap >= K!Least(base)]_(K!kVars)
  BY DEF Inv, KhaleesiInv, GapFits, K!Replies
<1> QED BY <1>1, Inductive, PTL DEF Spec, RepliesSpaced, K!RepliesSpaced
=============================================================================
