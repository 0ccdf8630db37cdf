----------------------------- MODULE TracksProofs -----------------------------
(***************************************************************************)
(* Proofs about Tracks, for any channels, commands, matches and any number *)
(* of trackers.                                                            *)
(*                                                                         *)
(* BotInv: who holds the mutex of the TracksMap, and that a fan-out only   *)
(* has tracked channels left to serve.  MapInv: how entries of the map and *)
(* tracker goroutines belong together.  PostInv: for a channel and a match *)
(* at most one of these is the case: the fan-out has still to serve it, one*)
(* tracker (of any number the channel may have had) is about to post it, it*)
(* is posted.                                                              *)
(***************************************************************************)
EXTENDS Tracks, TLAPS

BotInv ==
    /\ bpc = "fanout" <=> mu = "bot"
    /\ bpc = "fanout" => fanMsg \in Matches /\ todo \subseteq Tracked
    /\ bpc = "fanout" /\ fanMsg \notin Signals => fanMsg \in fanned

\* Tracker i is about to post a match, which is no error signal.
Sending(i) == g[i] = "sending" /\ cur[i] \notin Signals

MapInv ==
    /\ \A c \in Channels : tracks[c] # None =>
         tracks[c] <= made /\ owner[tracks[c]] = c /\ ~closed[tracks[c]]
    /\ \A i \in Trackers :
         /\ closed[i] => i <= made
         /\ i > made => g[i] = "gone"
         /\ g[i] \in {"bye", "gone"} /\ i <= made => ctxDone \/ closed[i]

PostInv ==
    /\ \A i \in Trackers : Sending(i) =>
         /\ cur[i] \in fanned
         /\ posted[<<owner[i], cur[i]>>] = 0
         /\ bpc = "fanout" /\ cur[i] = fanMsg => owner[i] \notin todo
    /\ \A i, j \in Trackers :
         Sending(i) /\ Sending(j) /\ i # j /\ owner[i] = owner[j] =>
             cur[i] # cur[j]
    /\ bpc = "fanout" /\ fanMsg \notin Signals =>
         \A c \in todo : posted[<<c, fanMsg>>] = 0
    /\ \A c \in Channels, m \in Matches \ fanned : posted[<<c, m>>] = 0
    /\ PostedOnce

Inv == TypeOK /\ BotInv /\ MapInv /\ PostInv

LEMMA InvInit == Init => Inv
<1> USE TracksAssumption
<1> SUFFICES ASSUME Init PROVE Inv
  OBVIOUS
<1> USE DEF Init, InitTracks
<1>1. TypeOK
  <2>1. mu \in {"free", "bot"} /\ bpc \in BotPc /\ made \in 0 .. MaxTrackers
    BY DEF BotPc
  <2>7. dgOpen \in BOOLEAN /\ ctxDone \in BOOLEAN
    OBVIOUS
  <2>2. /\ tracks \in [Channels -> Trackers \cup {None}]
        /\ owner \in [Trackers -> Channels]
        /\ closed \in [Trackers -> BOOLEAN]
    OBVIOUS
  <2>3. /\ g \in [Trackers -> TrackerPc]
        /\ cur \in [Trackers -> Matches \cup {None}]
        /\ \A i \in Trackers : g[i] = "sending" => cur[i] # None
    BY DEF TrackerPc
  <2>4. /\ todo \in SUBSET Channels /\ fanned \in SUBSET Matches
        /\ fanMsg \in Matches \cup {None}
    OBVIOUS
  <2>5. /\ hpc \in [Handlers -> CmdPc]
        /\ hch \in [Handlers -> Channels]
    BY DEF CmdPc
  <2>6. posted \in [Channels \X Matches -> 0 .. 2]
    OBVIOUS
  <2> QED BY <2>1, <2>2, <2>3, <2>4, <2>5, <2>6, <2>7 DEF TypeOK
<1>2. BotInv
  BY DEF BotInv
<1>3. MapInv
  BY DEF MapInv, Trackers
<1>4. PostInv
  BY DEF PostInv, Sending, PostedOnce
<1> QED BY <1>1, <1>2, <1>3, <1>4 DEF Inv

-----------------------------------------------------------------------------
(* Calls of the TracksMap *)

LEMMA TrackTypes ==
    ASSUME TypeOK, NEW c \in Channels, Track(c)
    PROVE  /\ made + 1 \in Trackers /\ made' = made + 1 /\ made' \in 0 .. MaxTrackers
           /\ tracks' = [tracks EXCEPT ![c] = made + 1]
           /\ tracks' \in [Channels -> Trackers \cup {None}]
           /\ owner' \in [Trackers -> Channels]
           /\ g' \in [Trackers -> TrackerPc]
BY TracksAssumption DEF TypeOK, Track, Trackers, TrackerPc

\* A new tracker is none that the map, or anybody else, knows of.
LEMMA TrackMap ==
    ASSUME TypeOK, MapInv, NEW c \in Channels, Track(c), UNCHANGED ctxDone
    PROVE  MapInv'
<1> USE TracksAssumption
<1>1. /\ made + 1 \in Trackers /\ made' = made + 1 /\ made \in Nat
      /\ tracks' = [tracks EXCEPT ![c] = made + 1]
  BY TrackTypes DEF TypeOK
<1>2. /\ owner' = [owner EXCEPT ![made + 1] = c]
      /\ g' = [g EXCEPT ![made + 1] = "select"] /\ closed' = closed
  BY <1>1 DEF Track
<1>3. ASSUME NEW d \in Channels, tracks'[d] # None
      PROVE  /\ tracks'[d] <= made' /\ owner'[tracks'[d]] = d
             /\ ~closed'[tracks'[d]]
  <2>1. CASE d = c
    <3>1. tracks'[d] = made + 1
      BY <1>1, <2>1 DEF TypeOK
    <3>2. ~closed[made + 1]
      BY <1>1 DEF MapInv
    <3> QED BY <1>1, <1>2, <2>1, <3>1, <3>2 DEF TypeOK
  <2>2. CASE d # c
    <3>1. tracks'[d] = tracks[d] /\ tracks[d] \in Trackers
      BY <1>1, <1>3, <2>2 DEF TypeOK
    <3>2. tracks[d] <= made /\ owner[tracks[d]] = d /\ ~closed[tracks[d]]
      BY <1>3, <3>1 DEF MapInv
    <3> QED BY <1>1, <1>2, <3>1, <3>2 DEF TypeOK, Trackers
  <2> QED BY <2>1, <2>2
<1>4. ASSUME NEW i \in Trackers
      PROVE  /\ closed'[i] => i <= made'
             /\ i > made' => g'[i] = "gone"
             /\ g'[i] \in {"bye", "gone"} /\ i <= made' => ctxDone' \/ closed'[i]
  BY <1>1, <1>2 DEF MapInv, TypeOK, Trackers
<1> QED BY <1>3, <1>4 DEF MapInv

LEMMA TrackPost ==
    ASSUME TypeOK, MapInv, PostInv, NEW c \in Channels, Track(c),
           UNCHANGED <<fanVars, posted>>, bpc # "fanout", bpc' # "fanout"
    PROVE  PostInv'
<1>0. made + 1 \in Trackers /\ made \in Nat /\ made' = made + 1
  BY TrackTypes DEF TypeOK
<1>1. /\ cur' = cur /\ owner' = [owner EXCEPT ![made + 1] = c]
      /\ g' = [g EXCEPT ![made + 1] = "select"]
  BY <1>0 DEF Track
<1>2. \A i \in Trackers : Sending(i)' => Sending(i) /\ owner'[i] = owner[i]
  BY <1>0, <1>1 DEF Sending, TypeOK
<1> QED BY <1>1, <1>2 DEF PostInv, fanVars, PostedOnce

LEMMA UntrackMap ==
    ASSUME TypeOK, MapInv, NEW cs \in SUBSET Channels, UntrackSet(cs),
           UNCHANGED ctxDone
    PROVE  MapInv'
<1> USE TracksAssumption
<1>1. /\ tracks' = [c \in Channels |-> IF c \in cs THEN None ELSE tracks[c]]
      /\ closed' = [i \in Trackers |-> closed[i] \/ \E c \in cs : tracks[c] = i]
      /\ UNCHANGED <<made, owner, g, cur>>
  BY DEF UntrackSet
<1>2. ASSUME NEW d \in Channels, tracks'[d] # None
      PROVE  /\ tracks'[d] <= made' /\ owner'[tracks'[d]] = d
             /\ ~closed'[tracks'[d]]
  <2>1. d \notin cs /\ tracks'[d] = tracks[d] /\ tracks[d] \in Trackers
    BY <1>1, <1>2 DEF TypeOK
  <2>2. tracks[d] <= made /\ owner[tracks[d]] = d /\ ~closed[tracks[d]]
    BY <1>2, <2>1 DEF MapInv
  <2>3. \A c \in cs : tracks[c] # tracks[d]
    <3> SUFFICES ASSUME NEW c \in cs, tracks[c] = tracks[d] PROVE FALSE
      OBVIOUS
    <3>1. c \in Channels /\ tracks[c] # None
      BY <1>2, <2>1
    <3>2. owner[tracks[c]] = c
      BY <3>1 DEF MapInv
    <3> QED BY <2>1, <2>2, <3>2
  <2>4. ~closed'[tracks[d]]
    BY <1>1, <2>1, <2>2, <2>3
  <2> QED BY <1>1, <2>1, <2>2, <2>4
<1>3. ASSUME NEW i \in Trackers
      PROVE  /\ closed'[i] => i <= made'
             /\ i > made' => g'[i] = "gone"
             /\ g'[i] \in {"bye", "gone"} /\ i <= made' => ctxDone' \/ closed'[i]
  <2>1. closed[i] => closed'[i]
    BY <1>1
  <2>2. closed'[i] => closed[i] \/ \E c \in cs : tracks[c] = i /\ tracks[c] # None
    BY <1>1 DEF Trackers
  <2>3. closed'[i] => i <= made
    BY <2>2 DEF MapInv
  <2> QED BY <1>1, <2>1, <2>3 DEF MapInv
<1> QED BY <1>2, <1>3 DEF MapInv

-----------------------------------------------------------------------------
(* Steps that leave the map, the trackers or the posts alone *)

LEMMA MapFrame ==
    ASSUME MapInv, UNCHANGED <<tracks, made, owner, closed, g>>,
           ctxDone => ctxDone'
    PROVE  MapInv'
BY DEF MapInv

LEMMA PostFrame ==
    ASSUME PostInv, UNCHANGED <<owner, g, cur, fanned, posted>>,
           bpc' = "fanout" => bpc = "fanout" /\ fanMsg' = fanMsg
                              /\ todo' \subseteq todo
    PROVE  PostInv'
BY DEF PostInv, Sending, PostedOnce

-----------------------------------------------------------------------------
(* The fan-out *)

LEMMA FanoutStart ==
    ASSUME Inv, NEW m \in Matches \ fanned, BotFanout(m)
    PROVE  Inv'
<1> USE TracksAssumption
<1> USE DEF Inv, BotFanout, trackerVars, cmdVars
<1>1. TypeOK'
  BY DEF TypeOK, BotPc, Tracked
<1>2. BotInv'
  BY DEF BotInv, Tracked
<1>3. MapInv'
  BY MapFrame
<1>4. PostInv'
  BY DEF PostInv, Sending, PostedOnce, TypeOK, Tracked
<1> QED BY <1>1, <1>2, <1>3, <1>4

LEMMA FanoutSendStep ==
    ASSUME Inv, NEW c \in Channels, FanoutSend(c)
    PROVE  Inv'
<1> USE TracksAssumption
<1> USE DEF Inv, mapVars, cmdVars
<1> DEFINE k == tracks[c]
<1>1. /\ bpc = "fanout" /\ c \in todo /\ c \in Tracked /\ todo' = todo \ {c}
      /\ UNCHANGED <<mapVars, owner, closed, bpc, fanned, fanMsg, dgOpen,
                    cmdVars, posted, ctxDone>>
      /\ g[k] = "select" /\ g' = [g EXCEPT ![k] = "sending"]
      /\ cur' = [cur EXCEPT ![k] = fanMsg]
  BY DEF FanoutSend, BotInv
<1>2. /\ k \in Trackers /\ owner[k] = c /\ k <= made /\ fanMsg \in Matches
      /\ fanMsg \notin Signals => fanMsg \in fanned
  BY <1>1 DEF Tracked, TypeOK, MapInv, BotInv
<1> HIDE DEF k
<1>3. TypeOK'
  <2>1. g' \in [Trackers -> TrackerPc] /\ cur' \in [Trackers -> Matches \cup {None}]
    BY <1>1, <1>2 DEF TypeOK, TrackerPc
  <2>2. \A i \in Trackers : g'[i] = "sending" => cur'[i] # None
    BY <1>1, <1>2 DEF TypeOK
  <2> QED BY <1>1, <2>1, <2>2 DEF TypeOK
<1>4. BotInv'
  BY <1>1 DEF BotInv, Tracked
<1>5. MapInv'
  BY <1>1, <1>2 DEF MapInv, TypeOK, Trackers
<1>6. PostInv'
  <2>1. \A i \in Trackers : Sending(i)' =>
          \/ i = k /\ cur'[i] = fanMsg /\ fanMsg \notin Signals
          \/ i # k /\ Sending(i) /\ cur'[i] = cur[i]
    BY <1>1, <1>2 DEF Sending, TypeOK
  <2>6. fanMsg \notin Signals => posted[<<c, fanMsg>>] = 0
    BY <1>1 DEF PostInv
  <2>2. \A i \in Trackers : Sending(i)' =>
          /\ cur'[i] \in fanned' /\ posted'[<<owner'[i], cur'[i]>>] = 0
          /\ bpc' = "fanout" /\ cur'[i] = fanMsg' => owner'[i] \notin todo'
    BY <1>1, <1>2, <2>1, <2>6 DEF PostInv
  <2>3. \A i \in Trackers : Sending(i) /\ owner[i] = c => cur[i] # fanMsg
    BY <1>1 DEF PostInv
  <2>4. \A i, j \in Trackers :
          Sending(i)' /\ Sending(j)' /\ i # j /\ owner'[i] = owner'[j] =>
              cur'[i] # cur'[j]
    BY <1>1, <1>2, <2>1, <2>3 DEF PostInv
  <2>5. /\ bpc' = "fanout" /\ fanMsg' \notin Signals =>
             \A d \in todo' : posted'[<<d, fanMsg'>>] = 0
        /\ \A d \in Channels, m \in Matches \ fanned' : posted'[<<d, m>>] = 0
        /\ PostedOnce'
    BY <1>1 DEF PostInv, PostedOnce
  <2> QED BY <2>2, <2>4, <2>5 DEF PostInv
<1> QED BY <1>3, <1>4, <1>5, <1>6

LEMMA FanoutTimeoutStep ==
    ASSUME Inv, NEW c \in Channels, FanoutTimeout(c)
    PROVE  Inv'
<1> USE DEF Inv, FanoutTimeout, mapVars, trackerVars, cmdVars
<1>1. TypeOK'
  BY DEF TypeOK
<1>2. BotInv'
  BY DEF BotInv, Tracked
<1> QED BY <1>1, <1>2, MapFrame, PostFrame

-----------------------------------------------------------------------------
(* Tracker goroutines *)

LEMMA TrackerPostStep ==
    ASSUME Inv, NEW k \in Trackers, TrackerPost(k)
    PROVE  Inv'
<1> USE TracksAssumption
<1> USE DEF Inv, mapVars, fanVars, cmdVars
<1>1. /\ g[k] = "sending" /\ g' = [g EXCEPT ![k] = "select"]
      /\ cur' = [cur EXCEPT ![k] = None]
      /\ UNCHANGED <<mapVars, owner, closed, bpc, fanVars, dgOpen, cmdVars, ctxDone>>
  BY DEF TrackerPost
<1>2. /\ owner[k] \in Channels /\ cur[k] \in Matches
      /\ Sending(k) => cur[k] \in fanned /\ posted[<<owner[k], cur[k]>>] = 0
  BY <1>1 DEF PostInv, TypeOK
<1>3. \/ posted' = posted
      \/ Sending(k) /\ posted' = [posted EXCEPT ![<<owner[k], cur[k]>>] = 1]
  BY <1>1, <1>2 DEF TrackerPost, CountPost, Sending
<1>4. TypeOK'
  <2>1. posted' \in [Channels \X Matches -> 0 .. 2]
    BY <1>2, <1>3 DEF TypeOK
  <2> QED BY <1>1, <2>1 DEF TypeOK, TrackerPc
<1>5. BotInv'
  BY <1>1 DEF BotInv, Tracked
<1>6. MapInv'
  BY <1>1 DEF MapInv, TypeOK
<1>7. PostInv'
  <2>1. \A i \in Trackers : Sending(i)' => i # k /\ Sending(i) /\ cur'[i] = cur[i]
    BY <1>1 DEF Sending, TypeOK
  <2>2. \A d \in Channels, m \in Matches :
          \/ posted'[<<d, m>>] = posted[<<d, m>>]
          \/ Sending(k) /\ d = owner[k] /\ m = cur[k] /\ posted'[<<d, m>>] = 1
    BY <1>2, <1>3 DEF TypeOK
  <2>3. ASSUME NEW i \in Trackers, Sending(i)'
        PROVE  posted'[<<owner'[i], cur'[i]>>] = 0
    <3>1. Sending(i) /\ i # k /\ cur'[i] = cur[i] /\ owner'[i] = owner[i]
      BY <1>1, <2>1, <2>3
    <3>2. owner[i] \in Channels /\ cur[i] \in Matches
      BY <3>1 DEF TypeOK, Sending
    <3>3. ~(Sending(k) /\ owner[i] = owner[k] /\ cur[i] = cur[k])
      BY <1>1, <3>1 DEF PostInv
    <3> QED BY <2>2, <3>1, <3>2, <3>3 DEF PostInv
  <2>4. ASSUME NEW i \in Trackers, Sending(i)'
        PROVE  /\ cur'[i] \in fanned'
               /\ bpc' = "fanout" /\ cur'[i] = fanMsg' => owner'[i] \notin todo'
    <3>1. Sending(i) /\ cur'[i] = cur[i]
      BY <2>1, <2>4
    <3>2. /\ cur[i] \in fanned
          /\ bpc = "fanout" /\ cur[i] = fanMsg => owner[i] \notin todo
      BY <3>1 DEF PostInv
    <3>3. UNCHANGED <<fanned, fanMsg, todo, owner, bpc>>
      BY <1>1
    <3> QED BY <3>1, <3>2, <3>3
  <2>5. \A i, j \in Trackers :
          Sending(i)' /\ Sending(j)' /\ i # j /\ owner'[i] = owner'[j] =>
              cur'[i] # cur'[j]
    BY <1>1, <2>1 DEF PostInv
  <2>6. ASSUME bpc' = "fanout", fanMsg' \notin Signals, NEW d \in todo'
        PROVE  posted'[<<d, fanMsg'>>] = 0
    <3>1. bpc = "fanout" /\ d \in todo /\ fanMsg' = fanMsg /\ d \in Channels
          /\ fanMsg \in Matches
      BY <1>1, <2>6 DEF BotInv, TypeOK
    <3>2. ~(Sending(k) /\ d = owner[k] /\ fanMsg = cur[k])
      BY <1>1, <3>1 DEF PostInv
    <3>3. posted[<<d, fanMsg>>] = 0
      BY <2>6, <3>1 DEF PostInv
    <3> QED BY <2>2, <3>1, <3>2, <3>3
  <2>7. ASSUME NEW d \in Channels, NEW m \in Matches \ fanned'
        PROVE  posted'[<<d, m>>] = 0
    <3>1. posted[<<d, m>>] = 0 /\ ~(Sending(k) /\ m = cur[k])
      BY <1>1, <1>2, <2>7 DEF PostInv
    <3> QED BY <2>2, <3>1
  <2>8. ASSUME NEW d \in Channels, NEW m \in Matches \ Signals
        PROVE  posted'[<<d, m>>] <= 1
    <3>1. posted[<<d, m>>] <= 1
      BY DEF PostInv, PostedOnce
    <3> QED BY <2>2, <3>1
  <2> QED BY <2>3, <2>4, <2>5, <2>6, <2>7, <2>8 DEF PostInv, PostedOnce
<1> QED BY <1>4, <1>5, <1>6, <1>7

LEMMA TrackerEndStep ==
    ASSUME Inv, NEW k \in Trackers, TrackerQuit(k) \/ TrackerBye(k)
    PROVE  Inv'
<1> USE DEF Inv, mapVars, fanVars, cmdVars
<1>1. /\ UNCHANGED <<mapVars, owner, closed, cur, bpc, fanVars, dgOpen, cmdVars,
                    posted, ctxDone>>
      /\ \/ g[k] = "select" /\ (ctxDone \/ closed[k])
            /\ g' = [g EXCEPT ![k] = "bye"]
         \/ g[k] = "bye" /\ g' = [g EXCEPT ![k] = "gone"]
  BY DEF TrackerQuit, TrackerBye
<1>2. TypeOK'
  BY <1>1 DEF TypeOK, TrackerPc
<1>3. BotInv'
  BY <1>1 DEF BotInv, Tracked
<1>4. MapInv'
  BY <1>1 DEF MapInv, TypeOK
<1>5. PostInv'
  <2>1. \A i \in Trackers : Sending(i)' => Sending(i)
    BY <1>1 DEF Sending, TypeOK
  <2> QED BY <1>1, <2>1 DEF PostInv, PostedOnce
<1> QED BY <1>2, <1>3, <1>4, <1>5

-----------------------------------------------------------------------------
(* Commands, start and end of the bot *)

LEMMA TrackStep ==
    ASSUME Inv, BotTrackHome \/ \E h \in Handlers : DoTrack(h)
    PROVE  Inv'
<1> USE TracksAssumption
<1> USE DEF Inv
<1>1. PICK c \in Channels : Track(c)
  BY DEF BotTrackHome, DoTrack, TypeOK
<1>2. /\ UNCHANGED <<fanVars, dgOpen, posted, ctxDone>>
      /\ bpc # "fanout" /\ bpc' # "fanout" /\ mu = "free" /\ mu' = "free"
      /\ bpc' \in BotPc
  BY <1>1 DEF BotTrackHome, DoTrack, CmdEnd, BotInv, Track, TypeOK, BotPc
<1>3. TypeOK'
  <2>1. /\ hpc' \in [Handlers -> CmdPc]
        /\ hch' \in [Handlers -> Channels]
    BY DEF BotTrackHome, DoTrack, CmdEnd, TypeOK, cmdVars, CmdPc
  <2>2. closed' = closed /\ cur' = cur
    BY <1>1 DEF Track
  <2>3. \A i \in Trackers : g'[i] = "sending" => g[i] = "sending"
    BY <1>1, TrackTypes DEF Track, TypeOK
  <2> QED BY <1>1, <1>2, <2>1, <2>2, <2>3, TrackTypes DEF TypeOK, fanVars
<1>4. BotInv'
  BY <1>2 DEF BotInv
<1>5. MapInv'
  BY <1>1, <1>2, TrackMap
<1>6. PostInv'
  BY <1>1, <1>2, TrackPost
<1> QED BY <1>3, <1>4, <1>5, <1>6

LEMMA UntrackStep ==
    ASSUME Inv, BotUntrackAll \/ \E h \in Handlers : DoUntrack(h)
    PROVE  Inv'
<1> USE TracksAssumption
<1> USE DEF Inv
<1>1. PICK cs \in SUBSET Channels : UntrackSet(cs)
  BY DEF BotUntrackAll, DoUntrack, TypeOK
<1>2. /\ UNCHANGED <<fanVars, posted, ctxDone, made, owner, g, cur, dgOpen>>
      /\ bpc # "fanout" /\ bpc' # "fanout" /\ mu = "free" /\ mu' = "free"
      /\ bpc' \in BotPc
  BY <1>1 DEF BotUntrackAll, DoUntrack, CmdEnd, BotInv, UntrackSet, TypeOK, BotPc
<1>3. TypeOK'
  <2>1. /\ hpc' \in [Handlers -> CmdPc]
        /\ hch' \in [Handlers -> Channels]
    <3>1. CASE BotUntrackAll
      BY <3>1 DEF BotUntrackAll, TypeOK, cmdVars
    <3>2. CASE \E h \in Handlers : DoUntrack(h)
      BY <3>2 DEF DoUntrack, CmdEnd, TypeOK, CmdPc
    <3> QED BY <3>1, <3>2
  <2>2. tracks' \in [Channels -> Trackers \cup {None}]
    BY <1>1 DEF UntrackSet, TypeOK
  <2>3. closed' \in [Trackers -> BOOLEAN]
    BY <1>1 DEF UntrackSet, TypeOK
  <2> QED BY <1>2, <2>1, <2>2, <2>3 DEF TypeOK, fanVars
<1>4. BotInv'
  BY <1>2 DEF BotInv
<1>5. MapInv'
  BY <1>1, <1>2, UntrackMap
<1>6. PostInv'
  BY <1>2, PostFrame DEF fanVars
<1> QED BY <1>3, <1>4, <1>5, <1>6

LEMMA QuietStep ==
    ASSUME Inv,
           \/ FanoutDone \/ BotStop(TRUE) \/ BotClose \/ Cancel
           \/ UNCHANGED vars
           \/ \E h \in Handlers : CmdCalled(h) \/ CmdIgnored(h)
           \/ \E h \in Handlers, c \in Channels : TrackCmd(h, c) \/ UntrackCmd(h, c)
    PROVE  Inv'
<1> USE DEF Inv
<1> USE DEF FanoutDone, BotStop, BotClose, Cancel, TrackCmd, UntrackCmd, CmdStart,
            CmdCalled, CmdIgnored
<1> USE DEF vars, ownVars, mapVars, trackerVars, fanVars, cmdVars
<1>1. /\ UNCHANGED <<tracks, made, owner, closed, g, cur, fanned, posted>>
      /\ ctxDone => ctxDone'
      /\ todo' = todo
      /\ bpc' = "fanout" => bpc = "fanout" /\ fanMsg' = fanMsg
  OBVIOUS
<1>2. TypeOK'
  <2>1. CASE FanoutDone \/ BotStop(TRUE)
    BY <2>1 DEF TypeOK, BotPc
  <2>2. CASE BotClose \/ Cancel \/ UNCHANGED vars
    BY <2>2 DEF TypeOK, BotPc
  <2>3. ASSUME NEW h \in Handlers, NEW c \in Channels,
               TrackCmd(h, c) \/ UntrackCmd(h, c)
        PROVE  TypeOK'
    <3>1. /\ hpc' \in [Handlers -> CmdPc]
          /\ hch' \in [Handlers -> Channels]
      BY <2>3 DEF TypeOK, CmdPc
    <3>2. UNCHANGED <<mapVars, trackerVars, bpc, fanVars, dgOpen, posted, ctxDone>>
      BY <2>3
    <3> QED BY <3>1, <3>2 DEF TypeOK
  <2>4. ASSUME NEW h \in Handlers, CmdCalled(h) \/ CmdIgnored(h)
        PROVE  TypeOK'
    <3>1. hpc' \in [Handlers -> CmdPc]
      BY <2>4 DEF TypeOK, CmdPc
    <3>2. UNCHANGED <<mapVars, trackerVars, bpc, fanVars, dgOpen, hch, posted, ctxDone>>
      BY <2>4
    <3> QED BY <3>1, <3>2 DEF TypeOK
  <2> QED BY <2>1, <2>2, <2>3, <2>4
<1>3. BotInv'
  BY DEF BotInv, Tracked
<1> QED BY <1>1, <1>2, <1>3, MapFrame, PostFrame

LEMMA InvStep == Inv /\ [Next]_vars => Inv'
<1> SUFFICES ASSUME Inv, [Next]_vars PROVE Inv'
  OBVIOUS
<1>1. ASSUME OwnNext PROVE Inv'
  BY <1>1, TrackStep, UntrackStep, QuietStep, FanoutSendStep, FanoutTimeoutStep,
     TrackerPostStep, TrackerEndStep
     DEF OwnNext, BotStep, FanoutStep, TrackerStep, CmdStep
<1> QED BY <1>1, FanoutStart, QuietStep DEF Next

LEMMA InvHolds == Spec => []Inv
BY InvInit, InvStep, PTL DEF Spec

-----------------------------------------------------------------------------
\* Types hold.
THEOREM TypeCorrect == Spec => []TypeOK
<1>1. Inv => TypeOK
  BY DEF Inv
<1> QED BY <1>1, InvHolds, PTL

\* No fan-out sends on, and no UntrackAll closes again, a closed channel.
THEOREM OpenHolds == Spec => []EntriesOpen
<1>1. Inv => EntriesOpen
  BY DEF Inv, MapInv, EntriesOpen
<1> QED BY <1>1, InvHolds, PTL

\* The tracker of an entry posts to the channel of the entry and is alive.
THEOREM OwnHolds == Spec => []EntriesOwn
<1>1. Inv => EntriesOwn
  BY DEF Inv, MapInv, TypeOK, EntriesOwn
<1> QED BY <1>1, InvHolds, PTL

\* No channel gets a match twice, whatever commands come in between.
THEOREM OnceHolds == Spec => []PostedOnce
<1>1. Inv => PostedOnce
  BY DEF Inv, PostInv
<1> QED BY <1>1, InvHolds, PTL
=============================================================================
