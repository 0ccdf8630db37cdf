---------------------------- MODULE MigratorProofs ----------------------------
(***************************************************************************)
(* Proofs about Migrator, for any number of runs, of binaries of any age,  *)
(* with any number of migrations.                                          *)
(*                                                                         *)
(* TypeOK and RecordedIsApplied are inductive as they stand.  For          *)
(* LinearUnlessRaced two facts about every plan under way are carried      *)
(* along: an "up" plan leaves no gap between what the run saw applied and  *)
(* what it is going to apply, and a "down" plan is the top of what it saw. *)
(***************************************************************************)
EXTENDS Migrator, FiniteSetTheorems, TLAPS

\* What a run plans are versions.
LEMMA PlanTypes ==
    ASSUME NEW r \in Runners, NEW n, NEW applied \in SUBSET Versions
    PROVE  /\ Pending(r, applied, n) \in SUBSET Versions
           /\ Newest(r, applied, n) \in SUBSET Versions
BY MigratorAssumption DEF Pending, Newest, Versions

\* Every reachable state is of the right type, and a run that holds the lock is
\* applying.
THEOREM TypeCorrect == Spec => []TypeOK
<1>1. Init => TypeOK
  BY MigratorAssumption DEF Init, TypeOK
<1>2. TypeOK /\ [Next]_vars => TypeOK'
  <2> SUFFICES ASSUME TypeOK, [Next]_vars PROVE TypeOK'
    OBVIOUS
  <2> USE MigratorAssumption
  <2>1. ASSUME NEW r \in Runners, NEW n \in 0 .. MaxVersion, PlanUp(r, n)
        PROVE  TypeOK'
    <3>1. Pending(r, rows, n) \in SUBSET Versions
      BY PlanTypes DEF TypeOK
    <3> QED BY <2>1, <3>1 DEF PlanUp, Plan, TypeOK, dbVars
  <2>2. ASSUME NEW r \in Runners, NEW n \in 0 .. MaxVersion, PlanDown(r, n)
        PROVE  TypeOK'
    <3>1. Newest(r, rows, n) \in SUBSET Versions
      BY PlanTypes DEF TypeOK
    <3>2. ahead' \in BOOLEAN
      BY <2>2 DEF PlanDown
    <3> QED BY <2>2, <3>1, <3>2 DEF PlanDown, Plan, TypeOK, dbVars
  <2>3. ASSUME NEW r \in Runners, TryLock(r) PROVE TypeOK'
    BY <2>3 DEF TryLock, EndRun, TypeOK, dbVars
  <2>4. ASSUME NEW r \in Runners, NEW v \in plan[r], Committed(r, v),
               objs' \in SUBSET Versions, rows' \in SUBSET Versions,
               pc[r] = "apply"
        PROVE  TypeOK'
    <3>1. raced' \in BOOLEAN
      BY <2>4 DEF Committed
    <3> QED BY <2>4, <3>1 DEF Committed, EndRun, Unlock, TypeOK
  <2>5. ASSUME NEW r \in Runners, ApplyUp(r) PROVE TypeOK'
    <3>1. PICK v \in plan[r] : /\ objs' = objs \cup {v}
                               /\ rows' = rows \cup {v}
                               /\ Committed(r, v)
      BY <2>5 DEF ApplyUp
    <3>2. v \in Versions
      BY DEF TypeOK
    <3>3. objs' \in SUBSET Versions /\ rows' \in SUBSET Versions
      BY <3>1, <3>2 DEF TypeOK
    <3>4. pc[r] = "apply"
      BY <2>5 DEF ApplyUp
    <3> QED BY <2>4, <3>1, <3>3, <3>4
  <2>6. ASSUME NEW r \in Runners, ApplyDown(r) PROVE TypeOK'
    <3>1. PICK v \in plan[r] : /\ objs' = objs \ {v}
                               /\ rows' = IF v = 1 THEN {} ELSE rows \ {v}
                               /\ Committed(r, v)
      BY <2>6 DEF ApplyDown
    <3>2. objs' \in SUBSET Versions /\ rows' \in SUBSET Versions
      BY <3>1 DEF TypeOK
    <3>3. pc[r] = "apply"
      BY <2>6 DEF ApplyDown
    <3> QED BY <2>4, <3>1, <3>2, <3>3
  <2>7. ASSUME NEW r \in Runners, Finish(r) \/ Fail(r) PROVE TypeOK'
    BY <2>7 DEF Finish, Fail, EndRun, Unlock, TypeOK, dbVars
  <2>8. ASSUME NEW r \in Runners, LockLost(r) PROVE TypeOK'
    BY <2>8 DEF LockLost, TypeOK, dbVars, runVars
  <2>9. CASE UNCHANGED vars
    BY <2>9 DEF vars, dbVars, runVars, TypeOK
  <2> QED BY <2>1, <2>2, <2>3, <2>5, <2>6, <2>7, <2>8, <2>9 DEF Next, Step
<1> QED BY <1>1, <1>2, PTL DEF Spec

-----------------------------------------------------------------------------
\* How a step changes the database, if it does: only these three ways.
LEMMA DatabaseSteps ==
    ASSUME [Next]_vars
    PROVE  \/ UNCHANGED dbVars
           \/ \E r \in Runners : ApplyUp(r) \/ ApplyDown(r)
BY DEF Next, Step, PlanUp, PlanDown, Plan, TryLock, Finish, Fail, LockLost,
       vars, dbVars

\* What is recorded is in effect, whatever runs overlap, fail, lose their lock
\* or the answer to a COMMIT: the transaction carries the property alone.
THEOREM RecordedHolds == Spec => []RecordedIsApplied
<1>1. Init => RecordedIsApplied
  BY DEF Init, RecordedIsApplied
<1>2. RecordedIsApplied /\ [Next]_vars => RecordedIsApplied'
  <2> SUFFICES ASSUME RecordedIsApplied, [Next]_vars
               PROVE  RecordedIsApplied'
    OBVIOUS
  <2>1. CASE UNCHANGED dbVars
    BY <2>1 DEF RecordedIsApplied, dbVars
  <2>2. ASSUME NEW r \in Runners, ApplyUp(r) PROVE RecordedIsApplied'
    BY <2>2 DEF ApplyUp, RecordedIsApplied
  <2>3. ASSUME NEW r \in Runners, ApplyDown(r) PROVE RecordedIsApplied'
    BY <2>3 DEF ApplyDown, RecordedIsApplied
  <2> QED BY <2>1, <2>2, <2>3, DatabaseSteps
<1> QED BY <1>1, <1>2, PTL DEF Spec

-----------------------------------------------------------------------------
\* An "up" plan starts right above what the run saw and has no gap.
UpPlan(r) ==
    /\ plan[r] \cap seen[r] = {}
    /\ \A v \in plan[r] : \A w \in Versions :
         w < v => w \in plan[r] \/ w \in seen[r]

\* A "down" plan is the top of what the run saw.
DownPlan(r) ==
    /\ plan[r] \subseteq seen[r]
    /\ \A v \in plan[r] : \A w \in seen[r] : w > v => w \in plan[r]

PlansFit ==
    \A r \in Runners : pc[r] # "idle" =>
        IF dir[r] = "up" THEN UpPlan(r) ELSE DownPlan(r)

LinearInv == ~raced /\ ~ahead => Linear /\ rows = objs /\ PlansFit

\* The newest versions are closed upwards.
LEMMA NewestIsTop ==
    ASSUME NEW r \in Runners, NEW n \in Nat, NEW applied \in SUBSET Versions,
           NEW v \in Newest(r, applied, n),
           NEW w \in applied, w > v, w <= Known[r]
    PROVE  w \in Newest(r, applied, n)
<1> DEFINE known == applied \cap (1 .. Known[r])
           Above(x) == {y \in known : y > x}
           m == IF n = 0 THEN 1 ELSE n
<1>1. Known[r] \in Nat /\ Versions \subseteq Nat
  BY MigratorAssumption DEF Versions
<1>2. v \in known /\ w \in known
  BY <1>1 DEF Newest, Versions
<1>3. IsFiniteSet(known)
  BY <1>1, FS_Interval, FS_Subset, 1 \in Int, Known[r] \in Int
<1>4. IsFiniteSet(Above(v)) /\ Above(w) \subseteq Above(v)
  BY <1>1, <1>2, <1>3, FS_Subset
<1>5. Cardinality(Above(w)) <= Cardinality(Above(v))
  BY <1>4, FS_Subset
<1>6. Cardinality(Above(v)) < m
  BY DEF Newest
<1>7. Cardinality(Above(v)) \in Nat /\ Cardinality(Above(w)) \in Nat
  BY <1>4, FS_Subset, FS_CardinalityType
<1>8. m \in Nat
  OBVIOUS
<1>9. Cardinality(Above(w)) < m
  BY <1>5, <1>6, <1>7, <1>8
<1> HIDE DEF m
<1> QED BY <1>2, <1>9 DEF Newest, m

\* What was seen fits a linear history, so the next version of an "up" plan is
\* the one after the last applied.
LEMMA UpKeepsLinear ==
    ASSUME TypeOK, NEW r \in Runners, UpPlan(r), seen[r] = rows, rows = objs,
           Linear, NEW v \in plan[r], Lowest(r, v)
    PROVE  \E V \in 0 .. MaxVersion : objs \cup {v} = 1 .. V
<1> USE MigratorAssumption
<1>1. PICK V \in 0 .. MaxVersion : objs = 1 .. V
  BY DEF Linear
<1>2. v \in 1 .. MaxVersion
  BY DEF TypeOK, Versions
<1>3. v \notin 1 .. V
  BY <1>1 DEF UpPlan
<1>4. v = V + 1
  <2>1. ASSUME v > V + 1 PROVE FALSE
    <3>1. v - 1 \in Versions /\ v - 1 < v
      BY <1>1, <1>2, <2>1 DEF Versions
    <3>2. v - 1 \notin plan[r]
      BY <1>2, <3>1 DEF Lowest
    <3>3. v - 1 \in 1 .. V
      BY <1>1, <3>1, <3>2 DEF UpPlan
    <3> QED BY <1>1, <1>2, <2>1, <3>3
  <2> QED BY <1>1, <1>2, <1>3, <2>1
<1>5. objs \cup {v} = 1 .. (V + 1) /\ V + 1 \in 0 .. MaxVersion
  BY <1>1, <1>2, <1>4
<1> QED BY <1>5

\* ... and the next one of a "down" plan is the last applied.
LEMMA DownKeepsLinear ==
    ASSUME TypeOK, NEW r \in Runners, DownPlan(r), seen[r] = rows, rows = objs,
           Linear, NEW v \in plan[r], Highest(r, v)
    PROVE  /\ \E V \in 0 .. MaxVersion : objs \ {v} = 1 .. V
           /\ v = 1 => rows \ {v} = {}
<1> USE MigratorAssumption
<1>1. PICK V \in 0 .. MaxVersion : objs = 1 .. V
  BY DEF Linear
<1>2. v \in 1 .. V
  BY <1>1 DEF DownPlan
<1>3. v = V
  <2>1. ASSUME v # V PROVE FALSE
    <3>1. V \in seen[r] /\ V > v
      BY <1>1, <1>2, <2>1
    <3>2. V \in plan[r]
      BY <3>1 DEF DownPlan
    <3> QED BY <1>1, <1>2, <3>1, <3>2 DEF Highest
  <2> QED BY <2>1
<1>4. objs \ {v} = 1 .. (V - 1) /\ V - 1 \in 0 .. MaxVersion
  BY <1>1, <1>2, <1>3
<1>5. v = 1 => rows \ {v} = {}
  BY <1>1, <1>3
<1> QED BY <1>4, <1>5

\* The plans of all runs still fit after a commit of run r of version v, which
\* touches only its own.
LEMMA CommitKeepsPlans ==
    ASSUME TypeOK, PlansFit, NEW r \in Runners, NEW v \in plan[r],
           pc[r] = "apply", Committed(r, v), seen[r] = rows,
           \/ dir[r] = "up" /\ Lowest(r, v) /\ rows' = rows \cup {v}
           \/ dir[r] = "down" /\ Highest(r, v) /\ rows' = rows \ {v}
    PROVE  PlansFit'
<1> SUFFICES ASSUME NEW q \in Runners, pc'[q] # "idle"
             PROVE  (IF dir[q] = "up" THEN UpPlan(q) ELSE DownPlan(q))'
  BY DEF PlansFit
<1>1. pc[q] # "idle" /\ dir'[q] = dir[q]
  BY DEF Committed, EndRun, TypeOK
<1>2. CASE q # r
  <2>1. plan'[q] = plan[q] /\ seen'[q] = seen[q]
    BY <1>2 DEF Committed, EndRun, TypeOK
  <2> QED BY <1>1, <2>1 DEF PlansFit, UpPlan, DownPlan
<1>3. CASE q = r
  <2>1. plan'[r] = plan[r] \ {v} /\ seen'[r] = rows'
    BY <1>3 DEF Committed, EndRun, TypeOK
  <2>2. CASE dir[r] = "up"
    <3>1. UpPlan(r) /\ rows' = rows \cup {v}
      BY <1>1, <1>3, <2>2 DEF PlansFit
    <3> QED BY <1>1, <1>3, <2>1, <2>2, <3>1 DEF UpPlan
  <2>3. CASE dir[r] = "down"
    <3>1. DownPlan(r) /\ rows' = rows \ {v} /\ dir[r] # "up"
      BY <1>1, <1>3, <2>3 DEF PlansFit
    <3> QED BY <1>1, <1>3, <2>1, <2>3, <3>1 DEF DownPlan
  <2> QED BY <2>2, <2>3 DEF TypeOK
<1> QED BY <1>2, <1>3

\* Until a stale plan is applied or a rollback passes over unknown versions,
\* exactly the versions up to some V are applied, and they are recorded.
THEOREM LinearHolds == Spec => []LinearUnlessRaced
<1>1. Init => LinearInv
  <2>1. Init => Linear
    BY MigratorAssumption, {} = 1 .. 0 DEF Init, Linear
  <2> QED BY <2>1 DEF Init, LinearInv, PlansFit
<1>2. TypeOK /\ LinearInv /\ [Next]_vars => LinearInv'
  <2> SUFFICES ASSUME TypeOK, LinearInv, [Next]_vars, ~raced', ~ahead'
               PROVE  (Linear /\ rows = objs /\ PlansFit)'
    BY DEF LinearInv
  <2> USE MigratorAssumption
  <2>1. ASSUME NEW r \in Runners, NEW n \in 0 .. MaxVersion, PlanUp(r, n)
        PROVE  (Linear /\ rows = objs /\ PlansFit)'
    <3>1. Linear /\ rows = objs /\ PlansFit
      BY <2>1 DEF LinearInv, PlanUp, Plan
    <3>2. UpPlan(r)'
      <4>1. plan'[r] = Pending(r, rows, n) /\ seen'[r] = rows
        BY <2>1 DEF PlanUp, Plan, TypeOK
      <4>2. Known[r] \in Versions /\ Versions \subseteq Nat /\ n \in Nat
        BY DEF Versions
      <4>3. \A v \in Pending(r, rows, n), w \in Versions :
              w < v => w \in Pending(r, rows, n) \/ w \in rows
        BY <4>2 DEF Pending, Versions
      <4>4. Pending(r, rows, n) \cap rows = {}
        BY DEF Pending
      <4> QED BY <4>1, <4>3, <4>4 DEF UpPlan
    <3>3. PlansFit'
      BY <2>1, <3>1, <3>2 DEF PlanUp, Plan, PlansFit, UpPlan, DownPlan, TypeOK
    <3> QED BY <2>1, <3>1, <3>3 DEF PlanUp, Plan, dbVars, Linear
  <2>2. ASSUME NEW r \in Runners, NEW n \in 0 .. MaxVersion, PlanDown(r, n)
        PROVE  (Linear /\ rows = objs /\ PlansFit)'
    <3>1. Linear /\ rows = objs /\ PlansFit
      BY <2>2 DEF LinearInv, PlanDown, Plan, TypeOK
    <3>2. \A v \in rows : v <= Known[r]
      <4>1. ~ \E v \in rows : v > Known[r]
        BY <2>2, Zenon DEF PlanDown
      <4>2. Known[r] \in Versions /\ rows \subseteq Versions
        BY DEF TypeOK, Versions
      <4> QED BY <4>1, <4>2 DEF Versions
    <3>3. DownPlan(r)'
      <4>1. plan'[r] = Newest(r, rows, n) /\ seen'[r] = rows
        BY <2>2 DEF PlanDown, Plan, TypeOK
      <4>2. rows \in SUBSET Versions /\ n \in Nat
        BY DEF TypeOK
      <4>3. Newest(r, rows, n) \subseteq rows
        BY DEF Newest
      <4>4. \A v \in Newest(r, rows, n), w \in rows :
              w > v => w \in Newest(r, rows, n)
        BY <3>2, <4>2, NewestIsTop
      <4> QED BY <4>1, <4>3, <4>4 DEF DownPlan
    <3>4. dir'[r] # "up"
      BY <2>2 DEF PlanDown, Plan, TypeOK
    <3>5. PlansFit'
      BY <2>2, <3>1, <3>3, <3>4
      DEF PlanDown, Plan, PlansFit, UpPlan, DownPlan, TypeOK
    <3> QED BY <2>2, <3>1, <3>5 DEF PlanDown, Plan, dbVars, Linear
  <2>3. ASSUME NEW r \in Runners, TryLock(r)
        PROVE  (Linear /\ rows = objs /\ PlansFit)'
    <3>1. Linear /\ rows = objs /\ PlansFit
      BY <2>3 DEF LinearInv, TryLock
    <3>2. \A q \in Runners : pc'[q] # "idle" =>
            /\ pc[q] # "idle" /\ dir'[q] = dir[q]
            /\ plan'[q] = plan[q] /\ seen'[q] = seen[q]
      BY <2>3 DEF TryLock, EndRun, TypeOK
    <3> QED BY <2>3, <3>1, <3>2
            DEF TryLock, PlansFit, UpPlan, DownPlan, dbVars, Linear
  <2>4. ASSUME NEW r \in Runners, ApplyUp(r)
        PROVE  (Linear /\ rows = objs /\ PlansFit)'
    <3>1. PICK v \in plan[r] : /\ Lowest(r, v)
                               /\ objs' = objs \cup {v}
                               /\ rows' = rows \cup {v}
                               /\ Committed(r, v)
      BY <2>4 DEF ApplyUp
    <3>2. seen[r] = rows /\ Linear /\ rows = objs /\ PlansFit
      BY <3>1 DEF Committed, LinearInv, TypeOK
    <3>3. pc[r] = "apply" /\ dir[r] = "up"
      BY <2>4 DEF ApplyUp
    <3>4. UpPlan(r)
      BY <3>2, <3>3 DEF PlansFit
    <3>5. Linear'
      BY <3>1, <3>2, <3>4, UpKeepsLinear DEF Linear
    <3>6. PlansFit'
      BY <3>1, <3>2, <3>3, CommitKeepsPlans
    <3> QED BY <3>1, <3>2, <3>5, <3>6
  <2>5. ASSUME NEW r \in Runners, ApplyDown(r)
        PROVE  (Linear /\ rows = objs /\ PlansFit)'
    <3>1. PICK v \in plan[r] : /\ Highest(r, v)
                               /\ objs' = objs \ {v}
                               /\ rows' = IF v = 1 THEN {} ELSE rows \ {v}
                               /\ Committed(r, v)
      BY <2>5 DEF ApplyDown
    <3>2. seen[r] = rows /\ Linear /\ rows = objs /\ PlansFit
      BY <3>1 DEF Committed, LinearInv, TypeOK
    <3>3. pc[r] = "apply" /\ dir[r] = "down"
      BY <2>5 DEF ApplyDown
    <3>4. DownPlan(r)
      BY <3>2, <3>3 DEF PlansFit
    <3>5. /\ \E V \in 0 .. MaxVersion : objs \ {v} = 1 .. V
          /\ v = 1 => rows \ {v} = {}
      BY <3>1, <3>2, <3>4, DownKeepsLinear
    <3>6. rows' = rows \ {v}
      BY <3>1, <3>5
    <3>7. PlansFit'
      BY <3>1, <3>2, <3>3, <3>6, CommitKeepsPlans
    <3> QED BY <3>1, <3>2, <3>5, <3>6, <3>7 DEF Linear
  <2>6. ASSUME NEW r \in Runners, Finish(r) \/ Fail(r)
        PROVE  (Linear /\ rows = objs /\ PlansFit)'
    <3>1. Linear /\ rows = objs /\ PlansFit
      BY <2>6 DEF LinearInv, Finish, Fail
    <3>2. \A q \in Runners : pc'[q] # "idle" =>
            /\ pc[q] # "idle" /\ dir'[q] = dir[q]
            /\ plan'[q] = plan[q] /\ seen'[q] = seen[q]
      BY <2>6 DEF Finish, Fail, EndRun, TypeOK
    <3> QED BY <2>6, <3>1, <3>2
            DEF Finish, Fail, PlansFit, UpPlan, DownPlan, dbVars, Linear
  <2>7. CASE (\E r \in Runners : LockLost(r)) \/ UNCHANGED vars
    <3>1. UNCHANGED <<dbVars, runVars, raced, ahead>>
      BY <2>7 DEF LockLost, vars
    <3> QED BY <3>1 DEF LinearInv, PlansFit, UpPlan, DownPlan, dbVars, runVars,
                        Linear
  <2> QED BY <2>1, <2>2, <2>3, <2>4, <2>5, <2>6, <2>7 DEF Next, Step
<1>3. LinearInv => LinearUnlessRaced
  BY DEF LinearInv, LinearUnlessRaced
<1> QED BY <1>1, <1>2, <1>3, TypeCorrect, PTL DEF Spec

-----------------------------------------------------------------------------
\* What run r has struck off its plan is in effect and on record.
Worked(r) ==
    IF dir[r] = "up"
    THEN goal[r] \ plan[r] \subseteq objs /\ goal[r] \ plan[r] \subseteq rows
    ELSE (goal[r] \ plan[r]) \cap objs = {} /\ (goal[r] \ plan[r]) \cap rows = {}

ExitInv ==
    /\ \A r \in Runners : pc[r] = "planned" => plan[r] = goal[r]
    /\ ~lost => \A r \in Runners : pc[r] = "apply" => lock = r /\ Worked(r)

\* A run that is not at work, or not in this step, leaves ExitInv to the others.
LEMMA OthersKeepExitInv ==
    ASSUME TypeOK, ExitInv, NEW r \in Runners, UNCHANGED <<dbVars, lost>>,
           \A q \in Runners \ {r} :
               /\ pc'[q] = pc[q] /\ dir'[q] = dir[q]
               /\ plan'[q] = plan[q] /\ goal'[q] = goal[q],
           \A q \in Runners \ {r} : lock = q => lock' = q,
           pc'[r] = "planned" => plan'[r] = goal'[r],
           ~lost /\ pc'[r] = "apply" => lock' = r /\ Worked(r)'
    PROVE  ExitInv'
<1>1. ASSUME NEW q \in Runners, pc'[q] = "planned" PROVE plan'[q] = goal'[q]
  BY <1>1 DEF ExitInv
<1>2. ASSUME ~lost', NEW q \in Runners, pc'[q] = "apply"
      PROVE  lock' = q /\ Worked(q)'
  <2>1. CASE q = r
    BY <1>2, <2>1
  <2>2. CASE q # r
    BY <1>2, <2>2 DEF ExitInv, Worked, dbVars
  <2> QED BY <2>1, <2>2
<1> QED BY <1>1, <1>2 DEF ExitInv

\* The committed transaction of the run that has the lock adds to its work.
LEMMA CommitKeepsExitInv ==
    ASSUME TypeOK, ExitInv, NEW r \in Runners, NEW v \in plan[r],
           pc[r] = "apply", Committed(r, v),
           \/ dir[r] = "up" /\ objs' = objs \cup {v} /\ rows' = rows \cup {v}
           \/ /\ dir[r] = "down" /\ objs' = objs \ {v}
              /\ rows' = (IF v = 1 THEN {} ELSE rows \ {v})
    PROVE  ExitInv'
<1>1. ASSUME NEW q \in Runners, pc'[q] = "planned" PROVE plan'[q] = goal'[q]
  <2>1. q # r
    BY <1>1 DEF Committed, EndRun, TypeOK
  <2>2. pc'[q] = pc[q] /\ plan'[q] = plan[q] /\ goal'[q] = goal[q]
    BY <2>1 DEF Committed, EndRun, TypeOK
  <2> QED BY <1>1, <2>2 DEF ExitInv
<1>2. ASSUME ~lost', NEW q \in Runners, pc'[q] = "apply"
      PROVE  lock' = q /\ Worked(q)'
  <2>1. ~lost /\ pc[q] = "apply"
    BY <1>2 DEF Committed, EndRun, TypeOK
  <2>2. q = r /\ lock = r /\ Worked(r)
    BY <2>1 DEF ExitInv
  <2>3. /\ plan'[r] = plan[r] \ {v} /\ goal'[r] = goal[r] /\ dir'[r] = dir[r]
        /\ lock' = lock
    BY <1>2, <2>2 DEF Committed, EndRun, TypeOK
  <2>4. Worked(r)'
    <3>1. CASE dir[r] = "up"
      BY <2>2, <2>3, <3>1 DEF Worked
    <3>2. CASE dir[r] = "down"
      BY <2>2, <2>3, <3>2 DEF Worked
    <3> QED BY <3>1, <3>2 DEF TypeOK
  <2> QED BY <2>2, <2>3, <2>4
<1> QED BY <1>1, <1>2 DEF ExitInv

\* As long as no session that holds the lock dies, a run that exits with 0 has
\* done what it set out to do, and nobody has undone it.
THEOREM ExitHolds == Spec => ExitTellsTruth
<1>1. Init => ExitInv
  BY DEF Init, ExitInv
<1>2. TypeOK /\ ExitInv /\ [Next]_vars => ExitInv'
  <2> SUFFICES ASSUME TypeOK, ExitInv, [Next]_vars PROVE ExitInv'
    OBVIOUS
  <2>1. ASSUME NEW r \in Runners, NEW d, NEW p, Plan(r, d, p) PROVE ExitInv'
    BY <2>1, OthersKeepExitInv DEF Plan, TypeOK
  <2>2. ASSUME NEW r \in Runners, TryLock(r) PROVE ExitInv'
    <3>1. CASE lock = None
      <4>1. pc[r] = "planned" /\ pc'[r] = "apply" /\ lock' = r
        BY <2>2, <3>1 DEF TryLock, TypeOK
      <4>2. plan[r] = goal[r]
        BY <4>1 DEF ExitInv
      <4>3. Worked(r)'
        BY <2>2, <3>1, <4>2 DEF TryLock, Worked
      <4>4. \A q \in Runners : lock # q
        BY <3>1, MigratorAssumption
      <4> QED BY <2>2, <3>1, <4>1, <4>3, <4>4, OthersKeepExitInv
              DEF TryLock, TypeOK
    <3>2. CASE lock # None
      BY <2>2, <3>2, OthersKeepExitInv DEF TryLock, EndRun, TypeOK
    <3> QED BY <3>1, <3>2
  <2>3. ASSUME NEW r \in Runners, ApplyUp(r) PROVE ExitInv'
    BY <2>3, CommitKeepsExitInv DEF ApplyUp
  <2>4. ASSUME NEW r \in Runners, ApplyDown(r) PROVE ExitInv'
    BY <2>4, CommitKeepsExitInv DEF ApplyDown
  <2>5. ASSUME NEW r \in Runners, Finish(r) \/ Fail(r) PROVE ExitInv'
    BY <2>5, OthersKeepExitInv DEF Finish, Fail, EndRun, Unlock, TypeOK
  <2>6. ASSUME NEW r \in Runners, LockLost(r) PROVE ExitInv'
    BY <2>6 DEF LockLost, ExitInv, runVars
  <2>7. CASE UNCHANGED vars
    BY <2>7 DEF vars, dbVars, runVars, ExitInv, Worked
  <2> QED BY <2>1, <2>2, <2>3, <2>4, <2>5, <2>6, <2>7
          DEF Next, Step, PlanUp, PlanDown
<1>3. TypeOK /\ ExitInv /\ [Next]_vars =>
        [\A r \in Runners : ~lost /\ Finish(r) => Done(r)]_vars
  <2> SUFFICES ASSUME ExitInv, NEW r \in Runners, ~lost, Finish(r)
               PROVE  Done(r)
    OBVIOUS
  <2>1. pc[r] = "apply" /\ plan[r] = {}
    BY DEF Finish
  <2> QED BY <2>1 DEF ExitInv, Worked, Done
<1> QED BY <1>1, <1>2, <1>3, TypeCorrect, PTL DEF Spec, ExitTellsTruth
=============================================================================
