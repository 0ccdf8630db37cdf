------------------------------- MODULE Migrator -------------------------------
(***************************************************************************)
(* tools/migrator: runs of "up" and "down" against one database.           *)
(*                                                                         *)
(* A run reads the applied set, plans, and only then takes the advisory    *)
(* lock; it applies each migration of its plan in a transaction of its own,*)
(* which also does the bookkeeping in schema_migrations.  Version 1 creates*)
(* that table.  The lock belongs to a database session: it goes when the   *)
(* session does, and the run, which applies over other connections of its  *)
(* pool, does not notice.                                                  *)
(*                                                                         *)
(* A run that has nothing to do, is misused or cannot connect changes      *)
(* nothing and is left out.  The others exit with 0 in Finish, with 5 if   *)
(* the lock is held, and with 4 in Fail and after a lost COMMIT.           *)
(***************************************************************************)
EXTENDS Naturals, FiniteSets

CONSTANTS
    Runners,    \* processes
    MaxVersion, \* the latest migration anywhere
    Known,      \* the migrations embedded in a runner's binary: 1 .. Known[r]
    None

ASSUME MigratorAssumption ==
    /\ MaxVersion \in Nat \ {0}
    /\ Known \in [Runners -> 1 .. MaxVersion]
    /\ None \notin Runners

VARIABLES
    objs,   \* migrations in effect: their table exists (1: schema_migrations)
    rows,   \* versions recorded in schema_migrations
    lock,   \* the runner whose session holds the advisory lock, or None
    pc,     \* where a run is
    dir,    \* its direction
    plan,   \* versions it has still to apply or roll back
    goal,   \* history: the plan as it was made
    seen,   \* history: the recorded versions, as far as the run knows
    raced,  \* history: a run changed a database that was not as it knew it
    ahead,  \* history: a rollback passed over versions its binary lacks
    lost    \* history: the session of a lock died

dbVars  == <<objs, rows>>
runVars == <<pc, dir, plan, goal, seen>>
vars    == <<dbVars, lock, runVars, raced, ahead, lost>>

Versions == 1 .. MaxVersion

TypeOK ==
    /\ objs \in SUBSET Versions
    /\ rows \in SUBSET Versions
    /\ lock \in Runners \cup {None}
    /\ pc \in [Runners -> {"idle", "planned", "apply"}]
    /\ dir \in [Runners -> {"up", "down"}]
    /\ plan \in [Runners -> SUBSET Versions]
    /\ goal \in [Runners -> SUBSET Versions]
    /\ seen \in [Runners -> SUBSET Versions]
    /\ raced \in BOOLEAN /\ ahead \in BOOLEAN /\ lost \in BOOLEAN
    /\ \A r \in Runners : lock = r => pc[r] = "apply"

\* A fresh database.
Init ==
    /\ objs = {} /\ rows = {}
    /\ lock = None
    /\ pc = [r \in Runners |-> "idle"]
    /\ dir = [r \in Runners |-> "up"]
    /\ plan = [r \in Runners |-> {}]
    /\ goal = [r \in Runners |-> {}]
    /\ seen = [r \in Runners |-> {}]
    /\ raced = FALSE /\ ahead = FALSE /\ lost = FALSE

-----------------------------------------------------------------------------
(* Planning *)

\* planUp: what is not applied, up to target (0: all of it).
Pending(r, applied, target) ==
    {v \in 1 .. Known[r] : v \notin applied /\ (target > 0 => v <= target)}

\* MUTANT of Newest: the oldest count versions.
Oldest(r, applied, count) ==
    LET known == applied \cap (1 .. Known[r])
        n     == IF count = 0 THEN 1 ELSE count
    IN {v \in known : Cardinality({w \in known : w < v}) < n}

\* planDown: the newest count applied versions (0: one) that the binary has;
\* versions it lacks are passed over.
Newest(r, applied, count) ==
    LET known == applied \cap (1 .. Known[r])
        n     == IF count = 0 THEN 1 ELSE count
    IN {v \in known : Cardinality({w \in known : w > v}) < n}

Plan(r, d, p) ==
    /\ pc[r] = "idle"
    /\ p # {}                       \* otherwise there is nothing to do
    /\ pc' = [pc EXCEPT ![r] = "planned"]
    /\ dir' = [dir EXCEPT ![r] = d]
    /\ plan' = [plan EXCEPT ![r] = p]
    /\ goal' = [goal EXCEPT ![r] = p]
    /\ seen' = [seen EXCEPT ![r] = rows]
    /\ UNCHANGED <<dbVars, lock, raced, lost>>

PlanUp(r, target) ==
    /\ Plan(r, "up", Pending(r, rows, target))
    /\ UNCHANGED ahead

PlanDown(r, count) ==
    /\ Plan(r, "down", Newest(r, rows, count))
    /\ ahead' = (ahead \/ \E v \in rows : v > Known[r])

-----------------------------------------------------------------------------
(* Applying *)

EndRun(r) ==
    /\ pc' = [pc EXCEPT ![r] = "idle"]
    /\ plan' = [plan EXCEPT ![r] = {}]
    /\ goal' = [goal EXCEPT ![r] = {}]
    /\ seen' = [seen EXCEPT ![r] = {}]
    /\ UNCHANGED dir

Unlock(r) == lock' = IF lock = r THEN None ELSE lock

\* pg_try_advisory_lock: the run ends if another session has the lock.
TryLock(r) ==
    /\ pc[r] = "planned"
    /\ IF lock = None
       THEN /\ lock' = r
            /\ pc' = [pc EXCEPT ![r] = "apply"]
            /\ UNCHANGED <<dir, plan, goal, seen>>
       ELSE EndRun(r) /\ UNCHANGED lock
    /\ UNCHANGED <<dbVars, raced, ahead, lost>>

\* A committed transaction of run r: the run goes on with the rest, or the
\* answer to COMMIT is lost and it ends with an error.
Committed(r, v) ==
    /\ raced' = (raced \/ seen[r] # rows)
    /\ \/ /\ plan' = [plan EXCEPT ![r] = @ \ {v}]
          /\ seen' = [seen EXCEPT ![r] = rows']
          /\ UNCHANGED <<lock, pc, dir, goal>>
       \/ EndRun(r) /\ Unlock(r)
    /\ UNCHANGED <<ahead, lost>>

\* A plan is applied from below and rolled back from above.
Lowest(r, v)  == \A w \in plan[r] : v <= w
Highest(r, v) == \A w \in plan[r] : v >= w

\* MUTANT of ApplyUp: the statements do not share a transaction, and the
\* bookkeeping goes first.
ApplyUpUnsafe(r) ==
    /\ pc[r] = "apply" /\ dir[r] = "up"
    /\ \E v \in plan[r] :
         /\ Lowest(r, v)
         /\ v \notin rows
         /\ v = 1 \/ 1 \in objs
         /\ objs' \in {objs, objs \cup {v}}
         /\ rows' = rows \cup {v}
         /\ Committed(r, v)

\* up.sql is a CREATE TABLE, which fails if the table exists; then the INSERT,
\* which needs schema_migrations and refuses a version twice.
ApplyUp(r) ==
    /\ pc[r] = "apply" /\ dir[r] = "up"
    /\ \E v \in plan[r] :
         /\ Lowest(r, v)
         /\ v \notin objs /\ v \notin rows
         /\ v = 1 \/ 1 \in objs
         /\ objs' = objs \cup {v}
         /\ rows' = rows \cup {v}
         /\ Committed(r, v)

\* The DELETE, which needs schema_migrations but not the row; then down.sql, a
\* DROP TABLE IF EXISTS.  With schema_migrations go all its rows.
ApplyDown(r) ==
    /\ pc[r] = "apply" /\ dir[r] = "down"
    /\ \E v \in plan[r] :
         /\ Highest(r, v)
         /\ 1 \in objs
         /\ objs' = objs \ {v}
         /\ rows' = IF v = 1 THEN {} ELSE rows \ {v}
         /\ Committed(r, v)

\* MUTANT of Finish: the loop ends at an error, and the error is dropped.
FinishEarly(r) ==
    /\ pc[r] = "apply"
    /\ EndRun(r) /\ Unlock(r)
    /\ UNCHANGED <<dbVars, raced, ahead, lost>>

Finish(r) ==
    /\ pc[r] = "apply" /\ plan[r] = {}
    /\ EndRun(r) /\ Unlock(r)
    /\ UNCHANGED <<dbVars, raced, ahead, lost>>

\* MUTANT of Fail: the error return misses the unlock.
FailKeepsLock(r) ==
    /\ pc[r] # "idle"
    /\ EndRun(r)
    /\ UNCHANGED <<dbVars, lock, raced, ahead, lost>>

\* A statement or a connection fails, the 5 minutes are over, or the process
\* dies: the open transaction is rolled back, the lock goes.
Fail(r) ==
    /\ pc[r] # "idle"
    /\ EndRun(r) /\ Unlock(r)
    /\ UNCHANGED <<dbVars, raced, ahead, lost>>

\* The session of the lock connection dies; the run goes on.
LockLost(r) ==
    /\ lock = r
    /\ lock' = None
    /\ lost' = TRUE
    /\ UNCHANGED <<dbVars, runVars, raced, ahead>>

Step(r) == TryLock(r) \/ ApplyUp(r) \/ ApplyDown(r) \/ Finish(r) \/ Fail(r)

Next ==
    \E r \in Runners :
        \/ \E n \in 0 .. MaxVersion : PlanUp(r, n) \/ PlanDown(r, n)
        \/ Step(r)
        \/ LockLost(r)

Spec == Init /\ [][Next]_vars

\* Fairness: a run that has started goes on or fails; its context ends after
\* 5 minutes.
FairSpec == Spec /\ \A r \in Runners : WF_vars(Step(r))

-----------------------------------------------------------------------------
(* Properties *)

\* What schema_migrations records is in effect, whatever runs overlap, fail,
\* lose their lock or their COMMIT's answer.
RecordedIsApplied == rows \subseteq objs

\* "everything <= V is applied, nothing > V ran" (ADR-010).
Linear == \E V \in 0 .. MaxVersion : objs = 1 .. V

\* It holds, with the books in order, until a run applies a plan that no longer
\* fits the database or rolls back below versions its binary does not have.
LinearUnlessRaced == ~raced /\ ~ahead => Linear /\ rows = objs

\* What run r set out to do is done and recorded.
Done(r) ==
    IF dir[r] = "up" THEN goal[r] \subseteq objs /\ goal[r] \subseteq rows
    ELSE goal[r] \cap objs = {} /\ goal[r] \cap rows = {}

\* "Keep stable: scripts and CI may key off them" (main.go, of the exit codes):
\* a run that exits with 0 has done what it set out to do, and no other run has
\* undone it yet, however stale its plan was, as long as no session that holds
\* the lock dies.
ExitTellsTruth ==
    [][\A r \in Runners : ~lost /\ Finish(r) => Done(r)]_vars

\* Somebody who finds the lock held will find it free some time later.
LockReleased == \A r \in Runners : lock = r ~> lock # r
=============================================================================
