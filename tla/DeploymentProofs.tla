-------------------------- MODULE DeploymentProofs --------------------------
(***************************************************************************)
(* A deployment is an AuthService, whatever migrations are run: each of    *)
(* its steps is one of AuthService or leaves its variables alone.  What    *)
(* AuthServiceProofs shows therefore holds while the schema changes.  And  *)
(* what the migrations do one at a time they do for any number of          *)
(* migrators.                                                              *)
(***************************************************************************)
EXTENDS Deployment, AuthServiceProofs

\* Every behaviour of the deployment is one of the service over tables that may be
\* made again: no migration changes what a request works on in any other way.
THEOREM DeploymentImplements == DeploymentSpec => SafeSpec
<1>1. DeploymentInit => Init
  BY DEF DeploymentInit
<1>2. [DeploymentNext]_all => [Next]_vars
  <2> SUFFICES ASSUME [DeploymentNext]_all PROVE Next \/ UNCHANGED vars
    OBVIOUS
  <2>1. CASE \E w \in Workers : Serve(w) \/ Lose(w)
    BY <2>1 DEF Serve, Lose, Next
  <2>2. CASE \E m \in Migrators : Migrate(m)
    BY <2>2 DEF Migrate, Next
  <2>3. CASE \E m \in Migrators : (Room /\ Plan(m) /\ UNCHANGED vars) \/ (Abort(m) /\ UNCHANGED vars)
    BY <2>3
  <2>4. CASE Audit
    BY <2>4 DEF Audit
  <2>5. CASE UNCHANGED all
    BY <2>5 DEF all
  <2> QED
    BY <2>1, <2>2, <2>3, <2>4, <2>5 DEF DeploymentNext
<1> QED
  BY <1>1, <1>2, PTL DEF DeploymentSpec, SafeSpec

\* Migrations unlock nobody but by taking 0002 back, and lose no token that they do
\* not drop with its table.
THEOREM DeploymentKeepsAccounts ==
    DeploymentSpec => [](FiveInARowLock /\ LockTakesFive /\ LockIsKept /\ SessionsAreConserved)
BY DeploymentImplements, FailuresLock, FewerDoNotLock, LockStays, TokensAreConserved, PTL

-----------------------------------------------------------------------------
(* The schema, whatever the number of migrators.                            *)

\* What each plan does when it runs alone: up and down it takes the schema of one
\* version to that of the other; and one that was made before 0001 fails on tables
\* that have been made meanwhile.  These are finitely many facts about the fixed
\* lists of statements, without a constant or a variable in them, which TLC evaluates.
PlansWork ==
    /\ SchemaAt[0] = << >>
    /\ \A v, w \in 0 .. Newest : v # w =>
         LET end == ExecuteAll(Steps(v, w), SchemaAt[v])
         IN  end.ok = TRUE /\ end.schema = SchemaAt[w]
    /\ \A v, w \in 1 .. Newest : ~ExecuteAll(Steps(0, w), SchemaAt[v]).ok

\* From 0002 on the triggers are there.
GuardsStay ==
    \A v \in 2 .. Newest, statement \in {"UPDATE", "DELETE"} :
        \E f \in SchemaAt[v]["audit_logs"] : f[1] = "trigger" /\ f[2] = statement

Planned == {r \in [base : 0 .. Newest, target : 0 .. Newest] : r.base # r.target}

\* The inductive invariant: nobody has to know what other migrators are about to do.
SchemaInv == /\ version \in 0 .. Newest
             /\ run \in [Migrators -> Planned \cup {NoRun}]
             /\ SchemaIsVersions /\ NoRunFailsAlone

LEMMA NoRunIsNotPlanned == NoRun \notin Planned
BY DEF NoRun, Planned

\* A run changes everything, as the version says, or nothing.
LEMMA RunsAreTransactions ==
    ASSUME PlansWork, SchemaInv, NEW m \in Migrators, Commit(m)
    PROVE  /\ SchemaInv'
           /\ \/ UNCHANGED <<version, db, audit_logs>>
              \/ audit_logs' = audit_logs \/ version' = 0
<1> DEFINE r == run[m]
           end == ExecuteAll(Steps(r.base, r.target), db)
           done == r.base \in {0, version} /\ end.ok
<1>1. /\ r # NoRun /\ Runs(m, NoRun)
      /\ stuck' = (stuck \/ (r.base = version /\ ~done))
      /\ db' = IF done THEN end.schema ELSE db
      /\ version' = IF done THEN r.target ELSE version
      /\ audit_logs' = IF done /\ r.target = 0 THEN [l \in Logs |-> NoRow] ELSE audit_logs
  BY DEF Commit
<1>2. r \in Planned /\ version \in 0 .. Newest /\ db = SchemaAt[version] /\ ~stuck
  BY <1>1 DEF SchemaInv, SchemaIsVersions, NoRunFailsAlone
<1>3. /\ r.base \in 0 .. Newest /\ r.target \in 0 .. Newest /\ r.base # r.target
  BY <1>2 DEF Planned
<1>4. run' \in [Migrators -> Planned \cup {NoRun}]
  BY <1>1 DEF Runs, SchemaInv
<1> HIDE DEF r, end, done
<1>5. CASE r.base = version
  <2>1. end.ok = TRUE /\ end.schema = SchemaAt[r.target]
    BY <1>2, <1>3, <1>5 DEF end, PlansWork
  <2>2. done
    BY <1>5, <2>1 DEF done
  <2> QED
    BY <1>1, <1>2, <1>3, <1>4, <2>1, <2>2 DEF SchemaInv, SchemaIsVersions, NoRunFailsAlone
<1>6. CASE r.base # version
  <2>1. ~done
    <3>1. CASE r.base = 0
      <4>1. version \in 1 .. Newest /\ r.target \in 1 .. Newest
        BY <1>2, <1>3, <1>6, <3>1 DEF Newest
      <4> QED
        BY <1>2, <3>1, <4>1 DEF PlansWork, end, done
    <3>2. CASE r.base # 0
      BY <1>6, <3>2 DEF done
    <3> QED
      BY <3>1, <3>2
  <2> QED
    BY <1>1, <1>2, <1>4, <1>6, <2>1 DEF SchemaInv, SchemaIsVersions, NoRunFailsAlone
<1> QED
  BY <1>5, <1>6

\* Everything else leaves version and schema alone.
LEMMA SchemaKept ==
    ASSUME SchemaInv, UNCHANGED <<version, db, stuck>>,
           run' \in [Migrators -> Planned \cup {NoRun}]
    PROVE  SchemaInv'
BY DEF SchemaInv, SchemaIsVersions, NoRunFailsAlone

LEMMA PlansAreTyped ==
    ASSUME SchemaInv, NEW m \in Migrators, Plan(m) \/ Abort(m)
    PROVE  SchemaInv' /\ UNCHANGED <<version, db, audit_logs>>
<1>1. UNCHANGED <<version, db, audit_logs, stuck>>
  BY DEF Plan, Abort
<1>2. PICK r \in Planned \cup {NoRun} : run' = [run EXCEPT ![m] = r]
  BY DEF Plan, Abort, Runs, Planned, SchemaInv
<1> QED
  BY <1>1, <1>2, SchemaKept DEF SchemaInv

Kept == \A l \in Logs : audit_logs[l] # NoRow => audit_logs'[l] = audit_logs[l]
Emptied == \A l \in Logs : audit_logs'[l] = NoRow

\* While there are triggers no statement about a row changes or removes it.
LEMMA AuditKeeps ==
    ASSUME SchemaInv, NEW l \in Logs, Log(l) \/ ChangeLog(l)
    PROVE  SchemaInv' /\ (GuardsStay /\ version >= 2 => Kept)
<1>1. UNCHANGED <<version, db, run, stuck>>
  BY DEF Log, ChangeLog, Becomes
<1>2. SchemaInv'
  BY <1>1, SchemaKept DEF SchemaInv
<1>3. ASSUME GuardsStay, version >= 2 PROVE ~ChangeLog(l)
  <2>1. version \in 2 .. Newest /\ db = SchemaAt[version]
    BY <1>3 DEF SchemaInv, SchemaIsVersions, Newest
  <2>2. Guarded("UPDATE") /\ Guarded("DELETE")
    BY <1>3, <2>1 DEF GuardsStay, Guarded
  <2> QED
    BY <2>2 DEF ChangeLog
<1>4. ASSUME Log(l), NEW k \in Logs, audit_logs[k] # NoRow
      PROVE  audit_logs'[k] = audit_logs[k]
  BY <1>4 DEF Log, Becomes
<1> QED
  BY <1>2, <1>3, <1>4 DEF Kept

\* TRUNCATE leaves the schema alone, and no row.
LEMMA TruncateEmpties ==
    ASSUME SchemaInv, Truncate
    PROVE  SchemaInv' /\ Emptied
<1>1. UNCHANGED <<version, db, run, stuck>> /\ Emptied
  BY DEF Truncate, Emptied
<1> QED
  BY <1>1, SchemaKept DEF SchemaInv

LEMMA SchemaSteps ==
    ASSUME PlansWork, SchemaInv, [DeploymentNext]_all
    PROVE  /\ SchemaInv'
           /\ GuardsStay /\ version >= 2 /\ version' >= 2 => Kept \/ Emptied
<1>1. CASE UNCHANGED all \/ \E w \in Workers : Serve(w) \/ Lose(w)
  <2>1. UNCHANGED schema_vars
    BY <1>1 DEF all, Serve, Lose
  <2> QED
    BY <2>1, SchemaKept DEF schema_vars, SchemaInv, Kept
<1>2. CASE \E m \in Migrators : Migrate(m)
  <2>1. PICK m \in Migrators : Commit(m)
    BY <1>2 DEF Migrate
  <2> QED
    BY <2>1, RunsAreTransactions DEF Kept
<1>3. CASE \E m \in Migrators : Plan(m) \/ Abort(m)
  BY <1>3, PlansAreTyped DEF Kept
<1>4. CASE Audit
  <2>1. CASE Truncate
    BY <2>1, TruncateEmpties
  <2>2. CASE \E l \in Logs : Log(l) \/ ChangeLog(l)
    BY <2>2, AuditKeeps
  <2> QED
    BY <1>4, <2>1, <2>2 DEF Audit
<1> QED
  BY <1>1, <1>2, <1>3, <1>4 DEF DeploymentNext

LEMMA InitSchema == ASSUME PlansWork PROVE DeploymentInit => SchemaInv
<1> SUFFICES ASSUME DeploymentInit PROVE SchemaInv
  OBVIOUS
<1>1. /\ version = 0 /\ db = << >> /\ ~stuck
      /\ run \in [Migrators -> Planned \cup {NoRun}]
  BY DEF DeploymentInit, MigrationsInit
<1> QED
  BY <1>1 DEF SchemaInv, PlansWork, SchemaIsVersions, NoRunFailsAlone, Newest

LEMMA SchemaInvariance == ASSUME PlansWork PROVE DeploymentSpec => []SchemaInv
<1>1. SchemaInv /\ [DeploymentNext]_all => SchemaInv'
  BY SchemaSteps
<1> QED
  BY InitSchema, <1>1, PTL DEF DeploymentSpec

\* If each plan alone does what it should, any number of migrators, which plan, die and
\* come between each other, leave the schema that belongs to the version.
THEOREM SchemaFollowsVersion == ASSUME PlansWork PROVE DeploymentSpec => []SchemaIsVersions
<1>1. SchemaInv => SchemaIsVersions
  BY DEF SchemaInv
<1> QED
  BY SchemaInvariance, <1>1, PTL

\* Under the same condition no run fails unless another has come between.
THEOREM RunsFailForOthers == ASSUME PlansWork PROVE DeploymentSpec => []NoRunFailsAlone
<1>1. SchemaInv => NoRunFailsAlone
  BY DEF SchemaInv
<1> QED
  BY SchemaInvariance, <1>1, PTL

\* If moreover the versions from 0002 on have the triggers, then as long as 0002 is not
\* taken back, whatever else is migrated meanwhile, a row of the audit log stays as it
\* was logged until a TRUNCATE removes all of them; UPDATE and DELETE do nothing to it.
THEOREM AuditRowsStay ==
    ASSUME PlansWork, GuardsStay
    PROVE  DeploymentSpec => AuditRowsAreGuarded
<1> DEFINE Guards == version >= 2 /\ version' >= 2 => Kept \/ Emptied
<1>1. SchemaInv /\ [DeploymentNext]_all => SchemaInv' /\ [Guards]_schema_vars
  BY SchemaSteps
<1>2. SchemaInv /\ [][DeploymentNext]_all => [][Guards]_schema_vars
  BY <1>1, PTL
<1> QED
  BY InitSchema, <1>2, PTL DEF DeploymentSpec, AuditRowsAreGuarded, Kept, Emptied
=============================================================================
