----------------------------- MODULE Deployment -----------------------------
(***************************************************************************)
(* The backend while it is deployed: the workers of AuthService serve      *)
(* requests over the database that the migrators of Migrations change.     *)
(*                                                                         *)
(* A migration waits for the transactions that have read a table it        *)
(* changes, and a table that is dropped takes its rows with it: 0002 adds  *)
(* the columns of users and the table that AuthService works on.           *)
(***************************************************************************)
EXTENDS AuthService, Migrations

CONSTANT MaxBusy       \* bound: the requests and runs under way at a time

ASSUME DeploymentAssumption == MaxBusy \in Nat

all == <<vars, schema_vars>>

DeploymentInit == Init /\ MigrationsInit

-----------------------------------------------------------------------------
Room == Cardinality(Workers \ At("idle")) + Cardinality({m \in Migrators : run[m] # NoRun})
          < MaxBusy

\* Before 0002 there are no columns and no table for a request to read.
Serve(w) == /\ version >= 2
            /\ (Room /\ Start(w)) \/ Continue(w)
            /\ UNCHANGED schema_vars
Lose(w) == Die(w) /\ UNCHANGED schema_vars

Waiting(w) == request[w].pc \notin {"idle", "replace"}
Alters(m) == run[m].base < 2 \/ run[m].target < 2

Migrate(m) ==
    /\ Alters(m) => \A w \in Workers : ~Waiting(w)
    /\ Commit(m)
    /\ IF version >= 2 /\ version' < 2 THEN Recreate ELSE UNCHANGED vars

Audit == (Truncate \/ \E l \in Logs : Log(l) \/ ChangeLog(l)) /\ UNCHANGED vars

DeploymentNext == \/ \E w \in Workers : Serve(w) \/ Lose(w)
                  \/ \E m \in Migrators : (Room /\ Plan(m) /\ UNCHANGED vars) \/ Migrate(m)
                                             \/ (Abort(m) /\ UNCHANGED vars)
                  \/ Audit

DeploymentSpec == DeploymentInit /\ [][DeploymentNext]_all

=============================================================================
