---------------------------- MODULE SchemaStartup ----------------------------
(***************************************************************************)
(* init_db of app/db/session.py, which the API (lifespan in app/main.py)   *)
(* and the grading worker (run_forever in app/worker/grading_worker.py)    *)
(* both run before they serve, at the same time, on one database that may  *)
(* be empty, of an older release, or left by a start that stopped          *)
(* half-way.  A process that fails is started again.                       *)
(*                                                                         *)
(* The seven steps of init_db look at the catalog, then run the statements *)
(* for what is missing in one transaction.  Between the two another        *)
(* process may have committed the same objects.  Data that violates a      *)
(* unique index or a check makes the statement fail.                       *)
(***************************************************************************)
EXTENDS Integers, FiniteSets

CONSTANTS
  Process,   \* processes that run init_db
  Object,    \* tables, columns, indexes, constraints
  Objects,   \* Objects[i]: what step i is to create
  Inline,    \* Inline[o]: what the statement that creates o brings along
  Needs,     \* Needs[o]: what must exist before o
  MaxFaults  \* bound on the times a process is stopped or a lock times out

Step == 1..7
Extension == 1    \* CREATE EXTENSION IF NOT EXISTS
Tables == 2       \* Base.metadata.create_all
Columns == 3      \* _apply_lightweight_migrations
Indexes == 4..6   \* _create_rag_indexes, _create_p1_..., _create_p2_...
Constraints == 7  \* _create_p6_constraints

ASSUME ObjectsAssumption == Objects \in [Step -> SUBSET Object]
ASSUME StatementAssumption ==
  Inline \in [Object -> SUBSET Object] /\ Needs \in [Object -> SUBSET Object]
ASSUME FaultsAssumption == MaxFaults \in Nat

VARIABLES
  schema,    \* the objects that exist
  violated,  \* the indexes and constraints that rows of the old database violate
  proc,      \* proc[p]: the step p is at, and what it has found missing
  faults     \* stops and lock timeouts so far

vars == <<schema, violated, proc, faults>>

Required == UNION {Objects[i] : i \in Step}
Complete == Required \subseteq schema

Phase == {"down", "checking", "applying", "serving"}
Down == [phase |-> "down", step |-> 1, missing |-> {}]

Init ==
  /\ schema \in SUBSET Required
  /\ \A o \in schema : Needs[o] \subseteq schema
  /\ violated \in SUBSET {o \in (UNION {Objects[i] : i \in Indexes \cup {Constraints}}) \ schema :
                           Needs[o] \subseteq schema}  \* a new table or column violates nothing
  /\ faults = 0
  /\ proc = [p \in Process |-> Down]

-----------------------------------------------------------------------------
\* docker compose: restart: unless-stopped
Start(p) ==
  /\ proc[p].phase = "down"
  /\ proc' = [proc EXCEPT ![p] = [phase |-> "checking", step |-> 1, missing |-> {}]]
  /\ UNCHANGED <<schema, violated, faults>>

AdvancedPast(i) ==  \* mutant: no end after the constraints
  [phase |-> "checking", step |-> i + 1, missing |-> {}]
\* the next step of init_db, or the end of it
Advanced(i) ==
  [phase |-> IF i = Constraints THEN "serving" ELSE "checking",
   step |-> IF i = Constraints THEN i ELSE i + 1, missing |-> {}]

MissingFirst(i) ==  \* mutant: what is there is taken for all that is needed
  IF Objects[i] \cap schema # {} THEN {} ELSE Objects[i]
Missing(i) == Objects[i] \ schema

\* read information_schema or pg_indexes; with nothing missing no transaction is opened
Check(p) ==
  LET i == proc[p].step IN
  /\ proc[p].phase = "checking"
  /\ proc' = [proc EXCEPT ![p] =
       IF Missing(i) = {} THEN Advanced(i)
       ELSE [phase |-> "applying", step |-> i, missing |-> Missing(i)]]
  /\ UNCHANGED <<schema, violated, faults>>

\* CREATE TABLE and ADD CONSTRAINT do not allow for the object being there already;
\* ADD COLUMN IF NOT EXISTS looks again under the table's lock; the other IF NOT EXISTS
\* look without one, and may collide with a transaction that is about to commit
MustFail(i, missing) ==
  \/ i \in {Tables, Constraints} /\ missing \cap schema # {}
  \/ missing \cap violated # {}
  \/ \E o \in missing : ~(Needs[o] \subseteq schema \cup missing)
MayFail(i, missing) == i \in Indexes \cup {Extension} /\ missing \cap schema # {}

\* the transaction of one step: all its statements, or none
Apply(p) ==
  LET i == proc[p].step
      missing == proc[p].missing
  IN
  /\ proc[p].phase = "applying"
  /\ ~MustFail(i, missing)
  /\ schema' = schema \cup missing \cup UNION {Inline[o] : o \in missing}
  /\ proc' = [proc EXCEPT ![p] = Advanced(i)]
  /\ UNCHANGED <<violated, faults>>

FailAndRetry(p) ==  \* mutant: the transaction is tried again without another look
  /\ proc[p].phase = "applying"
  /\ MustFail(proc[p].step, proc[p].missing) \/ MayFail(proc[p].step, proc[p].missing)
  /\ UNCHANGED vars

\* the exception leaves init_db and ends the process
Fail(p) ==
  /\ proc[p].phase = "applying"
  /\ MustFail(proc[p].step, proc[p].missing) \/ MayFail(proc[p].step, proc[p].missing)
  /\ proc' = [proc EXCEPT ![p] = Down]
  /\ UNCHANGED <<schema, violated, faults>>

Fault(p) ==
  /\ faults < MaxFaults
  /\ faults' = faults + 1
  /\ proc' = [proc EXCEPT ![p] = Down]
  /\ UNCHANGED <<schema, violated>>

\* SET lock_timeout = '5s', and live traffic or another start holds the table
LockTimeout(p) ==
  /\ proc[p].phase = "applying" /\ proc[p].step \in {Columns, Constraints}
  /\ Fault(p)

\* the container is stopped or replaced
Stop(p) ==
  /\ proc[p].phase # "down"
  /\ Fault(p)

-----------------------------------------------------------------------------
Startup(p) == Start(p) \/ Check(p) \/ Apply(p) \/ Fail(p)
Next == \E p \in Process : Startup(p) \/ LockTimeout(p) \/ Stop(p)

Spec == Init /\ [][Next]_vars

\* A process runs, and one that has ended is started again.
Fairness == \A p \in Process : WF_vars(Startup(p))
FairSpec == Spec /\ Fairness
-----------------------------------------------------------------------------
(***************************************************************************)
(* Properties.                                                             *)
(***************************************************************************)

\* The values every variable takes.
TypeOK ==
  /\ schema \subseteq Object
  /\ violated \subseteq Object
  /\ faults \in 0..MaxFaults
  /\ proc \in [Process -> [phase : Phase, step : Step, missing : SUBSET Object]]

\* No process serves on a schema that lacks a table, column, index or constraint of
\* init_db's lists, however the starts interleave, fail and repeat.
ServesComplete == (\E p \in Process : proc[p].phase = "serving") => Complete

\* Starts that collide do not keep each other down: with data that satisfies the new
\* constraints, once
\* nobody is stopped any more every process serves, and stays up.
EveryoneServes == violated = {} => \A p \in Process : <>[](proc[p].phase = "serving")

=============================================================================
