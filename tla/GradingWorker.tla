--------------------------- MODULE GradingWorker ---------------------------
(***************************************************************************)
(* Durable silent grading: app/worker/grading_worker.py with the functions *)
(* of app/services/assessment_service.py it calls.                         *)
(*                                                                         *)
(* The API accepts an answer and its grading_job row in one transaction.   *)
(* Worker processes claim jobs under a lease, call the grader with no row  *)
(* lock held, write the grade and, when it was the last one, stamp the     *)
(* session aggregate.  A manual grader (grade_pending_answer) does the     *)
(* same without a job.  Every step is one database statement, or a group   *)
(* of statements that no other transaction can separate, under             *)
(* PostgreSQL's READ COMMITTED.                                            *)
(*                                                                         *)
(* Row locks are not variables: a transaction that has flushed holds the   *)
(* lock of its answer row (and of its job row, for a worker), and one that *)
(* has run SELECT ... FOR UPDATE on the session holds that lock too, until *)
(* it commits or dies.                                                     *)
(*                                                                         *)
(* Time is abstract: a lease is live or expired, a job is due or not, and  *)
(* LeaseExpires and BackoffElapses let time pass.                          *)
(***************************************************************************)
EXTENDS AssessmentScoring

CONSTANTS
  Worker,              \* grading_worker processes
  Manual,              \* runs of grade_pending_answer
  MAX_ATTEMPTS,
  BATCH_SIZE,
  Malformed,           \* the grader answered, but not with a valid grade
  ProviderError,       \* openai.APIError
  MaxCrashes,          \* bound: crashes of worker and manual processes
  MaxContests          \* bound: leases that run out under a worker, and manual runs

ASSUME ProcessAssumption == Worker \cap Manual = {}
ASSUME AttemptsAssumption == MAX_ATTEMPTS \in Nat \ {0}
ASSUME BoundsAssumption == MaxCrashes \in Nat /\ MaxContests \in Nat
ASSUME OutcomeAssumption ==
  /\ Malformed # ProviderError /\ Malformed # Null /\ ProviderError # Null
  /\ Malformed \notin Scores /\ ProviderError \notin Scores

VARIABLES
  answered,     \* answered[s]: rows of assessment_answer for s, positions 1..answered[s]
  score,        \* score[a]: assessment_answer.score
  reason,       \* reason[a]: the outcome whose reason/lists the row holds
  job,          \* job[a]: the grading_job row of answer a
  completed,    \* completed[s]: assessment_session.completed_at IS NOT NULL
  stamp,        \* stamp[s]: the aggregate columns of assessment_session
  completions,  \* completions[s]: number of ASSESSMENT_COMPLETED events
  proc,         \* proc[p]: the transaction process p is in, with what it has read
  found,        \* found[w]: ids returned by w's last query and not yet handled
  crashes,
  contests,     \* leases that ran out under a worker, and manual runs, so far
  overran,      \* history: the answers whose lease ran out that way
  byHand        \* history: the answers grade_pending_answer took up

vars == <<answered, score, reason, job, completed, stamp, completions,
          proc, found, crashes, contests, overran, byHand>>
past == <<crashes, contests, overran, byHand>>
tables == <<answered, score, reason, job, completed, stamp, completions>>
results == <<score, reason, completed, stamp, completions>>

-----------------------------------------------------------------------------
Process == Worker \cup Manual
Outcome == Scores \cup {Malformed, ProviderError}

Status == {"ABSENT", "PENDING", "RUNNING", "RETRY", "COMPLETE", "FAILED"}
Job == [status : Status, attempts : 0..MAX_ATTEMPTS, lease : BOOLEAN, due : BOOLEAN]
NoJob  == [status |-> "ABSENT",  attempts |-> 0, lease |-> FALSE, due |-> FALSE]
NewJob == [status |-> "PENDING", attempts |-> 0, lease |-> FALSE, due |-> TRUE]

\* The phases of run_once: poll, claim, handle each id, or reconcile when idle.
\* "grading" to "locked" are the phases of one grading transaction.
Phase == {"idle", "polled", "working", "closing", "grading", "flushed", "locked",
          "reconciling", "inserting"}
Txn(phase, a, attempts, done) ==
  [phase |-> phase, ans |-> a, attempts |-> attempts, done |-> done,
   outcome |-> Null, stamping |-> FALSE]
At(phase) == Txn(phase, Null, 0, FALSE)
Idle == At("idle")
ProcState == [phase : Phase, ans : Answer \cup {Null}, attempts : 0..MAX_ATTEMPTS - 1,
              done : BOOLEAN, outcome : Outcome \cup {Null}, stamping : BOOLEAN]

InTxnOn(p, a, phases) == proc[p].phase \in phases /\ proc[p].ans = a

AnswerLocked(a) == \E p \in Process : InTxnOn(p, a, {"flushed", "locked"})
JobLocked(a) == \E w \in Worker : InTxnOn(w, a, {"flushed", "locked"})
SessionLockedNever(s) == FALSE  \* mutant: no FOR UPDATE on the session row
SessionLocked(s) ==
  \E p \in Process : proc[p].phase = "locked" /\ proc[p].ans[1] = s

Accepted(a) == a[2] <= answered[a[1]]
ExpiredAnyRunning(a) == job[a].status = "RUNNING"  \* mutant: lease not looked at
Expired(a) == job[a].status = "RUNNING" /\ ~job[a].lease
ClaimablePendingOnly(a) == job[a].status = "PENDING" /\ job[a].due  \* mutant: RETRY forgotten
Claimable(a) == job[a].status \in {"PENDING", "RETRY"} /\ job[a].due
Orphan(a) == Accepted(a) /\ score[a] = Null /\ job[a].status = "ABSENT"

\* the jobs a worker took from the queue and has not finished with
Held(w) ==
  {a \in Answer : \/ proc[w].phase \notin {"idle", "inserting"} /\ a \in found[w]
                  \/ InTxnOn(w, a, {"closing", "grading", "flushed", "locked"})}

-----------------------------------------------------------------------------
\* Sessions may date from before the job queue: answered in full, with no job.
Init ==
  /\ answered \in [Session -> {0, N}]
  /\ score = [a \in Answer |-> Null]
  /\ reason = [a \in Answer |-> Null]
  /\ job = [a \in Answer |-> NoJob]
  /\ completed = [s \in Session |-> FALSE]
  /\ stamp = [s \in Session |-> Null]
  /\ completions = [s \in Session |-> 0]
  /\ proc = [p \in Process |-> Idle]
  /\ found = [p \in Process |-> {}]
  /\ crashes = 0
  /\ contests = 0
  /\ overran = {}
  /\ byHand = {}

(***************************************************************************)
(* grade_answer, the branch that inserts: answer, event and job commit     *)
(* together under the session's row lock.                                  *)
(***************************************************************************)
AcceptAnswer(s) ==
  /\ ~SessionLocked(s)
  /\ answered[s] < N
  /\ answered' = [answered EXCEPT ![s] = @ + 1]
  /\ job' = [job EXCEPT ![<<s, answered[s] + 1>>] = NewJob]
  /\ UNCHANGED <<results, proc, found, past>>

(***************************************************************************)
(* run_once: reclaim, claim, then each job in turn; reconcile when the     *)
(* claim came back empty.                                                  *)
(***************************************************************************)
ReclaimStaleLeases(w) ==
  /\ proc[w] = Idle
  /\ \A a \in Answer : Expired(a) => ~JobLocked(a)
  /\ job' = [a \in Answer |->
               IF Expired(a) THEN [job[a] EXCEPT !.status = "PENDING"] ELSE job[a]]
  /\ proc' = [proc EXCEPT ![w] = At("polled")]
  /\ UNCHANGED <<answered, results, found, past>>

\* FOR UPDATE SKIP LOCKED: rows another transaction holds are passed over
Unlocked == {a \in Answer : Claimable(a) /\ ~JobLocked(a)}

ClaimBatch(w) ==
  /\ proc[w].phase = "polled"
  /\ \E ids \in SUBSET Unlocked :
       /\ ids # {}
       /\ Cardinality(ids) = BATCH_SIZE \/ (ids = Unlocked /\ Cardinality(ids) < BATCH_SIZE)
       /\ found' = [found EXCEPT ![w] = ids]
       /\ job' = [a \in Answer |->
                    IF a \in ids THEN [job[a] EXCEPT !.status = "RUNNING", !.lease = TRUE]
                                 ELSE job[a]]
  /\ proc' = [proc EXCEPT ![w] = At("working")]
  /\ UNCHANGED <<answered, results, past>>

ClaimNothing(w) ==
  /\ proc[w].phase = "polled"
  /\ Unlocked = {}
  /\ proc' = [proc EXCEPT ![w] = At("reconciling")]
  /\ UNCHANGED <<tables, found, past>>

FindOrphans(w) ==
  LET orphans == {a \in Answer : Orphan(a)} IN
  /\ proc[w].phase = "reconciling"
  /\ found' = [found EXCEPT ![w] = orphans]
  /\ proc' = [proc EXCEPT ![w] = IF orphans = {} THEN Idle ELSE At("inserting")]
  /\ UNCHANGED <<tables, past>>

\* grading_job.answer_id is UNIQUE: if another worker got there first the insert
\* fails, the exception leaves run_forever and the process restarts
InsertMissingJobs(w) ==
  /\ proc[w].phase = "inserting"
  /\ job' = IF \A a \in found[w] : job[a].status = "ABSENT"
              THEN [a \in Answer |-> IF a \in found[w] THEN NewJob ELSE job[a]]
              ELSE job
  /\ proc' = [proc EXCEPT ![w] = Idle]
  /\ found' = [found EXCEPT ![w] = {}]
  /\ UNCHANGED <<answered, results, past>>

-----------------------------------------------------------------------------
\* p's transaction ends: on to the next id of its batch, or back to polling
EndTxn(p) ==
  proc' = [proc EXCEPT ![p] = IF found[p] = {} THEN Idle ELSE At("working")]

(***************************************************************************)
(* process_job, up to the grader call.  It checks the status of the job,   *)
(* not who holds its lease.                                                *)
(***************************************************************************)
LoadJob(w, a) ==
  /\ proc[w].phase = "working"
  /\ a \in found[w]
  /\ found' = [found EXCEPT ![w] = @ \ {a}]
  /\ LET next == CASE job[a].status # "RUNNING" ->
                        IF found'[w] = {} THEN Idle ELSE At("working")
                   [] job[a].status = "RUNNING" /\ score[a] # Null ->
                        Txn("closing", a, 0, FALSE)
                   [] OTHER ->
                        Txn("grading", a, job[a].attempts, FALSE)
     IN proc' = [proc EXCEPT ![w] = next]
  /\ UNCHANGED <<tables, past>>

CloseGradedJob(w) ==
  LET a == proc[w].ans IN
  /\ proc[w].phase = "closing"
  /\ ~JobLocked(a)
  /\ job' = [job EXCEPT ![a].status = "COMPLETE"]
  /\ EndTxn(w)
  /\ UNCHANGED <<answered, results, found, past>>

ExhaustedEarly(w) == proc[w].attempts + 2 >= MAX_ATTEMPTS  \* mutant: one attempt short
ExhaustedLate(w) == proc[w].attempts >= MAX_ATTEMPTS       \* mutant: one attempt too many
Exhausted(w) == proc[w].attempts + 1 >= MAX_ATTEMPTS

\* the grader could not be reached and attempts remain: the answer is not touched
Reschedule(w) ==
  LET a == proc[w].ans IN
  /\ proc[w].phase = "grading"
  /\ ~Exhausted(w)
  /\ ~JobLocked(a)
  /\ job' = [job EXCEPT ![a] = [status |-> "RETRY", attempts |-> proc[w].attempts + 1,
                                lease |-> FALSE, due |-> FALSE]]
  /\ EndTxn(w)
  /\ UNCHANGED <<answered, results, found, past>>

\* grade_pending_answer, up to the grader call: it reads the session row here
LoadManual(m, a) ==
  /\ proc[m] = Idle
  /\ Accepted(a)
  /\ score[a] = Null
  /\ proc' = [proc EXCEPT ![m] = Txn("grading", a, 0, completed[a[1]])]
  /\ contests < MaxContests
  /\ contests' = contests + 1
  /\ byHand' = byHand \cup {a}
  /\ UNCHANGED <<tables, found, crashes, overran>>

(***************************************************************************)
(* The grader has answered g.  _persist_grade and session.flush write the  *)
(* grade (and a worker's job row) inside the transaction; the worker reads *)
(* the session row only now.                                               *)
(***************************************************************************)
Flush(p, g) ==
  LET a == proc[p].ans IN
  /\ proc[p].phase = "grading"
  /\ p \in Worker /\ g = ProviderError => Exhausted(p)
  /\ ~AnswerLocked(a)
  /\ proc' = [proc EXCEPT ![p].phase = "flushed", ![p].outcome = g,
                          ![p].done = IF p \in Worker THEN completed[a[1]] ELSE @]
  /\ UNCHANGED <<tables, found, past>>

\* the status of a job after a terminal attempt
FinalStatusByScore(g) == IF g \in Scores THEN "COMPLETE" ELSE "FAILED"  \* mutant
FinalStatus(g) == IF g = ProviderError THEN "FAILED" ELSE "COMPLETE"

ScoreOf(g) == IF g \in Scores THEN g ELSE Null

\* score[a] once p commits.  The ORM writes the attributes that differ from what the
\* transaction loaded: a NULL score equals the NULL it loaded and is not written.
PersistedAlways(p) == ScoreOf(proc[p].outcome)  \* mutant: every column written
Persisted(p) == IF proc[p].outcome \in Scores THEN proc[p].outcome ELSE score[proc[p].ans]

(***************************************************************************)
(* _maybe_stamp_completion: lock the session row, decide.  completed_at is *)
(* the value read before the lock (the ORM does not refresh an object it   *)
(* already holds); the two counts are fresh.                               *)
(***************************************************************************)
LockSession(p) ==
  LET a == proc[p].ans
      s == a[1]
      inDatabase == [score EXCEPT ![a] = Persisted(p)]
  IN
  /\ proc[p].phase = "flushed"
  /\ ~SessionLocked(s)
  /\ proc' = [proc EXCEPT ![p].phase = "locked",
                          ![p].stamping = ~proc[p].done /\ AllGraded(s, answered[s], inDatabase)]
  /\ UNCHANGED <<tables, found, past>>

(***************************************************************************)
(* The aggregate of _summary, computed under the lock from the committed   *)
(* rows and the transaction's own copy of the answer it graded.  One       *)
(* without any score has overall_score None, which the ORM does not write  *)
(* over the None it loaded: the columns of an earlier stamp survive it.    *)
(***************************************************************************)
Stamped(p) ==
  LET a == proc[p].ans
      s == a[1]
      new == Summary(s, [score EXCEPT ![a] = ScoreOf(proc[p].outcome)])
  IN IF completed[s] /\ new.count = 0 THEN [stamp[s] EXCEPT !.passed = new.passed] ELSE new

CommitGrade(p) ==
  LET a == proc[p].ans
      s == a[1]
  IN
  /\ proc[p].phase = "locked"
  /\ score' = [score EXCEPT ![a] = Persisted(p)]
  /\ reason' = [reason EXCEPT ![a] = proc[p].outcome]
  /\ job' = IF p \in Worker
              THEN [job EXCEPT ![a].attempts = proc[p].attempts + 1,
                               ![a].status = FinalStatus(proc[p].outcome)]
              ELSE job
  /\ IF proc[p].stamping
       THEN /\ completed' = [completed EXCEPT ![s] = TRUE]
            /\ stamp' = [stamp EXCEPT ![s] = Stamped(p)]
            /\ completions' = [completions EXCEPT ![s] = @ + 1]
       ELSE UNCHANGED <<completed, stamp, completions>>
  /\ EndTxn(p)
  /\ UNCHANGED <<answered, found, past>>

-----------------------------------------------------------------------------
\* The process dies, or an exception other than APIError escapes run_forever: the
\* database rolls the open transaction back and docker restarts the process.
Crash(p) ==
  /\ proc[p] # Idle
  /\ crashes < MaxCrashes
  /\ crashes' = crashes + 1
  /\ proc' = [proc EXCEPT ![p] = Idle]
  /\ found' = [found EXCEPT ![p] = {}]
  /\ UNCHANGED <<tables, contests, overran, byHand>>

\* lease_expires_at passes: after a crash, or because the worker's next poll is late
LeaseExpires(a) ==
  /\ job[a].status = "RUNNING" /\ job[a].lease
  /\ \A w \in Worker : a \notin Held(w)
  /\ job' = [job EXCEPT ![a].lease = FALSE]
  /\ UNCHANGED <<answered, results, proc, found, past>>

\* It passes while a worker is still at the job: nothing renews a lease, and grading the
\* jobs of a batch one after the other may take longer than LEASE_SECONDS.
LeaseOverruns(a) ==
  /\ job[a].status = "RUNNING" /\ job[a].lease
  /\ \E w \in Worker : a \in Held(w)
  /\ contests < MaxContests
  /\ contests' = contests + 1
  /\ overran' = overran \cup {a}
  /\ job' = [job EXCEPT ![a].lease = FALSE]
  /\ UNCHANGED <<answered, results, proc, found, crashes, byHand>>

BackoffElapses(a) ==
  /\ job[a].status # "ABSENT" /\ ~job[a].due
  /\ job' = [job EXCEPT ![a].due = TRUE]
  /\ UNCHANGED <<answered, results, proc, found, past>>

-----------------------------------------------------------------------------
GradeStep(p) == (\E g \in Outcome : Flush(p, g)) \/ LockSession(p) \/ CommitGrade(p)

WorkerStep(w) ==
  \/ ReclaimStaleLeases(w) \/ ClaimBatch(w) \/ ClaimNothing(w)
  \/ FindOrphans(w) \/ InsertMissingJobs(w)
  \/ \E a \in Answer : LoadJob(w, a)
  \/ CloseGradedJob(w) \/ Reschedule(w)
  \/ GradeStep(w)

ManualStep(m) == (\E a \in Answer : LoadManual(m, a)) \/ GradeStep(m)

Next ==
  \/ \E s \in Session : AcceptAnswer(s)
  \/ \E w \in Worker : WorkerStep(w)
  \/ \E m \in Manual : ManualStep(m)
  \/ \E p \in Process : Crash(p)
  \/ \E a \in Answer : LeaseExpires(a) \/ LeaseOverruns(a) \/ BackoffElapses(a)

Spec == Init /\ [][Next]_vars

(***************************************************************************)
(* The worker loop never stops, a manual run that was begun ends (the      *)
(* grader call has a timeout), and the wall clock advances; nobody owes    *)
(* the system another answer, a manual run, a crash or an overrun.         *)
(***************************************************************************)
Fairness ==
  /\ \A w \in Worker : WF_vars(WorkerStep(w))
  /\ \A m \in Manual : WF_vars(GradeStep(m))
  /\ \A a \in Answer : WF_vars(LeaseExpires(a)) /\ WF_vars(BackoffElapses(a))

FairSpec == Spec /\ Fairness
-----------------------------------------------------------------------------
(***************************************************************************)
(* Properties.                                                             *)
(***************************************************************************)

\* The values every variable takes (stamp[s], Null or a Summary, is left open).
TypeOK ==
  /\ answered \in [Session -> 0..N]
  /\ score \in [Answer -> Scores \cup {Null}]
  /\ reason \in [Answer -> Outcome \cup {Null}]
  /\ job \in [Answer -> Job]
  /\ completed \in [Session -> BOOLEAN]
  /\ stamp = [s \in Session |-> stamp[s]]
  /\ completions \in [Session -> Nat]
  /\ proc \in [Process -> ProcState]
  /\ found \in [Process -> SUBSET Answer]
  /\ crashes \in 0..MaxCrashes
  /\ contests \in 0..MaxContests
  /\ overran \subseteq Answer
  /\ byHand \subseteq Answer

\* A session is completed exactly when every question has a scored answer, whatever the
\* interleaving of workers, manual graders, crashes and expired leases: of two
\* transactions that write the last two grades, one sees the other's and stamps
\* (_maybe_stamp_completion's row lock), and none stamps early.
CompletedIffGraded ==
  \A s \in Session : completed[s] <=> AllGraded(s, answered[s], score)

\* A grade on record is never erased: a late grader that failed (malformed output,
\* provider error) may race one that succeeded, and must not put NULL back.
GradeNeverErased ==
  [][\A a \in Answer : score[a] # Null => score'[a] # Null]_vars

\* FAILED means that the retry budget was spent, also when workers that lost their
\* lease record attempts counted from the number they had loaded.
FailedAfterAllAttempts ==
  \A a \in Answer : job[a].status = "FAILED" => job[a].attempts = MAX_ATTEMPTS

\* claim_batch: two workers never work on the same job, unless its lease ran out under
\* the worker that held it; crashes, reclaims, retries and manual runs do not matter.
ExclusiveWork ==
  \A v, w \in Worker : v # w => Held(v) \cap Held(w) \subseteq overran

\* The answers two graders may have worked on.
Contested == overran \cup byHand

\* The job row tells what happened to an answer that was never contested, and all of the
\* row comes from one grading: COMPLETE means a score with its own reason, or a malformed
\* verdict; FAILED means no score and a provider error; a job still in the queue means an
\* untouched answer.
JobTellsOutcome ==
  \A a \in Answer \ Contested :
    CASE job[a].status = "COMPLETE" -> \/ score[a] # Null /\ reason[a] = score[a]
                                       \/ score[a] = Null /\ reason[a] = Malformed
      [] job[a].status = "FAILED" -> score[a] = Null /\ reason[a] = ProviderError
      [] OTHER -> score[a] = Null /\ reason[a] = Null

\* A session none of whose answers was contested is stamped, and its completion event
\* recorded, exactly once, with the aggregate of the scores on record - although
\* completed_at is tested on an object loaded before the row lock.
CleanStamp ==
  \A s \in Session :
    (\A i \in Position : <<s, i>> \notin Contested) =>
      /\ completions[s] = IF completed[s] THEN 1 ELSE 0
      /\ completed[s] => stamp[s] = Summary(s, score)

\* A session is stamped at most once, whoever grades its last answers
\* (assessment_service.py:468-469: "only one transaction stamps", the other one "sees
\* `completed_at` already set and returns").
StampedOnce == \A s \in Session : completions[s] <= 1

\* Grading implements the ledger: no step of workers, manual graders, crashes, reclaims
\* and overruns is visible except accepting an answer, giving it its one score, stamping
\* the session together with the last score, and what two graders of one answer do.
Ledger == INSTANCE GradeLedger WITH
  answered <- answered, score <- score, completed <- completed, stamp <- stamp,
  contested <- Contested
ImplementsLedger == Ledger!Spec

\* Every accepted answer ends with COMPLETE or FAILED grading evidence
\* (PRODUCTION_READINESS_TODO.md:358), also when its worker crashes or loses its lease, its
\* row predates the queue, or every attempt fails; the reconciler makes no job for a row
\* without one that somebody graded by hand.
Settled(a) ==
  \/ job[a].status \in {"COMPLETE", "FAILED"}
  \/ job[a].status = "ABSENT" /\ score[a] # Null
EveryAnswerSettled == \A a \in Answer : Accepted(a) ~> Settled(a)

=============================================================================
