------------------------ MODULE GradingWorkerProofs ------------------------
(***************************************************************************)
(* Theorems about GradingWorker, for any number of sessions, questions,    *)
(* workers, manual graders, attempts and crashes.                          *)
(***************************************************************************)
EXTENDS GradingWorker, FiniteSetTheorems, TLAPS

\* A job that may still be graded has attempts left.
JobInv ==
  /\ job \in [Answer -> Job]
  /\ \A a \in Answer : job[a].status \in {"PENDING", "RUNNING", "RETRY"}
                           => job[a].attempts < MAX_ATTEMPTS

\* A transaction past loading its job knows the answer it is about.
ProcInv ==
  /\ proc \in [Process -> ProcState]
  /\ \A p \in Process :
       /\ proc[p].phase \in {"closing", "grading", "flushed", "locked"} => proc[p].ans \in Answer
       /\ proc[p].phase \in {"flushed", "locked"} => proc[p].outcome \in Outcome

RestInv ==
  /\ answered \in [Session -> 0..N]
  /\ score \in [Answer -> Scores \cup {Null}]
  /\ reason \in [Answer -> Outcome \cup {Null}]
  /\ completed \in [Session -> BOOLEAN]
  /\ stamp = [s \in Session |-> stamp[s]]
  /\ completions \in [Session -> Nat]
  /\ found \in [Process -> SUBSET Answer]
  /\ crashes \in 0..MaxCrashes
  /\ contests \in 0..MaxContests
  /\ overran \subseteq Answer
  /\ byHand \subseteq Answer

TypeInv == JobInv /\ ProcInv /\ RestInv

LEMMA AnswerParts ==
  /\ \A s \in Session, i \in 1..N : <<s, i>> \in Answer
  /\ \A a \in Answer : a[1] \in Session /\ a[2] \in 1..N /\ a = <<a[1], a[2]>>
  BY DEF Answer, Position

USE DEF Job, NoJob, NewJob, Status, Phase, Txn, At, Idle, Process, Outcome, tables, results, past

LEMMA InitTypeInv == Init => TypeInv
  BY NAssumption, AttemptsAssumption, BoundsAssumption DEF Init, TypeInv, JobInv, ProcInv, RestInv, ProcState

LEMMA NextTypeInv == TypeInv /\ [Next]_vars => TypeInv'
<1> SUFFICES ASSUME JobInv, ProcInv, RestInv, [Next]_vars
             PROVE  JobInv' /\ ProcInv' /\ RestInv'
  BY DEF TypeInv
<1> USE AttemptsAssumption, BoundsAssumption
<1>1. ASSUME NEW s \in Session, AcceptAnswer(s) PROVE JobInv' /\ ProcInv' /\ RestInv'
  <2>1. JobInv'
    BY <1>1, NAssumption, AnswerParts DEF JobInv, AcceptAnswer, RestInv
  <2>2. ProcInv'
    BY <1>1 DEF ProcInv, ProcState, AcceptAnswer
  <2>3. RestInv'
    BY <1>1, NAssumption, AnswerParts DEF RestInv, AcceptAnswer
  <2>4. QED
    BY <2>1, <2>2, <2>3
<1>2. ASSUME NEW w \in Worker, ReclaimStaleLeases(w) PROVE JobInv' /\ ProcInv' /\ RestInv'
  <2>1. JobInv'
    BY <1>2 DEF JobInv, ReclaimStaleLeases, Expired
  <2>2. ProcInv'
    BY <1>2 DEF ProcInv, ProcState, ReclaimStaleLeases
  <2>3. RestInv'
    BY <1>2 DEF RestInv, ReclaimStaleLeases
  <2>4. QED
    BY <2>1, <2>2, <2>3
<1>3. ASSUME NEW w \in Worker, ClaimBatch(w) PROVE JobInv' /\ ProcInv' /\ RestInv'
  <2>a. PICK ids \in SUBSET Unlocked :
          /\ found' = [found EXCEPT ![w] = ids]
          /\ job' = [a \in Answer |->
                    IF a \in ids THEN [job[a] EXCEPT !.status = "RUNNING", !.lease = TRUE]
                                ELSE job[a]]
    BY <1>3 DEF ClaimBatch
  <2>b. proc' = [proc EXCEPT ![w] = At("working")]
    BY <1>3 DEF ClaimBatch
  <2>1. JobInv'
    BY <2>a, ZenonT(30) DEF JobInv, Claimable, Unlocked
  <2>2. ProcInv'
    BY <2>b DEF ProcInv, ProcState
  <2>3. RestInv'
    <3>1. ids \in SUBSET Answer
      BY DEF Unlocked
    <3>2. QED
      BY <1>3, <2>a, <3>1 DEF RestInv, ClaimBatch
  <2>4. QED
    BY <2>1, <2>2, <2>3
<1>4. ASSUME NEW w \in Worker, ClaimNothing(w) PROVE JobInv' /\ ProcInv' /\ RestInv'
  <2>1. JobInv'
    BY <1>4 DEF JobInv, ClaimNothing
  <2>2. ProcInv'
    BY <1>4 DEF ProcInv, ProcState, ClaimNothing
  <2>3. RestInv'
    BY <1>4 DEF RestInv, ClaimNothing
  <2>4. QED
    BY <2>1, <2>2, <2>3
<1>5. ASSUME NEW w \in Worker, FindOrphans(w) PROVE JobInv' /\ ProcInv' /\ RestInv'
  <2>1. JobInv'
    BY <1>5 DEF JobInv, FindOrphans
  <2>2. ProcInv'
    BY <1>5 DEF ProcInv, ProcState, FindOrphans
  <2>3. RestInv'
    BY <1>5 DEF RestInv, FindOrphans
  <2>4. QED
    BY <2>1, <2>2, <2>3
<1>6. ASSUME NEW w \in Worker, InsertMissingJobs(w) PROVE JobInv' /\ ProcInv' /\ RestInv'
  <2>1. JobInv'
    BY <1>6 DEF JobInv, InsertMissingJobs
  <2>2. ProcInv'
    BY <1>6 DEF ProcInv, ProcState, InsertMissingJobs
  <2>3. RestInv'
    BY <1>6 DEF RestInv, InsertMissingJobs
  <2>4. QED
    BY <2>1, <2>2, <2>3
<1>7. ASSUME NEW w \in Worker, NEW a \in Answer, LoadJob(w, a) PROVE JobInv' /\ ProcInv' /\ RestInv'
  <2>1. JobInv'
    BY <1>7 DEF JobInv, LoadJob
  <2>2. ProcInv'
    <3>1. CASE job[a].status # "RUNNING"
      BY <1>7, <3>1 DEF ProcInv, ProcState, LoadJob
    <3>2. CASE job[a].status = "RUNNING" /\ score[a] # Null
      BY <1>7, <3>2 DEF ProcInv, ProcState, LoadJob
    <3>3. CASE job[a].status = "RUNNING" /\ score[a] = Null
      <4>1. job[a].attempts \in 0..MAX_ATTEMPTS - 1
        BY <3>3 DEF JobInv
      <4>2. QED
        BY <1>7, <3>3, <4>1 DEF ProcInv, ProcState, LoadJob
    <3>4. QED
      BY <3>1, <3>2, <3>3
  <2>3. RestInv'
    BY <1>7 DEF RestInv, LoadJob
  <2>4. QED
    BY <2>1, <2>2, <2>3
<1>8. ASSUME NEW w \in Worker, CloseGradedJob(w) PROVE JobInv' /\ ProcInv' /\ RestInv'
  <2>1. JobInv'
    BY <1>8 DEF JobInv, CloseGradedJob, EndTxn, ProcInv, ProcState
  <2>2. ProcInv'
    BY <1>8 DEF ProcInv, ProcState, CloseGradedJob, EndTxn
  <2>3. RestInv'
    BY <1>8 DEF RestInv, CloseGradedJob, EndTxn
  <2>4. QED
    BY <2>1, <2>2, <2>3
<1>9. ASSUME NEW w \in Worker, Reschedule(w) PROVE JobInv' /\ ProcInv' /\ RestInv'
  <2>1. JobInv'
    BY <1>9 DEF JobInv, Reschedule, EndTxn, Exhausted, ProcInv, ProcState
  <2>2. ProcInv'
    BY <1>9 DEF ProcInv, ProcState, Reschedule, EndTxn
  <2>3. RestInv'
    BY <1>9 DEF RestInv, Reschedule, EndTxn
  <2>4. QED
    BY <2>1, <2>2, <2>3
<1>10. ASSUME NEW m \in Manual, NEW a \in Answer, LoadManual(m, a) PROVE JobInv' /\ ProcInv' /\ RestInv'
  <2>1. JobInv'
    BY <1>10 DEF JobInv, LoadManual
  <2>2. ProcInv'
    <3>1. completed[a[1]] \in BOOLEAN
      BY AnswerParts DEF RestInv
    <3>2. ASSUME NEW done \in BOOLEAN, proc' = [proc EXCEPT ![m] = Txn("grading", a, 0, done)]
          PROVE  ProcInv'
      BY <3>2 DEF ProcInv, ProcState
    <3>3. QED
      BY <1>10, <3>1, <3>2 DEF LoadManual
  <2>3. RestInv'
    BY <1>10 DEF RestInv, LoadManual
  <2>4. QED
    BY <2>1, <2>2, <2>3
<1>11. ASSUME NEW p \in Process, NEW g \in Outcome, Flush(p, g) PROVE JobInv' /\ ProcInv' /\ RestInv'
  <2>1. JobInv'
    BY <1>11 DEF JobInv, Flush
  <2>2. ProcInv'
    <3>1. proc[p].ans \in Answer
      BY <1>11 DEF Flush, ProcInv
    <3>2. completed[proc[p].ans[1]] \in BOOLEAN
      BY <3>1, AnswerParts DEF RestInv
    <3> DEFINE done == IF p \in Worker THEN completed[proc[p].ans[1]] ELSE proc[p].done
               new == [proc[p] EXCEPT !.phase = "flushed", !.outcome = g, !.done = done]
    <3>3. done \in BOOLEAN
      BY <3>2 DEF ProcInv, ProcState
    <3>4. proc' = [proc EXCEPT ![p] = new]
      BY <1>11 DEF Flush, ProcInv
    <3> HIDE DEF done
    <3>5. new \in ProcState /\ new.ans \in Answer /\ new.outcome \in Outcome
      BY <3>1, <3>3, ZenonT(30) DEF ProcInv, ProcState
    <3> HIDE DEF new
    <3>6. QED
      BY <3>4, <3>5 DEF ProcInv
  <2>3. RestInv'
    BY <1>11 DEF RestInv, Flush
  <2>4. QED
    BY <2>1, <2>2, <2>3
<1>12. ASSUME NEW p \in Process, LockSession(p) PROVE JobInv' /\ ProcInv' /\ RestInv'
  <2>1. JobInv'
    BY <1>12 DEF JobInv, LockSession
  <2>2. ProcInv'
    <3>1. PICK decision \in BOOLEAN :
            proc' = [proc EXCEPT ![p].phase = "locked", ![p].stamping = decision]
      BY <1>12 DEF LockSession, AllGraded
    <3>2. proc[p].phase = "flushed"
      BY <1>12 DEF LockSession
    <3> QED
      BY <3>1, <3>2, SMTT(20) DEF ProcInv, ProcState
  <2>3. RestInv'
    BY <1>12 DEF RestInv, LockSession
  <2>4. QED
    BY <2>1, <2>2, <2>3
<1>13. ASSUME NEW p \in Process, CommitGrade(p) PROVE JobInv' /\ ProcInv' /\ RestInv'
  <2>1. JobInv'
    BY <1>13, SMTT(20) DEF JobInv, CommitGrade, EndTxn, FinalStatus, ProcInv, ProcState
  <2>2. ProcInv'
    BY <1>13 DEF ProcInv, ProcState, CommitGrade, EndTxn
  <2>3. RestInv'
    <3>1. proc[p].ans \in Answer /\ proc[p].ans[1] \in Session /\ proc[p].outcome \in Outcome
      BY <1>13, AnswerParts DEF CommitGrade, ProcInv
    <3>2. Persisted(p) \in Scores \cup {Null}
      BY <3>1 DEF Persisted, RestInv
    <3>3. score' \in [Answer -> Scores \cup {Null}] /\ reason' \in [Answer -> Outcome \cup {Null}]
      BY <1>13, <3>1, <3>2 DEF CommitGrade, RestInv
    <3>4. CASE proc[p].stamping
      <4>1. stamp' = [s \in Session |-> stamp'[s]]
        BY <1>13, <3>1, <3>4 DEF CommitGrade, RestInv
      <4>2. completed' \in [Session -> BOOLEAN]
        BY <1>13, <3>1, <3>4 DEF CommitGrade, RestInv
      <4>4. completions' \in [Session -> Nat]
        BY <1>13, <3>1, <3>4 DEF CommitGrade, RestInv
      <4>3. QED
        BY <1>13, <3>3, <4>1, <4>2, <4>4 DEF CommitGrade, RestInv
    <3>5. CASE ~proc[p].stamping
      BY <1>13, <3>3, <3>5 DEF CommitGrade, RestInv
    <3>6. QED
      BY <3>4, <3>5
  <2>4. QED
    BY <2>1, <2>2, <2>3
<1>14. ASSUME NEW p \in Process, Crash(p) PROVE JobInv' /\ ProcInv' /\ RestInv'
  <2>1. JobInv'
    BY <1>14 DEF JobInv, Crash
  <2>2. ProcInv'
    BY <1>14 DEF ProcInv, ProcState, Crash
  <2>3. RestInv'
    BY <1>14 DEF RestInv, Crash
  <2>4. QED
    BY <2>1, <2>2, <2>3
<1>15. ASSUME NEW a \in Answer, LeaseExpires(a) \/ LeaseOverruns(a) PROVE JobInv' /\ ProcInv' /\ RestInv'
  <2>a. job' = [job EXCEPT ![a].lease = FALSE]
    BY <1>15 DEF LeaseExpires, LeaseOverruns
  <2>1. JobInv'
    BY <2>a DEF JobInv
  <2>2. ProcInv'
    BY <1>15 DEF ProcInv, ProcState, LeaseExpires, LeaseOverruns
  <2>3. RestInv'
    BY <1>15 DEF RestInv, LeaseExpires, LeaseOverruns
  <2>4. QED
    BY <2>1, <2>2, <2>3
<1>16. ASSUME NEW a \in Answer, BackoffElapses(a) PROVE JobInv' /\ ProcInv' /\ RestInv'
  <2>1. JobInv'
    BY <1>16 DEF JobInv, BackoffElapses
  <2>2. ProcInv'
    BY <1>16 DEF ProcInv, ProcState, BackoffElapses
  <2>3. RestInv'
    BY <1>16 DEF RestInv, BackoffElapses
  <2>4. QED
    BY <2>1, <2>2, <2>3
<1>17. CASE UNCHANGED vars
  BY <1>17 DEF vars, JobInv, ProcInv, RestInv
<1>18. QED
  BY <1>1, <1>2, <1>3, <1>4, <1>5, <1>6, <1>7, <1>8, <1>9, <1>10, <1>11, <1>12, <1>13,
     <1>14, <1>15, <1>16, <1>17 DEF Next, WorkerStep, ManualStep, GradeStep

\* Every variable keeps its type in every behaviour.
THEOREM TypeCorrect == Spec => []TypeOK
<1>1. TypeInv => TypeOK
  BY DEF TypeInv, JobInv, ProcInv, RestInv, TypeOK
<1>2. QED
  BY <1>1, InitTypeInv, NextTypeInv, PTL DEF Spec

-----------------------------------------------------------------------------
(***************************************************************************)
(* A session is completed exactly when it is fully graded.                 *)
(*                                                                         *)
(* CompletedIffGraded is not inductive: whether the commit of a grade must *)
(* stamp was decided earlier, when its transaction locked the session row. *)
(* GradeInv says that the decision is still right at the commit, because   *)
(* the lock is exclusive (SessionLockInv), nobody else can change the      *)
(* session's answers while it is held (DecisionInv), and a completed_at    *)
(* read too early errs on the safe side (DoneInv).                         *)
(***************************************************************************)
InDatabase(p) == [score EXCEPT ![proc[p].ans] = Persisted(p)]

SessionLockInv ==
  \A p, q \in Process : p # q /\ proc[p].phase = "locked" /\ proc[q].phase = "locked"
                           => proc[p].ans[1] # proc[q].ans[1]

DoneInv ==
  \A p \in Process : proc[p].phase \in {"grading", "flushed", "locked"} /\ proc[p].done
                        => completed[proc[p].ans[1]]

DecisionInv ==
  \A p \in Process :
    LET s == proc[p].ans[1] IN
    proc[p].phase = "locked" =>
      (proc[p].stamping <=> ~proc[p].done /\ AllGraded(s, answered[s], InDatabase(p)))

GradeInv == SessionLockInv /\ DoneInv /\ DecisionInv /\ CompletedIffGraded

\* The answers of one session do not count for another.
LEMMA AllGradedOther ==
  ASSUME NEW sc, NEW a \in Answer, NEW v, NEW s \in Session, NEW n, a[1] # s
  PROVE  AllGraded(s, n, [sc EXCEPT ![a] = v]) <=> AllGraded(s, n, sc)
<1>1. ASSUME NEW i \in Position PROVE [sc EXCEPT ![a] = v][<<s, i>>] = sc[<<s, i>>]
  BY AnswerParts DEF Position
<1>2. QED
  BY <1>1 DEF AllGraded

\* Writing one more score keeps a fully graded session fully graded.
LEMMA AllGradedMonotone ==
  ASSUME NEW sc \in [Answer -> Scores \cup {Null}], NEW a \in Answer,
         NEW v, v # Null \/ v = sc[a], NEW s \in Session, NEW n, AllGraded(s, n, sc)
  PROVE  AllGraded(s, n, [sc EXCEPT ![a] = v])
<1>1. ASSUME NEW i \in Position PROVE [sc EXCEPT ![a] = v][<<s, i>>] # Null
  <2>1. <<s, i>> \in Answer /\ sc[<<s, i>>] # Null
    BY AnswerParts DEF AllGraded, Position
  <2>2. QED
    BY <2>1
<1>2. QED
  BY <1>1 DEF AllGraded

LEMMA InitGradeInv == Init => GradeInv
<1> SUFFICES ASSUME Init PROVE GradeInv
  OBVIOUS
<1>1. \A p \in Process : proc[p].phase = "idle"
  BY DEF Init
<1>2. ASSUME NEW s \in Session PROVE ~AllGraded(s, answered[s], score) /\ ~completed[s]
  <2>1. <<s, 1>> \in Answer /\ 1 \in Position
    BY AnswerParts, NAssumption DEF Position
  <2>2. score[<<s, 1>>] = Null
    BY <2>1 DEF Init
  <2>3. QED
    BY <2>1, <2>2 DEF Init, AllGraded
<1>3. QED
  BY <1>1, <1>2 DEF GradeInv, SessionLockInv, DoneInv, DecisionInv, CompletedIffGraded

\* Steps that change no answer and no session, and leave every transaction as it is or
\* in a phase before the session lock.
LEMMA FrameGradeInv ==
  ASSUME GradeInv, UNCHANGED <<answered, score, completed>>,
         \A q \in Process :
           \/ proc'[q] = proc[q]
           \/ proc'[q].phase \notin {"grading", "flushed", "locked"}
           \/ /\ proc'[q].phase \in {"grading", "flushed"}
              /\ proc'[q].done => completed[proc'[q].ans[1]]
  PROVE  GradeInv'
<1>1. SessionLockInv'
  BY DEF GradeInv, SessionLockInv
<1>2. DoneInv'
  BY DEF GradeInv, DoneInv
<1>3. DecisionInv'
  <2> SUFFICES ASSUME NEW p \in Process, proc'[p].phase = "locked"
               PROVE  LET s == proc[p].ans[1] IN
                      /\ proc'[p] = proc[p] /\ proc[p].phase = "locked"
                      /\ InDatabase(p)' = InDatabase(p)
    BY DEF GradeInv, DecisionInv
  <2>1. proc'[p] = proc[p]
    OBVIOUS
  <2>2. QED
    BY <2>1 DEF InDatabase, Persisted
<1>4. CompletedIffGraded'
  BY DEF GradeInv, CompletedIffGraded
<1>5. QED
  BY <1>1, <1>2, <1>3, <1>4 DEF GradeInv

-----------------------------------------------------------------------------
(***************************************************************************)
(* Nothing is graded, queued or worked on before it was accepted: what     *)
(* makes a session that receives its last answer an ungraded one.          *)
(***************************************************************************)
RowsAccepted ==
  \A a \in Answer : score[a] # Null \/ job[a].status # "ABSENT" => Accepted(a)
WorkAccepted ==
  \A p \in Process :
    /\ proc[p].phase \in {"closing", "grading", "flushed", "locked"} => Accepted(proc[p].ans)
    /\ \A a \in found[p] : Accepted(a)
AcceptedInv == RowsAccepted /\ WorkAccepted

\* No step takes an accepted answer back.
LEMMA AcceptedStable ==
  ASSUME TypeInv, [Next]_vars, NEW a \in Answer, Accepted(a)
  PROVE  Accepted(a)'
<1>1. a[1] \in Session /\ a[2] \in 1..N
  BY AnswerParts
<1>2. CASE \E s \in Session : AcceptAnswer(s)
  BY <1>1, <1>2, NAssumption DEF AcceptAnswer, Accepted, TypeInv, RestInv
<1>3. CASE answered' = answered
  BY <1>3 DEF Accepted
<1>4. QED
  BY <1>2, <1>3, ZenonT(40) DEF Next, WorkerStep, ManualStep, GradeStep, vars, ReclaimStaleLeases,
     ClaimBatch, ClaimNothing, FindOrphans, InsertMissingJobs, LoadJob, CloseGradedJob,
     Reschedule, LoadManual, Flush, LockSession, CommitGrade, Crash, LeaseExpires, LeaseOverruns,
     BackoffElapses

LEMMA InitAcceptedInv == Init => AcceptedInv
  BY DEF Init, AcceptedInv, RowsAccepted, WorkAccepted

LEMMA NextAcceptedInv == TypeInv /\ AcceptedInv /\ [Next]_vars => AcceptedInv'
<1> SUFFICES ASSUME TypeInv, JobInv, ProcInv, RestInv, RowsAccepted, WorkAccepted, [Next]_vars
             PROVE  RowsAccepted' /\ WorkAccepted'
  BY DEF TypeInv, AcceptedInv
<1>0. \A a \in Answer : Accepted(a) => Accepted(a)'
  BY AcceptedStable
<1>1. ASSUME NEW s \in Session, AcceptAnswer(s) PROVE RowsAccepted' /\ WorkAccepted'
  <2>1. RowsAccepted'
    <3>1. PICK b \in Answer : b = <<s, answered[s] + 1>>
      BY <1>1, AnswerParts, NAssumption DEF AcceptAnswer, RestInv
    <3>2. Accepted(b)'
      BY <1>1, <3>1 DEF AcceptAnswer, Accepted, RestInv
    <3>3. \A a \in Answer : a # b => job'[a] = job[a] /\ score'[a] = score[a]
      BY <1>1, <3>1 DEF AcceptAnswer, JobInv
    <3>4. QED
      BY <1>0, <3>2, <3>3 DEF RowsAccepted
  <2>2. WorkAccepted'
    BY <1>0, <1>1 DEF AcceptAnswer, WorkAccepted, ProcInv, RestInv
  <2>3. QED
    BY <2>1, <2>2
<1>2. ASSUME NEW w \in Worker, ReclaimStaleLeases(w) PROVE RowsAccepted' /\ WorkAccepted'
  <2>1. RowsAccepted'
    BY <1>0, <1>2 DEF ReclaimStaleLeases, RowsAccepted, Expired, JobInv, RestInv
  <2>2. WorkAccepted'
    BY <1>0, <1>2 DEF ReclaimStaleLeases, WorkAccepted, ProcInv, RestInv
  <2>3. QED
    BY <2>1, <2>2
<1>3. ASSUME NEW w \in Worker, ClaimBatch(w) PROVE RowsAccepted' /\ WorkAccepted'
  <2>1. RowsAccepted'
    <3>1. PICK ids \in SUBSET Unlocked :
            /\ found' = [found EXCEPT ![w] = ids]
            /\ job' = [a \in Answer |->
                    IF a \in ids THEN [job[a] EXCEPT !.status = "RUNNING", !.lease = TRUE]
                                ELSE job[a]]
      BY <1>3 DEF ClaimBatch
    <3>2. \A a \in ids : a \in Answer /\ Accepted(a)
      BY DEF Unlocked, Claimable, RowsAccepted
    <3>3. score' = score
      BY <1>3 DEF ClaimBatch
    <3>4. QED
      BY <1>0, <3>1, <3>2, <3>3 DEF RowsAccepted, JobInv
  <2>2. WorkAccepted'
    <3>1. PICK ids \in SUBSET Unlocked :
            /\ found' = [found EXCEPT ![w] = ids]
            /\ job' = [a \in Answer |->
                    IF a \in ids THEN [job[a] EXCEPT !.status = "RUNNING", !.lease = TRUE]
                                ELSE job[a]]
      BY <1>3 DEF ClaimBatch
    <3>2. \A a \in ids : a \in Answer /\ Accepted(a)
      BY DEF Unlocked, Claimable, RowsAccepted
    <3>3. proc' = [proc EXCEPT ![w] = At("working")]
      BY <1>3 DEF ClaimBatch
    <3>4. QED
      BY <1>0, <3>1, <3>2, <3>3 DEF WorkAccepted, ProcInv, RestInv
  <2>3. QED
    BY <2>1, <2>2
<1>4. ASSUME NEW w \in Worker, ClaimNothing(w) PROVE RowsAccepted' /\ WorkAccepted'
  <2>1. RowsAccepted'
    BY <1>0, <1>4 DEF ClaimNothing, RowsAccepted, JobInv, RestInv
  <2>2. WorkAccepted'
    BY <1>0, <1>4 DEF ClaimNothing, WorkAccepted, ProcInv, RestInv
  <2>3. QED
    BY <2>1, <2>2
<1>5. ASSUME NEW w \in Worker, FindOrphans(w) PROVE RowsAccepted' /\ WorkAccepted'
  <2>1. RowsAccepted'
    BY <1>0, <1>5 DEF FindOrphans, RowsAccepted, JobInv, RestInv
  <2>2. WorkAccepted'
    <3>1. \A a \in Answer : Orphan(a) => Accepted(a)
      BY DEF Orphan
    <3>2. QED
      BY <1>0, <1>5, <3>1 DEF FindOrphans, WorkAccepted, ProcInv, ProcState, RestInv
  <2>3. QED
    BY <2>1, <2>2
<1>6. ASSUME NEW w \in Worker, InsertMissingJobs(w) PROVE RowsAccepted' /\ WorkAccepted'
  <2>1. RowsAccepted'
    <3>1. \A a \in found[w] : Accepted(a)
      BY DEF WorkAccepted
    <3>2. \A a \in Answer : job'[a] = job[a] \/ a \in found[w]
      BY <1>6 DEF InsertMissingJobs, JobInv
    <3>3. score' = score
      BY <1>6 DEF InsertMissingJobs
    <3>4. QED
      BY <1>0, <3>1, <3>2, <3>3 DEF RowsAccepted
  <2>2. WorkAccepted'
    BY <1>0, <1>6 DEF InsertMissingJobs, WorkAccepted, ProcInv, RestInv
  <2>3. QED
    BY <2>1, <2>2
<1>7. ASSUME NEW w \in Worker, NEW a \in Answer, LoadJob(w, a) PROVE RowsAccepted' /\ WorkAccepted'
  <2>1. RowsAccepted'
    BY <1>0, <1>7 DEF LoadJob, RowsAccepted, JobInv, RestInv
  <2>2. WorkAccepted'
    BY <1>0, <1>7 DEF LoadJob, WorkAccepted, ProcInv, RestInv
  <2>3. QED
    BY <2>1, <2>2
<1>8. ASSUME NEW w \in Worker, CloseGradedJob(w) PROVE RowsAccepted' /\ WorkAccepted'
  <2>1. RowsAccepted'
    <3>1. proc[w].ans \in Answer /\ Accepted(proc[w].ans)
      BY <1>8 DEF CloseGradedJob, ProcInv, WorkAccepted
    <3>2. \A a \in Answer : job'[a] = job[a] \/ a = proc[w].ans
      BY <1>8 DEF CloseGradedJob, JobInv
    <3>3. score' = score
      BY <1>8 DEF CloseGradedJob
    <3>4. QED
      BY <1>0, <3>1, <3>2, <3>3 DEF RowsAccepted
  <2>2. WorkAccepted'
    BY <1>0, <1>8 DEF CloseGradedJob, EndTxn, WorkAccepted, ProcInv, RestInv
  <2>3. QED
    BY <2>1, <2>2
<1>9. ASSUME NEW w \in Worker, Reschedule(w) PROVE RowsAccepted' /\ WorkAccepted'
  <2>1. RowsAccepted'
    <3>1. proc[w].ans \in Answer /\ Accepted(proc[w].ans)
      BY <1>9 DEF Reschedule, ProcInv, WorkAccepted
    <3>2. \A a \in Answer : job'[a] = job[a] \/ a = proc[w].ans
      BY <1>9 DEF Reschedule, JobInv
    <3>3. score' = score
      BY <1>9 DEF Reschedule
    <3>4. QED
      BY <1>0, <3>1, <3>2, <3>3 DEF RowsAccepted
  <2>2. WorkAccepted'
    BY <1>0, <1>9 DEF Reschedule, EndTxn, WorkAccepted, ProcInv, RestInv
  <2>3. QED
    BY <2>1, <2>2
<1>10. ASSUME NEW m \in Manual, NEW a \in Answer, LoadManual(m, a) PROVE RowsAccepted' /\ WorkAccepted'
  <2>1. RowsAccepted'
    BY <1>0, <1>10 DEF LoadManual, RowsAccepted, JobInv, RestInv
  <2>2. WorkAccepted'
    BY <1>0, <1>10 DEF LoadManual, WorkAccepted, ProcInv, RestInv
  <2>3. QED
    BY <2>1, <2>2
<1>11. ASSUME NEW p \in Process, NEW g \in Outcome, Flush(p, g) PROVE RowsAccepted' /\ WorkAccepted'
  <2>1. RowsAccepted'
    BY <1>0, <1>11 DEF Flush, RowsAccepted, JobInv, RestInv
  <2>2. WorkAccepted'
    BY <1>0, <1>11 DEF Flush, WorkAccepted, ProcInv, RestInv
  <2>3. QED
    BY <2>1, <2>2
<1>12. ASSUME NEW p \in Process, LockSession(p) PROVE RowsAccepted' /\ WorkAccepted'
  <2>1. RowsAccepted'
    BY <1>0, <1>12 DEF LockSession, RowsAccepted, JobInv, RestInv
  <2>2. WorkAccepted'
    BY <1>0, <1>12 DEF LockSession, WorkAccepted, ProcInv, RestInv
  <2>3. QED
    BY <2>1, <2>2
<1>13. ASSUME NEW p \in Process, CommitGrade(p) PROVE RowsAccepted' /\ WorkAccepted'
  <2>1. RowsAccepted'
    <3>1. proc[p].ans \in Answer /\ Accepted(proc[p].ans)
      BY <1>13 DEF CommitGrade, ProcInv, WorkAccepted
    <3>2. \A a \in Answer : a # proc[p].ans => job'[a] = job[a] /\ score'[a] = score[a]
      BY <1>13 DEF CommitGrade, JobInv, RestInv
    <3>4. QED
      BY <1>0, <3>1, <3>2 DEF RowsAccepted
  <2>2. WorkAccepted'
    BY <1>0, <1>13 DEF CommitGrade, EndTxn, WorkAccepted, ProcInv, RestInv
  <2>3. QED
    BY <2>1, <2>2
<1>14. ASSUME NEW p \in Process, Crash(p) PROVE RowsAccepted' /\ WorkAccepted'
  <2>1. RowsAccepted'
    BY <1>0, <1>14 DEF Crash, RowsAccepted, JobInv, RestInv
  <2>2. WorkAccepted'
    BY <1>0, <1>14 DEF Crash, WorkAccepted, ProcInv, RestInv
  <2>3. QED
    BY <2>1, <2>2
<1>15. ASSUME NEW a \in Answer, LeaseExpires(a) \/ LeaseOverruns(a) PROVE RowsAccepted' /\ WorkAccepted'
  <2>1. RowsAccepted'
    BY <1>0, <1>15 DEF LeaseExpires, LeaseOverruns, RowsAccepted, JobInv, RestInv
  <2>2. WorkAccepted'
    BY <1>0, <1>15 DEF LeaseExpires, LeaseOverruns, WorkAccepted, ProcInv, RestInv
  <2>3. QED
    BY <2>1, <2>2
<1>16. ASSUME NEW a \in Answer, BackoffElapses(a) PROVE RowsAccepted' /\ WorkAccepted'
  <2>1. RowsAccepted'
    BY <1>0, <1>16 DEF BackoffElapses, RowsAccepted, JobInv, RestInv
  <2>2. WorkAccepted'
    BY <1>0, <1>16 DEF BackoffElapses, WorkAccepted, ProcInv, RestInv
  <2>3. QED
    BY <2>1, <2>2
<1>17. CASE UNCHANGED vars
  BY <1>17 DEF vars, RowsAccepted, WorkAccepted, Accepted
<1>18. QED
  BY <1>1, <1>2, <1>3, <1>4, <1>5, <1>6, <1>7, <1>8, <1>9, <1>10, <1>11, <1>12, <1>13,
     <1>14, <1>15, <1>16, <1>17 DEF Next, WorkerStep, ManualStep, GradeStep

LEMMA NextGradeInv == TypeInv /\ AcceptedInv /\ GradeInv /\ [Next]_vars => GradeInv'
<1> SUFFICES ASSUME ProcInv, RestInv, RowsAccepted, GradeInv, [Next]_vars
             PROVE  GradeInv'
  BY DEF TypeInv, AcceptedInv
<1> DEFINE Before(q) ==
      \/ proc'[q] = proc[q]
      \/ proc'[q].phase \notin {"grading", "flushed", "locked"}
      \/ /\ proc'[q].phase \in {"grading", "flushed"}
         /\ proc'[q].done => completed[proc'[q].ans[1]]
<1>1. ASSUME NEW w \in Worker, ReclaimStaleLeases(w) PROVE GradeInv'
  <2>1. UNCHANGED <<answered, score, completed>>
    BY <1>1 DEF ReclaimStaleLeases
  <2>2. ASSUME NEW q \in Process PROVE Before(q)
    BY <1>1 DEF ReclaimStaleLeases, ProcInv, ProcState
  <2>3. QED
    BY <2>1, <2>2, FrameGradeInv
<1>2. ASSUME NEW w \in Worker, ClaimBatch(w) PROVE GradeInv'
  <2>1. UNCHANGED <<answered, score, completed>>
    BY <1>2 DEF ClaimBatch
  <2>2. ASSUME NEW q \in Process PROVE Before(q)
    BY <1>2 DEF ClaimBatch, ProcInv, ProcState
  <2>3. QED
    BY <2>1, <2>2, FrameGradeInv
<1>3. ASSUME NEW w \in Worker, ClaimNothing(w) PROVE GradeInv'
  <2>1. UNCHANGED <<answered, score, completed>>
    BY <1>3 DEF ClaimNothing
  <2>2. ASSUME NEW q \in Process PROVE Before(q)
    BY <1>3 DEF ClaimNothing, ProcInv, ProcState
  <2>3. QED
    BY <2>1, <2>2, FrameGradeInv
<1>4. ASSUME NEW w \in Worker, FindOrphans(w) PROVE GradeInv'
  <2>1. UNCHANGED <<answered, score, completed>>
    BY <1>4 DEF FindOrphans
  <2>2. ASSUME NEW q \in Process PROVE Before(q)
    BY <1>4 DEF FindOrphans, ProcInv, ProcState
  <2>3. QED
    BY <2>1, <2>2, FrameGradeInv
<1>5. ASSUME NEW w \in Worker, InsertMissingJobs(w) PROVE GradeInv'
  <2>1. UNCHANGED <<answered, score, completed>>
    BY <1>5 DEF InsertMissingJobs
  <2>2. ASSUME NEW q \in Process PROVE Before(q)
    BY <1>5 DEF InsertMissingJobs, ProcInv, ProcState
  <2>3. QED
    BY <2>1, <2>2, FrameGradeInv
<1>6. ASSUME NEW w \in Worker, NEW a \in Answer, LoadJob(w, a) PROVE GradeInv'
  <2>1. UNCHANGED <<answered, score, completed>>
    BY <1>6 DEF LoadJob
  <2>2. ASSUME NEW q \in Process PROVE Before(q)
    BY <1>6 DEF LoadJob, ProcInv, ProcState
  <2>3. QED
    BY <2>1, <2>2, FrameGradeInv
<1>7. ASSUME NEW w \in Worker, CloseGradedJob(w) PROVE GradeInv'
  <2>1. UNCHANGED <<answered, score, completed>>
    BY <1>7 DEF CloseGradedJob
  <2>2. ASSUME NEW q \in Process PROVE Before(q)
    BY <1>7 DEF CloseGradedJob, EndTxn, ProcInv, ProcState
  <2>3. QED
    BY <2>1, <2>2, FrameGradeInv
<1>8. ASSUME NEW w \in Worker, Reschedule(w) PROVE GradeInv'
  <2>1. UNCHANGED <<answered, score, completed>>
    BY <1>8 DEF Reschedule
  <2>2. ASSUME NEW q \in Process PROVE Before(q)
    BY <1>8 DEF Reschedule, EndTxn, ProcInv, ProcState
  <2>3. QED
    BY <2>1, <2>2, FrameGradeInv
<1>9. ASSUME NEW m \in Manual, NEW a \in Answer, LoadManual(m, a) PROVE GradeInv'
  <2>1. UNCHANGED <<answered, score, completed>>
    BY <1>9 DEF LoadManual
  <2>2. ASSUME NEW q \in Process PROVE Before(q)
    BY <1>9 DEF LoadManual, ProcInv, ProcState
  <2>3. QED
    BY <2>1, <2>2, FrameGradeInv
<1>10. ASSUME NEW p \in Process, NEW g \in Outcome, Flush(p, g) PROVE GradeInv'
  <2>1. UNCHANGED <<answered, score, completed>>
    BY <1>10 DEF Flush
  <2>2. ASSUME NEW q \in Process PROVE Before(q)
    <3>1. CASE q # p
      BY <1>10, <3>1 DEF Flush, ProcInv
    <3>2. CASE q = p
      <4>1. proc[p].phase = "grading" /\ proc[p] \in ProcState
        BY <1>10 DEF Flush, ProcInv
      <4>2. proc'[p].phase = "flushed" /\ proc'[p].ans = proc[p].ans
        BY <1>10, <4>1 DEF Flush, ProcInv, ProcState
      <4>3. proc'[p].done = (IF p \in Worker THEN completed[proc[p].ans[1]] ELSE proc[p].done)
        BY <1>10, <4>1 DEF Flush, ProcInv, ProcState
      <4>4. proc[p].done => completed[proc[p].ans[1]]
        BY <4>1 DEF GradeInv, DoneInv
      <4>5. proc'[p].done => completed[proc'[p].ans[1]]
        BY <4>2, <4>3, <4>4
      <4>6. QED
        BY <3>2, <4>2, <4>5
    <3>3. QED
      BY <3>1, <3>2
  <2>3. QED
    BY <2>1, <2>2, FrameGradeInv
<1>11. ASSUME NEW p \in Process, Crash(p) PROVE GradeInv'
  <2>1. UNCHANGED <<answered, score, completed>>
    BY <1>11 DEF Crash
  <2>2. ASSUME NEW q \in Process PROVE Before(q)
    BY <1>11 DEF Crash, ProcInv, ProcState
  <2>3. QED
    BY <2>1, <2>2, FrameGradeInv
<1>12. ASSUME NEW a \in Answer, LeaseExpires(a) \/ LeaseOverruns(a) PROVE GradeInv'
  <2>1. UNCHANGED <<answered, score, completed>>
    BY <1>12 DEF LeaseExpires, LeaseOverruns
  <2>2. ASSUME NEW q \in Process PROVE Before(q)
    BY <1>12 DEF LeaseExpires, LeaseOverruns, ProcInv, ProcState
  <2>3. QED
    BY <2>1, <2>2, FrameGradeInv
<1>13. ASSUME NEW a \in Answer, BackoffElapses(a) PROVE GradeInv'
  <2>1. UNCHANGED <<answered, score, completed>>
    BY <1>13 DEF BackoffElapses
  <2>2. ASSUME NEW q \in Process PROVE Before(q)
    BY <1>13 DEF BackoffElapses, ProcInv, ProcState
  <2>3. QED
    BY <2>1, <2>2, FrameGradeInv
<1>14. ASSUME NEW p \in Process, LockSession(p) PROVE GradeInv'
  <2>1. UNCHANGED <<answered, score, completed>>
    BY <1>14 DEF LockSession
  <2>2. /\ proc'[p].ans = proc[p].ans /\ proc'[p].done = proc[p].done
        /\ proc'[p].outcome = proc[p].outcome /\ proc[p].phase = "flushed"
        /\ \A q \in Process : q # p => proc'[q] = proc[q]
    BY <1>14 DEF LockSession, ProcInv, ProcState
  <2>3. SessionLockInv'
    <3>1. \A q \in Process : proc[q].phase = "locked" => proc[q].ans[1] # proc[p].ans[1]
      BY <1>14 DEF LockSession, SessionLocked
    <3>2. QED
      BY <2>2, <3>1 DEF GradeInv, SessionLockInv
  <2>4. DoneInv'
    BY <2>1, <2>2 DEF GradeInv, DoneInv
  <2>5. DecisionInv'
    <3>1. \A q \in Process : InDatabase(q)' = InDatabase(q)
      BY <2>1, <2>2 DEF InDatabase, Persisted
    <3>2. proc'[p].stamping = (/\ ~proc[p].done
                              /\ AllGraded(proc[p].ans[1], answered[proc[p].ans[1]], InDatabase(p)))
      BY <1>14 DEF LockSession, InDatabase, ProcInv, ProcState
    <3>3. QED
      BY <2>1, <2>2, <3>1, <3>2 DEF GradeInv, DecisionInv
  <2>6. CompletedIffGraded'
    BY <2>1 DEF GradeInv, CompletedIffGraded
  <2>7. QED
    BY <2>3, <2>4, <2>5, <2>6 DEF GradeInv
<1>15. ASSUME NEW s \in Session, AcceptAnswer(s) PROVE GradeInv'
  <2>1. UNCHANGED <<score, completed, proc>>
    BY <1>15 DEF AcceptAnswer
  <2>2. /\ answered[s] \in 0..N - 1 /\ answered'[s] = answered[s] + 1
        /\ \A t \in Session : t # s => answered'[t] = answered[t]
    BY <1>15, NAssumption DEF AcceptAnswer, RestInv
  <2>3. SessionLockInv' /\ DoneInv'
    BY <2>1 DEF GradeInv, SessionLockInv, DoneInv
  <2>4. DecisionInv'
    <3> SUFFICES ASSUME NEW p \in Process, proc[p].phase = "locked"
                 PROVE  answered'[proc[p].ans[1]] = answered[proc[p].ans[1]]
      BY <2>1 DEF GradeInv, DecisionInv, InDatabase, Persisted
    <3>1. proc[p].ans[1] # s
      BY <1>15 DEF AcceptAnswer, SessionLocked
    <3>2. proc[p].ans[1] \in Session
      BY AnswerParts DEF ProcInv
    <3>3. QED
      BY <2>2, <3>1, <3>2
  <2>5. CompletedIffGraded'
    <3>1. ~completed[s]
      BY <2>2, NAssumption DEF GradeInv, CompletedIffGraded, AllGraded
    <3>2. ~AllGraded(s, answered'[s], score)
      <4>1. CASE answered[s] + 1 < N
        BY <2>2, <4>1, NAssumption DEF AllGraded
      <4>2. CASE answered[s] + 1 = N
        <5>0. N \in 1..N
          BY NAssumption
        <5>1. PICK b \in Answer : b = <<s, N>>
          BY <5>0, AnswerParts
        <5>2. ~Accepted(b)
          BY <2>2, <4>2, <5>1, NAssumption DEF Accepted
        <5>3. score[<<s, N>>] = Null
          BY <5>1, <5>2 DEF RowsAccepted
        <5>4. QED
          BY <5>3, NAssumption DEF AllGraded, Position
      <4>3. QED
        BY <2>2, <4>1, <4>2, NAssumption
    <3>3. QED
      BY <2>1, <2>2, <3>1, <3>2 DEF GradeInv, CompletedIffGraded
  <2>6. QED
    BY <2>3, <2>4, <2>5 DEF GradeInv
<1>16. ASSUME NEW p \in Process, CommitGrade(p) PROVE GradeInv'
  <2> DEFINE a == proc[p].ans
             s == a[1]
             v == Persisted(p)
  <2>1. /\ proc[p].phase = "locked" /\ a \in Answer /\ s \in Session
        /\ v # Null \/ v = score[a] 
        /\ answered' = answered
    BY <1>16, AnswerParts, ScoresAssumption DEF CommitGrade, ProcInv, Persisted
  <2>2. score' = [score EXCEPT ![a] = v]
    BY <1>16 DEF CommitGrade
  <2>3. \A q \in Process : proc'[q] = proc[q] \/ proc'[q].phase \in {"idle", "working"}
    BY <1>16 DEF CommitGrade, EndTxn, ProcInv
  <2>4. proc'[p].phase # "locked"
    BY <1>16 DEF CommitGrade, EndTxn, ProcInv
  <2>5. \A t \in Session : completed[t] => completed'[t]
    BY <1>16 DEF CommitGrade, RestInv
  <2>6. SessionLockInv'
    BY <2>3 DEF GradeInv, SessionLockInv
  <2>7. DoneInv'
    <3> SUFFICES ASSUME NEW q \in Process, proc'[q].phase \in {"grading", "flushed", "locked"},
                        proc'[q].done
                 PROVE  completed'[proc'[q].ans[1]]
      BY DEF DoneInv
    <3>1. proc'[q] = proc[q]
      BY <2>3
    <3>2. completed[proc[q].ans[1]] /\ proc[q].ans[1] \in Session
      BY <3>1, AnswerParts DEF GradeInv, DoneInv, ProcInv
    <3>3. QED
      BY <2>5, <3>1, <3>2
  <2>8. DecisionInv'
    <3> SUFFICES ASSUME NEW q \in Process, proc'[q].phase = "locked"
                 PROVE  /\ proc'[q] = proc[q]
                        /\ AllGraded(proc[q].ans[1], answered[proc[q].ans[1]], InDatabase(q)')
                             <=> AllGraded(proc[q].ans[1], answered[proc[q].ans[1]], InDatabase(q))
      BY <2>1 DEF GradeInv, DecisionInv
    <3>1. proc'[q] = proc[q] /\ q # p
      BY <2>3, <2>4
    <3> DEFINE t == proc[q].ans[1]
    <3>2. t # s /\ proc[q].ans \in Answer /\ t \in Session
      BY <2>1, <3>1, AnswerParts DEF GradeInv, SessionLockInv, ProcInv
    <3>3. ASSUME NEW i \in Position PROVE InDatabase(q)'[<<t, i>>] = InDatabase(q)[<<t, i>>]
      <4>1. PICK b \in Answer : b = <<t, i>>
        BY <3>2, AnswerParts DEF Position
      <4>2. b # a /\ proc[q].ans # a
        BY <3>2, <4>1
      <4>3. score'[b] = score[b] /\ score'[proc[q].ans] = score[proc[q].ans]
        BY <2>2, <3>2, <4>2 DEF RestInv
      <4>4. Persisted(q)' = Persisted(q)
        BY <3>1, <4>3 DEF Persisted
      <4>5. b \in DOMAIN score /\ b \in DOMAIN score'
        BY <2>2 DEF RestInv
      <4>6. InDatabase(q)'[b] = InDatabase(q)[b]
        BY <3>1, <4>3, <4>4, <4>5 DEF InDatabase
      <4>7. QED
        BY <4>1, <4>6
    <3>4. QED
      BY <3>1, <3>3 DEF AllGraded
  <2>9. CompletedIffGraded'
    <3> SUFFICES ASSUME NEW t \in Session
                 PROVE  completed'[t] <=> AllGraded(t, answered[t], score')
      BY <2>1 DEF CompletedIffGraded
    <3>1. completed[t] <=> AllGraded(t, answered[t], score)
      BY DEF GradeInv, CompletedIffGraded
    <3>2. CASE t # s
      <4>1. completed'[t] = completed[t]
        BY <1>16, <3>2 DEF CommitGrade, RestInv
      <4>2. QED
        BY <2>1, <2>2, <3>1, <3>2, <4>1, AllGradedOther
    <3>3. CASE t = s
      <4>1. AllGraded(s, answered[s], score) => AllGraded(s, answered[s], score')
        BY <2>1, <2>2, AllGradedMonotone DEF RestInv
      <4>2. proc[p].stamping <=> ~proc[p].done /\ AllGraded(s, answered[s], score')
        BY <2>1, <2>2 DEF GradeInv, DecisionInv, InDatabase
      <4>3. proc[p].done => completed[s]
        BY <2>1 DEF GradeInv, DoneInv
      <4>4. completed'[s] <=> completed[s] \/ proc[p].stamping
        BY <1>16, <2>1 DEF CommitGrade, RestInv
      <4>5. QED
        BY <3>1, <3>3, <4>1, <4>2, <4>3, <4>4
    <3>4. QED
      BY <3>2, <3>3
  <2>10. QED
    BY <2>6, <2>7, <2>8, <2>9 DEF GradeInv
<1>17. CASE UNCHANGED vars
  BY <1>17, FrameGradeInv DEF vars
<1>18. QED
  BY <1>1, <1>2, <1>3, <1>4, <1>5, <1>6, <1>7, <1>8,
     <1>9, <1>10, <1>11, <1>12, <1>13, <1>14, <1>15, <1>16, <1>17
     DEF Next, WorkerStep, ManualStep, GradeStep

\* In every behaviour a session is completed exactly when it is fully graded, however
\* many workers and manual graders race for its last scores and wherever they crash.
THEOREM SessionCompletedIffGraded == Spec => []CompletedIffGraded
<1>1. GradeInv => CompletedIffGraded
  BY DEF GradeInv
<1>2. QED
  BY <1>1, InitTypeInv, NextTypeInv, InitAcceptedInv, NextAcceptedInv, InitGradeInv,
     NextGradeInv, PTL DEF Spec

-----------------------------------------------------------------------------
(***************************************************************************)
(* What holds whatever happens to the leases: a score is never taken back, *)
(* and a job fails only when its attempts are spent.                       *)
(***************************************************************************)

\* What a commit writes over a score is a score: the ORM leaves a NULL it has not changed
\* out of its UPDATE (Persisted).
LEMMA CommitKeepsScores ==
  ASSUME RestInv, NEW p \in Process, CommitGrade(p)
  PROVE  \A a \in Answer : score[a] # Null => score'[a] # Null
<1>1. score' = [score EXCEPT ![proc[p].ans] = Persisted(p)]
  BY DEF CommitGrade
<1>2. score[proc[p].ans] # Null => Persisted(p) # Null
  BY ScoresAssumption DEF Persisted
<1>3. score \in [Answer -> Scores \cup {Null}]
  BY DEF RestInv
<1>4. QED
  BY <1>1, <1>2, <1>3

\* In every behaviour, no step of any process erases a score on record.
THEOREM GradesStay == Spec => GradeNeverErased
<1>1. TypeInv /\ [Next]_vars => [\A a \in Answer : score[a] # Null => score'[a] # Null]_vars
  <2>1. SUFFICES ASSUME RestInv, Next
                 PROVE  \A a \in Answer : score[a] # Null => score'[a] # Null
    BY DEF TypeInv
  <2>2. CASE \E p \in Process : CommitGrade(p)
    BY <2>1, <2>2, CommitKeepsScores
  <2>3. CASE UNCHANGED score
    BY <2>3
  <2>4. QED
    BY <2>1, <2>2, <2>3, ZenonT(40) DEF Next, WorkerStep, ManualStep, GradeStep, Process, tables, results,
       AcceptAnswer, ReclaimStaleLeases, ClaimBatch, ClaimNothing, FindOrphans,
       InsertMissingJobs, LoadJob, CloseGradedJob, Reschedule, LoadManual, Flush, LockSession,
       Crash, LeaseExpires, LeaseOverruns, BackoffElapses
<1>2. QED
  BY <1>1, InitTypeInv, NextTypeInv, PTL DEF Spec, GradeNeverErased

-----------------------------------------------------------------------------
(***************************************************************************)
(* FailedAfterAllAttempts is not inductive: a worker that is about to      *)
(* commit FAILED decided so at its flush.  FlushedInv says that it had no  *)
(* attempt left, whoever else has counted attempts on the row since.       *)
(***************************************************************************)
FlushedInv ==
  \A w \in Worker :
    proc[w].phase \in {"flushed", "locked"} /\ proc[w].outcome = ProviderError
      => proc[w].attempts + 1 = MAX_ATTEMPTS

FailedInv == FlushedInv /\ FailedAfterAllAttempts

\* The commit of a worker that writes FAILED writes MAX_ATTEMPTS with it; a manual
\* grader leaves the job alone.
LEMMA CommitFails ==
  ASSUME JobInv, ProcInv, FailedInv, NEW p \in Process, CommitGrade(p)
  PROVE  FailedAfterAllAttempts'
<1>1. CASE p \in Worker
  <2>1. job' = [job EXCEPT ![proc[p].ans].attempts = proc[p].attempts + 1,
                           ![proc[p].ans].status = FinalStatus(proc[p].outcome)]
    BY <1>1 DEF CommitGrade
  <2>2. FinalStatus(proc[p].outcome) = "FAILED" => proc[p].attempts + 1 = MAX_ATTEMPTS
    BY <1>1 DEF FinalStatus, FailedInv, FlushedInv, CommitGrade
  <2>3. job \in [Answer -> Job] /\ proc[p].ans \in Answer
    BY DEF JobInv, ProcInv, CommitGrade
  <2>4. QED
    BY <2>1, <2>2, <2>3 DEF FailedInv, FailedAfterAllAttempts, Job
<1>2. CASE p \notin Worker
  BY <1>2 DEF CommitGrade, FailedInv, FailedAfterAllAttempts
<1>3. QED
  BY <1>1, <1>2

\* FailedInv is inductive.
LEMMA NextFailedInv == TypeInv /\ FailedInv /\ [Next]_vars => FailedInv'
<1> SUFFICES ASSUME JobInv, ProcInv, RestInv, FlushedInv, FailedAfterAllAttempts, [Next]_vars
             PROVE  FlushedInv' /\ FailedAfterAllAttempts'
  BY DEF TypeInv, FailedInv
<1>1. FlushedInv'
  <2>1. ASSUME NEW p \in Process, NEW g \in Outcome, Flush(p, g) PROVE FlushedInv'
    BY <2>1, AttemptsAssumption DEF Flush, FlushedInv, Exhausted, ProcInv, ProcState, Process
  <2>2. ASSUME NEW p \in Process, LockSession(p) PROVE FlushedInv'
    BY <2>2 DEF LockSession, FlushedInv, ProcInv, ProcState, Process
  <2>3. ASSUME NEW p \in Process, proc'[p].phase \notin {"flushed", "locked"},
               \A q \in Process : q # p => proc'[q] = proc[q]
        PROVE  FlushedInv'
    BY <2>3 DEF FlushedInv, Process
  <2>4. CASE UNCHANGED proc
    BY <2>4 DEF FlushedInv
  <2>5. QED
    <3>1. ASSUME NEW w \in Worker, WorkerStep(w) PROVE FlushedInv'
      <4>1. w \in Process /\ w \in DOMAIN proc /\ proc \in [Process -> ProcState]
        BY DEF Process, ProcInv
      <4>2. CASE GradeStep(w)
        <5>1. CASE CommitGrade(w)
          BY <4>1, <5>1, <2>3 DEF CommitGrade, EndTxn, Txn, At, Idle
        <5>2. QED
          BY <4>1, <4>2, <5>1, <2>1, <2>2 DEF GradeStep
      <4>3. CASE ReclaimStaleLeases(w) \/ ClaimBatch(w) \/ ClaimNothing(w) \/ FindOrphans(w)
                   \/ InsertMissingJobs(w)
        <5>1. PICK phase \in {"polled", "working", "reconciling", "inserting", "idle"} :
                proc' = [proc EXCEPT ![w] = At(phase)]
          <6>1. CASE ReclaimStaleLeases(w)
            BY <6>1 DEF ReclaimStaleLeases
          <6>2. CASE ClaimBatch(w)
            BY <6>2 DEF ClaimBatch
          <6>3. CASE ClaimNothing(w)
            BY <6>3 DEF ClaimNothing
          <6>4. CASE FindOrphans(w)
            BY <6>4 DEF FindOrphans, Idle
          <6>5. CASE InsertMissingJobs(w)
            BY <6>5 DEF InsertMissingJobs, Idle
          <6>6. QED
            BY <4>3, <6>1, <6>2, <6>3, <6>4, <6>5
        <5>2. QED
          BY <4>1, <5>1, <2>3 DEF Txn, At
      <4>4. CASE CloseGradedJob(w) \/ Reschedule(w)
        BY <4>1, <4>4, <2>3 DEF CloseGradedJob, Reschedule, EndTxn, Txn, At, Idle
      <4>5. ASSUME NEW a \in Answer, LoadJob(w, a) PROVE FlushedInv'
        <5>1. PICK next \in {Idle, At("working"), Txn("closing", a, 0, FALSE),
                             Txn("grading", a, job[a].attempts, FALSE)} :
                proc' = [proc EXCEPT ![w] = next]
          <6>1. CASE job[a].status # "RUNNING"
            BY <4>5, <6>1 DEF LoadJob
          <6>2. CASE job[a].status = "RUNNING" /\ score[a] # Null
            BY <4>5, <6>2 DEF LoadJob
          <6>3. CASE job[a].status = "RUNNING" /\ score[a] = Null
            BY <4>5, <6>3 DEF LoadJob
          <6>4. QED
            BY <6>1, <6>2, <6>3
        <5>2. QED
          BY <4>1, <5>1, <2>3 DEF Txn, At, Idle
      <4>6. QED
        BY <3>1, <4>2, <4>3, <4>4, <4>5 DEF WorkerStep
    <3>2. ASSUME NEW m \in Manual, ManualStep(m) PROVE FlushedInv'
      <4>1. m \in Process /\ proc \in [Process -> ProcState]
        BY DEF Process, ProcInv
      <4>2. CASE CommitGrade(m)
        BY <4>1, <4>2, <2>3 DEF CommitGrade, EndTxn, Txn, At, Idle
      <4>3. ASSUME NEW a \in Answer, LoadManual(m, a) PROVE FlushedInv'
        BY <4>1, <4>3, <2>3 DEF LoadManual, Txn
      <4>4. QED
        BY <3>2, <4>1, <4>2, <4>3, <2>1, <2>2 DEF ManualStep, GradeStep
    <3>3. ASSUME NEW p \in Process, Crash(p) PROVE FlushedInv'
      BY <3>3, <2>3 DEF Crash, ProcInv, Txn, At, Idle
    <3>4. QED
      BY <3>1, <3>2, <3>3, <2>4 DEF Next, vars, AcceptAnswer, LeaseExpires, LeaseOverruns, BackoffElapses
<1>2. FailedAfterAllAttempts'
  <2>1. CASE \E p \in Process : CommitGrade(p)
    BY <2>1, CommitFails DEF FailedInv
  <2>2. ASSUME \A a \in Answer : job'[a].status = "FAILED" =>
                 job[a].status = "FAILED" /\ job'[a].attempts = job[a].attempts
        PROVE  FailedAfterAllAttempts'
    BY <2>2 DEF FailedAfterAllAttempts
  <2>3. ASSUME NEW w \in Worker,
               ReclaimStaleLeases(w) \/ ClaimBatch(w) \/ InsertMissingJobs(w)
                 \/ CloseGradedJob(w) \/ Reschedule(w)
        PROVE  FailedAfterAllAttempts'
    <3>1. job \in [Answer -> Job]
      BY DEF JobInv
    <3>2. CASE ReclaimStaleLeases(w)
      BY <2>2, <3>1, <3>2 DEF ReclaimStaleLeases, Job
    <3>3. CASE ClaimBatch(w)
      <4>1. PICK ids : job' = [a \in Answer |->
                    IF a \in ids THEN [job[a] EXCEPT !.status = "RUNNING", !.lease = TRUE]
                                ELSE job[a]]
        BY <3>3 DEF ClaimBatch
      <4>2. QED
        BY <2>2, <3>1, <4>1 DEF Job
    <3>4. CASE InsertMissingJobs(w)
      BY <2>2, <3>1, <3>4 DEF InsertMissingJobs, NewJob, Job
    <3>5. CASE CloseGradedJob(w)
      BY <2>2, <3>1, <3>5 DEF CloseGradedJob, Job
    <3>6. CASE Reschedule(w)
      BY <2>2, <3>1, <3>6 DEF Reschedule, Job
    <3>7. QED
      BY <2>3, <3>2, <3>3, <3>4, <3>5, <3>6
  <2>4. ASSUME NEW s \in Session, AcceptAnswer(s) PROVE FailedAfterAllAttempts'
    BY <2>2, <2>4 DEF AcceptAnswer, NewJob, JobInv, Job
  <2>5. ASSUME NEW a \in Answer, LeaseExpires(a) \/ LeaseOverruns(a) \/ BackoffElapses(a)
        PROVE  FailedAfterAllAttempts'
    BY <2>2, <2>5 DEF LeaseExpires, LeaseOverruns, BackoffElapses, JobInv, Job
  <2>6. CASE UNCHANGED job
    BY <2>6 DEF FailedAfterAllAttempts
  <2>7. QED
    BY <2>1, <2>3, <2>4, <2>5, <2>6 DEF Next, vars, WorkerStep, ManualStep, GradeStep, Process,
       tables, ClaimNothing, FindOrphans, LoadJob, LoadManual, Flush, LockSession, Crash
<1>3. QED
  BY <1>1, <1>2

\* In every behaviour a job is FAILED only after MAX_ATTEMPTS attempts.
THEOREM FailedMeansExhausted == Spec => []FailedAfterAllAttempts
<1>1. Init => FailedInv
  BY DEF Init, FailedInv, FlushedInv, FailedAfterAllAttempts, Idle, At, Txn, NoJob, Process
<1>2. FailedInv => FailedAfterAllAttempts
  BY DEF FailedInv
<1>3. QED
  BY <1>1, <1>2, InitTypeInv, NextTypeInv, NextFailedInv, PTL DEF Spec

-----------------------------------------------------------------------------
(***************************************************************************)
(* What holds of answers that no two graders worked on: an answer is       *)
(* contested from the moment its lease runs out under the worker that has  *)
(* its job, or a manual grader takes it up.  A job whose lease did not run *)
(* out has one worker at a time; the row of an answer that is not          *)
(* contested tells its outcome; a session without a contested answer is    *)
(* stamped once; and what contested answers may suffer is what GradeLedger *)
(* says.                                                                   *)
(*                                                                         *)
(* The argument goes through what a worker holds.  A job in a worker's     *)
(* batch whose lease did not run out stays RUNNING under a live lease      *)
(* until that worker is done with it (ExInv), so that its answer is still  *)
(* ungraded when the worker writes the grade (OutcomeInv), and the         *)
(* decision to stamp, taken at the session lock (GradeInv), is the         *)
(* decision of the ledger.                                                 *)
(***************************************************************************)
InTxn(w) == proc[w].phase \in {"closing", "grading", "flushed", "locked"}

\* A worker between batches has no ids left; the id it works on is no longer in its batch.
BatchInv ==
  \A w \in Worker :
    /\ proc[w].phase \in {"idle", "polled", "reconciling"} => found[w] = {}
    /\ InTxn(w) => proc[w].ans \notin found[w]

HeldInv ==
  \A w \in Worker : \A a \in Held(w) \ overran : job[a].status = "RUNNING" /\ job[a].lease

ExInv == BatchInv /\ HeldInv /\ ExclusiveWork

-----------------------------------------------------------------------------
LEMMA HeldIs ==
  ASSUME TypeInv, NEW w \in Worker, NEW a
  PROVE  a \in Held(w) <=>
           /\ a \in Answer
           /\ \/ proc[w].phase \notin {"idle", "inserting"} /\ a \in found[w]
              \/ InTxn(w) /\ proc[w].ans = a
  BY DEF Held, InTxnOn, InTxn

\* Steps that give no worker a new job.
LEMMA ShrinkEx ==
  ASSUME ExInv, BatchInv', \A w \in Worker : Held(w)' \subseteq Held(w), overran \subseteq overran',
         \A w \in Worker : \A a \in Held(w)' \ overran' :
           job'[a].status = "RUNNING" /\ job'[a].lease
  PROVE  ExInv'
<1>1. ExclusiveWork'
  BY DEF ExInv, ExclusiveWork
<1>2. QED
  BY <1>1 DEF ExInv, HeldInv

\* Steps that leave every worker's transaction and batch alone.
LEMMA SameWorkEx ==
  ASSUME ExInv, \A w \in Worker : proc'[w] = proc[w] /\ found'[w] = found[w],
         overran \subseteq overran',
         \A w \in Worker : \A a \in Held(w) \ overran' :
           job'[a].status = "RUNNING" /\ job'[a].lease
  PROVE  ExInv'
<1>1. \A w \in Worker : Held(w)' = Held(w)
  BY DEF Held, InTxnOn
<1>2. BatchInv'
  BY DEF ExInv, BatchInv, InTxn
<1>3. QED
  BY <1>1, <1>2, ShrinkEx

\* Steps of one worker that let go of what it holds, or part of it.
LEMMA LetGoEx ==
  ASSUME TypeInv, ExInv, NEW w \in Worker,
         \A v \in Worker \ {w} : proc'[v] = proc[v] /\ found'[v] = found[v],
         Held(w)' \subseteq Held(w),
         proc'[w].phase \in {"idle", "polled", "reconciling"} => found'[w] = {},
         InTxn(w)' => proc'[w].ans \notin found'[w],
         overran' = overran,
         \A v \in Worker : \A a \in Held(v)' \ overran :
           job'[a].status = job[a].status /\ job'[a].lease = job[a].lease
  PROVE  ExInv'
<1>1. \A v \in Worker \ {w} : Held(v)' = Held(v)
  BY DEF Held, InTxnOn
<1>2. BatchInv'
  BY DEF ExInv, BatchInv, InTxn
<1>3. \A v \in Worker : Held(v)' \subseteq Held(v)
  BY <1>1
<1>4. \A v \in Worker : \A a \in Held(v)' \ overran :
        job'[a].status = "RUNNING" /\ job'[a].lease
  BY <1>3 DEF ExInv, HeldInv
<1>5. QED
  BY <1>2, <1>3, <1>4, ShrinkEx

\* The transaction of w ends, and its job is no longer its own.
LEMMA EndTxnEx ==
  ASSUME TypeInv, ExInv, NEW w \in Worker, InTxn(w), EndTxn(w), UNCHANGED <<found, overran>>,
         \A b \in Answer \ {proc[w].ans} : job'[b] = job[b]
  PROVE  ExInv'
<1> DEFINE a == proc[w].ans
<1>1. proc' = [proc EXCEPT ![w] = IF found[w] = {} THEN Idle ELSE At("working")]
      /\ proc \in [Process -> ProcState] /\ w \in Process
  BY DEF EndTxn, TypeInv, ProcInv, Process
<1>2. \A v \in Worker \ {w} : proc'[v] = proc[v] /\ found'[v] = found[v]
  BY <1>1
<1>3. \/ proc'[w].phase = "idle" /\ found[w] = {}
      \/ proc'[w].phase = "working" /\ found[w] # {}
  <2>1. CASE found[w] = {}
    BY <1>1, <2>1 DEF Idle, At, Txn
  <2>2. CASE found[w] # {}
    BY <1>1, <2>2 DEF Idle, At, Txn
  <2>3. QED
    BY <2>1, <2>2
<1>4. a \in Held(w) /\ a \notin found[w]
  BY HeldIs DEF TypeInv, ProcInv, Process, InTxn, ExInv, BatchInv
<1>5. Held(w)' \subseteq Held(w) \ {a}
  BY <1>3, <1>4 DEF Held, InTxnOn, InTxn
<1>6. \A v \in Worker \ {w} : Held(v)' = Held(v)
  BY <1>2 DEF Held, InTxnOn
<1>7. a \in overran \/ \A v \in Worker \ {w} : a \notin Held(v)
  BY <1>4 DEF ExInv, ExclusiveWork
<1>8. \A v \in Worker : \A b \in Held(v)' \ overran : b \in Answer \ {a}
  BY <1>5, <1>6, <1>7 DEF Held
<1>9. \A v \in Worker : \A b \in Held(v)' \ overran :
        job'[b].status = job[b].status /\ job'[b].lease = job[b].lease
  BY <1>8
<1>10. ~InTxn(w)' /\ Held(w)' \subseteq Held(w)
       /\ (proc'[w].phase \in {"idle", "polled", "reconciling"} => found'[w] = {})
  BY <1>3, <1>5 DEF InTxn
<1>11. QED
  BY <1>2, <1>9, <1>10, LetGoEx

\* A job whose lease did not run out is taken by a worker only when no worker has it: it
\* is claimable, and what workers hold is RUNNING.
LEMMA ClaimEx ==
  ASSUME TypeInv, ExInv, NEW w \in Worker, ClaimBatch(w)
  PROVE  ExInv'
<1>1. PICK ids \in SUBSET Unlocked :
        /\ found' = [found EXCEPT ![w] = ids]
        /\ job' = [a \in Answer |->
                     IF a \in ids THEN [job[a] EXCEPT !.status = "RUNNING", !.lease = TRUE]
                                  ELSE job[a]]
  BY DEF ClaimBatch
<1>2. /\ proc' = [proc EXCEPT ![w] = At("working")] /\ proc \in [Process -> ProcState]
      /\ found \in [Process -> SUBSET Answer] /\ w \in Process /\ job \in [Answer -> Job]
  BY DEF ClaimBatch, TypeInv, ProcInv, RestInv, JobInv, Process
<1>3. \A v \in Worker \ {w} : proc'[v] = proc[v] /\ found'[v] = found[v]
  BY <1>1, <1>2 DEF Process
<1>4. proc'[w].phase = "working" /\ found'[w] = ids
  <2>1. proc'[w] = At("working") /\ found'[w] = ids
    BY <1>1, <1>2
  <2>2. QED
    BY <2>1 DEF At, Txn
<1>5. Held(w)' \subseteq ids
  BY <1>4 DEF Held, InTxnOn
<1>6. \A v \in Worker \ {w} : Held(v)' = Held(v)
  BY <1>3 DEF Held, InTxnOn
<1>0. overran' = overran
  BY DEF ClaimBatch
<1>7. \A v \in Worker : \A a \in Held(v) \ overran : a \in Answer /\ a \notin ids
  BY DEF ExInv, HeldInv, Unlocked, Claimable, Held
<1>8. ExclusiveWork'
  BY <1>0, <1>5, <1>6, <1>7 DEF ExInv, ExclusiveWork
<1>9. BatchInv'
  BY <1>3, <1>4 DEF ExInv, BatchInv, InTxn
<1>10. \A a \in ids : a \in Answer /\ job'[a].status = "RUNNING" /\ job'[a].lease
  BY <1>1, <1>2 DEF Unlocked, Job
<1>11. \A a \in Answer \ ids : job'[a] = job[a]
  BY <1>1
<1>12. ASSUME NEW v \in Worker, NEW a \in Held(v)' \ overran
       PROVE  job'[a].status = "RUNNING" /\ job'[a].lease
  <2>1. CASE v = w
    BY <1>5, <1>10, <1>12, <2>1
  <2>2. CASE v # w
    BY <1>6, <1>7, <1>11, <1>12, <2>2 DEF ExInv, HeldInv
  <2>3. QED
    BY <2>1, <2>2
<1>13. QED
  BY <1>0, <1>8, <1>9, <1>12 DEF ExInv, HeldInv

LEMMA LoadEx ==
  ASSUME TypeInv, ExInv, NEW w \in Worker, NEW a \in Answer, LoadJob(w, a)
  PROVE  ExInv'
<1>1. /\ proc \in [Process -> ProcState] /\ found \in [Process -> SUBSET Answer] /\ w \in Process
      /\ found' = [found EXCEPT ![w] = @ \ {a}] /\ a \in found[w]
      /\ proc[w].phase = "working" /\ UNCHANGED <<job, overran>>
  BY DEF LoadJob, TypeInv, ProcInv, RestInv, Process, tables, past
<1>2. found'[w] = found[w] \ {a}
  BY <1>1
<1>3. PICK next \in {Txn("closing", a, 0, FALSE), Txn("grading", a, job[a].attempts, FALSE),
                    IF found'[w] = {} THEN Idle ELSE At("working")} :
        proc' = [proc EXCEPT ![w] = next]
  <2>1. CASE job[a].status # "RUNNING"
    BY <2>1 DEF LoadJob
  <2>2. CASE job[a].status = "RUNNING" /\ score[a] # Null
    BY <2>2 DEF LoadJob
  <2>3. CASE job[a].status = "RUNNING" /\ score[a] = Null
    BY <2>3 DEF LoadJob
  <2>4. QED
    BY <2>1, <2>2, <2>3
<1>4. \/ proc'[w].phase \in {"closing", "grading"} /\ proc'[w].ans = a
      \/ proc'[w].phase = "idle" /\ found'[w] = {}
      \/ proc'[w].phase = "working"
  <2>1. proc'[w] = next
    BY <1>1, <1>3
  <2>2. CASE next = IF found'[w] = {} THEN Idle ELSE At("working")
    BY <2>1, <2>2 DEF Idle, At, Txn
  <2>3. CASE next \in {Txn("closing", a, 0, FALSE), Txn("grading", a, job[a].attempts, FALSE)}
    BY <2>1, <2>3 DEF Txn
  <2>4. QED
    BY <1>3, <2>2, <2>3
<1>5. \A v \in Worker \ {w} : proc'[v] = proc[v] /\ found'[v] = found[v]
  BY <1>1, <1>3
<1>6. Held(w)' \subseteq Held(w)
  BY <1>1, <1>2, <1>4 DEF Held, InTxnOn
<1>7. /\ proc'[w].phase \in {"idle", "polled", "reconciling"} => found'[w] = {}
      /\ InTxn(w)' => proc'[w].ans \notin found'[w]
  BY <1>2, <1>4 DEF InTxn
<1>8. QED
  BY <1>1, <1>5, <1>6, <1>7, LetGoEx

LEMMA NextExInv == TypeInv /\ AcceptedInv /\ ExInv /\ [Next]_vars => ExInv'
<1> SUFFICES ASSUME TypeInv, AcceptedInv, ExInv, [Next]_vars PROVE ExInv'
  OBVIOUS
<1>a. /\ proc \in [Process -> ProcState] /\ found \in [Process -> SUBSET Answer]
      /\ job \in [Answer -> Job] /\ Worker \subseteq Process
      /\ \A m \in Manual : m \in Process /\ m \notin Worker
  BY ProcessAssumption DEF TypeInv, ProcInv, RestInv, JobInv, Process
<1>b. \A w \in Worker : \A a \in Held(w) \ overran :
        a \in Answer /\ job[a].status = "RUNNING" /\ job[a].lease /\ Accepted(a)
  BY DEF ExInv, HeldInv, Held, AcceptedInv, RowsAccepted
<1>1. ASSUME NEW s \in Session, AcceptAnswer(s) PROVE ExInv'
  <2>1. \A a \in Answer : Accepted(a) => a # <<s, answered[s] + 1>>
    BY <1>1, AnswerParts DEF Accepted, AcceptAnswer, TypeInv, RestInv
  <2>2. \A a \in Answer : Accepted(a) => job'[a] = job[a]
    BY <1>a, <1>1, <2>1 DEF AcceptAnswer
  <2>3. UNCHANGED <<proc, found, overran>>
    BY <1>1 DEF AcceptAnswer
  <2>4. QED
    BY <1>b, <2>2, <2>3, SameWorkEx
<1>2. ASSUME NEW a \in Answer, LeaseExpires(a) \/ LeaseOverruns(a) PROVE ExInv'
  <2>1. a \in overran' \/ \A w \in Worker : a \notin Held(w)
    BY <1>2 DEF LeaseExpires, LeaseOverruns
  <2>2. \A b \in Answer \ {a} : job'[b] = job[b]
    BY <1>a, <1>2 DEF LeaseExpires, LeaseOverruns
  <2>3. UNCHANGED <<proc, found>> /\ overran \subseteq overran'
    BY <1>2 DEF LeaseExpires, LeaseOverruns
  <2>4. \A w \in Worker : \A b \in Held(w) \ overran' : job'[b] = job[b] /\ b \notin overran
    BY <1>b, <2>1, <2>2, <2>3
  <2>5. QED
    BY <1>b, <2>3, <2>4, SameWorkEx
<1>3. ASSUME NEW a \in Answer, BackoffElapses(a) PROVE ExInv'
  <2>1. \A b \in Answer : job'[b].status = job[b].status /\ job'[b].lease = job[b].lease
    BY <1>a, <1>3 DEF BackoffElapses, Job
  <2>2. UNCHANGED <<proc, found, overran>>
    BY <1>3 DEF BackoffElapses
  <2>3. QED
    BY <1>b, <2>1, <2>2, SameWorkEx
<1>4. ASSUME NEW w \in Worker,
             ReclaimStaleLeases(w) \/ ClaimNothing(w) \/ FindOrphans(w) \/ InsertMissingJobs(w)
               \/ Crash(w)
      PROVE  ExInv'
  <2>1. /\ \A v \in Worker \ {w} : proc'[v] = proc[v] /\ found'[v] = found[v]
        /\ proc'[w] \in {At("polled"), At("reconciling"), At("inserting"), Idle}
        /\ proc'[w] # At("inserting") => found'[w] = {}
    <3>1. CASE ReclaimStaleLeases(w)
      BY <1>a, <3>1 DEF ReclaimStaleLeases, ExInv, BatchInv, Idle, At, Txn
    <3>2. CASE ClaimNothing(w)
      BY <1>a, <3>2 DEF ClaimNothing, ExInv, BatchInv
    <3>3. CASE FindOrphans(w)
      BY <1>a, <3>3 DEF FindOrphans
    <3>4. CASE InsertMissingJobs(w) \/ Crash(w)
      BY <1>a, <3>4 DEF InsertMissingJobs, Crash
    <3>5. QED
      BY <1>4, <3>1, <3>2, <3>3, <3>4
  <2>2. /\ proc'[w].phase \in {"polled", "reconciling", "inserting", "idle"}
        /\ proc'[w].phase # "inserting" => found'[w] = {}
    BY <2>1 DEF Idle, At, Txn
  <2>3. Held(w)' = {} /\ ~InTxn(w)'
    BY <2>2 DEF Held, InTxnOn, InTxn
  <2>4. \A a \in Answer : job[a].status = "RUNNING" /\ job[a].lease => job'[a] = job[a]
    <3>1. CASE ReclaimStaleLeases(w)
      BY <1>a, <3>1 DEF ReclaimStaleLeases, Expired
    <3>2. CASE InsertMissingJobs(w)
      BY <1>a, <3>2 DEF InsertMissingJobs
    <3>3. CASE UNCHANGED job
      BY <3>3
    <3>4. QED
      BY <1>4, <3>1, <3>2, <3>3 DEF ClaimNothing, FindOrphans, Crash, tables
  <2>5. \A v \in Worker \ {w} : Held(v)' = Held(v)
    BY <2>1 DEF Held, InTxnOn
  <2>6. overran' = overran
    BY <1>4 DEF ReclaimStaleLeases, ClaimNothing, FindOrphans, InsertMissingJobs, Crash
  <2>8. \A v \in Worker : \A a \in Held(v)' \ overran : job'[a] = job[a]
    BY <1>b, <2>3, <2>4, <2>5
  <2>7. QED
    BY <2>1, <2>2, <2>3, <2>6, <2>8, LetGoEx
<1>5. ASSUME NEW w \in Worker, CloseGradedJob(w) \/ Reschedule(w) \/ CommitGrade(w)
      PROVE  ExInv'
  <2>1. InTxn(w) /\ EndTxn(w) /\ UNCHANGED <<found, overran>>
    BY <1>5 DEF InTxn, CloseGradedJob, Reschedule, CommitGrade
  <2>2. \A b \in Answer \ {proc[w].ans} : job'[b] = job[b]
    BY <1>a, <1>5 DEF CloseGradedJob, Reschedule, CommitGrade
  <2>3. QED
    BY <2>1, <2>2, EndTxnEx
<1>6. ASSUME NEW w \in Worker, (\E g \in Outcome : Flush(w, g)) \/ LockSession(w)
      PROVE  ExInv'
  <2> DEFINE Advances ==
        /\ proc[w].phase \in {"grading", "flushed"} /\ proc'[w].phase \in {"flushed", "locked"}
        /\ proc'[w].ans = proc[w].ans /\ UNCHANGED <<found, job, overran>>
        /\ \A v \in Worker \ {w} : proc'[v] = proc[v]
  <2>1. Advances
    <3>1. CASE LockSession(w)
      BY <1>a, <3>1 DEF LockSession, ProcState, tables
    <3>2. ASSUME NEW g \in Outcome, Flush(w, g) PROVE Advances
      BY <1>a, <3>2 DEF Flush, ProcState, tables
    <3>3. QED
      BY <1>6, <3>1, <3>2
  <2>2. Held(w)' \subseteq Held(w) /\ InTxn(w)
    BY <2>1 DEF Held, InTxnOn, InTxn
  <2>3. proc'[w].ans \notin found'[w]
    BY <2>1, <2>2 DEF ExInv, BatchInv
  <2>4. QED
    BY <2>1, <2>2, <2>3, LetGoEx
<1>7. CASE UNCHANGED vars
  BY <1>7, <1>b, SameWorkEx DEF vars
<1>8. ASSUME NEW w \in Worker, WorkerStep(w) PROVE ExInv'
  BY <1>4, <1>5, <1>6, <1>8, ClaimEx, LoadEx DEF WorkerStep, GradeStep
<1>9. ASSUME NEW m \in Manual, ManualStep(m) \/ Crash(m) PROVE ExInv'
  <2>1. UNCHANGED <<job, overran>> /\ \A v \in Worker : proc'[v] = proc[v] /\ found'[v] = found[v]
    <3>1. CASE Crash(m)
      BY <1>a, <3>1 DEF Crash, tables
    <3>2. CASE ManualStep(m)
      <4>1. UNCHANGED <<job, found, overran>>
        BY <1>a, <3>2 DEF ManualStep, LoadManual, GradeStep, Flush, LockSession, CommitGrade, tables
      <4>2. \A v \in Worker : proc'[v] = proc[v]
        BY <1>a, <3>2 DEF ManualStep, LoadManual, GradeStep, Flush, LockSession, CommitGrade, EndTxn
      <4>3. QED
        BY <4>1, <4>2
    <3>3. QED
      BY <1>9, <3>1, <3>2
  <2>2. QED
    BY <1>b, <2>1, SameWorkEx
<1>10. QED
  BY <1>a, <1>1, <1>2, <1>3, <1>4, <1>7, <1>8, <1>9 DEF Next, Process

LEMMA InitExInv == Init => ExInv
  BY DEF Init, ExInv, BatchInv, HeldInv, ExclusiveWork, Held, InTxnOn, InTxn, Idle, At, Txn, Process

\* Two workers never work on the same job unless its lease ran out under one of them,
\* whatever the size of the batches, wherever workers crash, and whatever manual graders
\* do meanwhile.
THEOREM WorkIsExclusive == Spec => []ExclusiveWork
<1>1. ExInv => ExclusiveWork
  BY DEF ExInv
<1>2. QED
  BY <1>1, InitTypeInv, NextTypeInv, InitAcceptedInv, NextAcceptedInv, InitExInv, NextExInv,
     PTL DEF Spec

-----------------------------------------------------------------------------
(***************************************************************************)
(* What is written about an answer nobody contests.  Its job is graded     *)
(* only by the worker that claimed it, which finds it without a score      *)
(* (OwnInv), so that its row tells its outcome, and a session whose        *)
(* answers are all like that is still open when its last grade commits.    *)
(***************************************************************************)
OwnInv ==
  \A p \in Process :
    InTxn(p) /\ proc[p].ans \notin Contested => p \in Worker /\ proc[p].phase # "closing"

OutcomeInv == JobTellsOutcome /\ CleanStamp /\ OwnInv

InQueue(a) == job[a].status \in {"ABSENT", "PENDING", "RUNNING", "RETRY"}

\* The aggregate of a session depends on the scores of its own answers only.
LEMMA SummaryLocal ==
  ASSUME NEW s, NEW sc1, NEW sc2, \A i \in Position : sc1[<<s, i>>] = sc2[<<s, i>>]
  PROVE  Summary(s, sc1) = Summary(s, sc2)
<1>1. [i \in Position |-> sc1[<<s, i>>]] = [i \in Position |-> sc2[<<s, i>>]]
  OBVIOUS
<1>2. QED
  BY <1>1 DEF Summary

\* Steps in which no process but p changes its transaction, and p begins none.
LEMMA OwnFrame ==
  ASSUME OwnInv, Contested \subseteq Contested', NEW p,
         \A q \in Process \ {p} : proc'[q] = proc[q],
         InTxn(p)' => InTxn(p) /\ proc'[p].ans = proc[p].ans /\ proc'[p].phase # "closing"
  PROVE  OwnInv'
<1> SUFFICES ASSUME NEW q \in Process, InTxn(q)', proc'[q].ans \notin Contested'
             PROVE  q \in Worker /\ proc'[q].phase # "closing"
  BY DEF OwnInv
<1>1. CASE q = p
  BY <1>1 DEF OwnInv
<1>2. CASE q # p
  BY <1>2 DEF OwnInv, InTxn
<1>3. QED
  BY <1>1, <1>2

\* An answer about to be committed that nobody contests is in its worker's hands alone.
LEMMA CommitOwner ==
  ASSUME TypeInv, ExInv, OutcomeInv, NEW p \in Process, CommitGrade(p),
         NEW a, a = proc[p].ans, a \notin Contested
  PROVE  a \in Answer /\ p \in Worker /\ job[a].status = "RUNNING" /\ score[a] = Null
<1>1. proc[p].phase = "locked" /\ a \in Answer /\ InTxn(p)
  BY DEF CommitGrade, TypeInv, ProcInv, InTxn
<1>2. p \in Worker
  BY <1>1 DEF OutcomeInv, OwnInv
<1>3. job[a].status = "RUNNING"
  BY <1>1, <1>2, HeldIs DEF ExInv, HeldInv, Contested
<1>4. score[a] = Null
  BY <1>1, <1>3 DEF OutcomeInv, JobTellsOutcome
<1>5. QED
  BY <1>1, <1>2, <1>3, <1>4

\* A commit to an answer without a score: its session is open, and is stamped exactly when
\* this score is its last.
LEMMA CommitDecision ==
  ASSUME TypeInv, AcceptedInv, GradeInv, NEW p \in Process, CommitGrade(p),
         NEW a, a = proc[p].ans, score[a] = Null
  PROVE  /\ a \in Answer /\ Accepted(a) /\ ~completed[a[1]]
         /\ score' = [score EXCEPT ![a] = ScoreOf(proc[p].outcome)]
         /\ proc[p].stamping <=> AllGraded(a[1], answered[a[1]], score')
<1>1. proc[p].phase = "locked" /\ a \in Answer /\ Accepted(a)
  BY DEF CommitGrade, TypeInv, ProcInv, AcceptedInv, WorkAccepted
<1>2. a[1] \in Session /\ a[2] \in Position /\ a = <<a[1], a[2]>>
  BY <1>1, AnswerParts DEF Position
<1>3. ~AllGraded(a[1], answered[a[1]], score)
  BY <1>2 DEF AllGraded
<1>4. ~completed[a[1]]
  BY <1>2, <1>3 DEF GradeInv, CompletedIffGraded
<1>5. ~proc[p].done
  BY <1>1, <1>4 DEF GradeInv, DoneInv
<1>6. score' = [score EXCEPT ![a] = Persisted(p)] /\ InDatabase(p) = score'
  BY DEF CommitGrade, InDatabase
<1>7. Persisted(p) = ScoreOf(proc[p].outcome)
  BY DEF Persisted, ScoreOf
<1>8. proc[p].stamping <=> AllGraded(a[1], answered[a[1]], score')
  BY <1>1, <1>5, <1>6 DEF GradeInv, DecisionInv
<1>9. QED
  BY <1>1, <1>4, <1>6, <1>7, <1>8

LEMMA CommitOutcome ==
  ASSUME TypeInv, AcceptedInv, GradeInv, ExInv, OutcomeInv, NEW p \in Process, CommitGrade(p)
  PROVE  OutcomeInv'
<1> DEFINE a == proc[p].ans
           s == a[1]
           g == proc[p].outcome
<1>1. a \in Answer /\ s \in Session /\ g \in Outcome /\ Contested' = Contested
  BY AnswerParts DEF CommitGrade, TypeInv, ProcInv, Contested, past
<1>2. /\ score \in [Answer -> Scores \cup {Null}] /\ reason \in [Answer -> Outcome \cup {Null}]
      /\ job \in [Answer -> Job] /\ completed \in [Session -> BOOLEAN]
      /\ completions \in [Session -> Nat] /\ proc \in [Process -> ProcState]
      /\ stamp = [r \in Session |-> stamp[r]]
  BY DEF TypeInv, RestInv, JobInv, ProcInv
<1>3. score' = [score EXCEPT ![a] = Persisted(p)] /\ reason' = [reason EXCEPT ![a] = g]
  BY DEF CommitGrade
<1>4. \A b \in Answer \ {a} : job'[b] = job[b] /\ score'[b] = score[b] /\ reason'[b] = reason[b]
  BY <1>2, <1>3 DEF CommitGrade
<1>5. JobTellsOutcome'
  <2>1. CASE a \in Contested
    BY <1>1, <1>4, <2>1 DEF OutcomeInv, JobTellsOutcome
  <2>2. CASE a \notin Contested
    <3>1. p \in Worker /\ score' = [score EXCEPT ![a] = ScoreOf(g)]
      BY <2>2, CommitOwner, CommitDecision
    <3>2. job' = [job EXCEPT ![a].attempts = proc[p].attempts + 1, ![a].status = FinalStatus(g)]
      BY <3>1 DEF CommitGrade
    <3>3. score'[a] = ScoreOf(g) /\ reason'[a] = g /\ job'[a].status = FinalStatus(g)
      BY <1>1, <1>2, <1>3, <3>1, <3>2 DEF Job
    <3>4. \/ job'[a].status = "COMPLETE" /\ score'[a] # Null /\ reason'[a] = score'[a]
          \/ job'[a].status = "COMPLETE" /\ score'[a] = Null /\ reason'[a] = Malformed
          \/ job'[a].status = "FAILED" /\ score'[a] = Null /\ reason'[a] = ProviderError
      BY <1>1, <3>3, ScoresAssumption, OutcomeAssumption DEF ScoreOf, FinalStatus, Outcome
    <3>5. QED
      BY <1>1, <1>4, <3>4 DEF OutcomeInv, JobTellsOutcome
  <2>3. QED
    BY <2>1, <2>2
<1>6. OwnInv'
  <2>1. proc' = [proc EXCEPT ![p] = IF found[p] = {} THEN Idle ELSE At("working")]
    BY DEF CommitGrade, EndTxn
  <2>2. proc'[p].phase \in {"idle", "working"}
    <3>1. CASE found[p] = {}
      BY <1>2, <2>1, <3>1 DEF Idle, At, Txn
    <3>2. CASE found[p] # {}
      BY <1>2, <2>1, <3>2 DEF Idle, At, Txn
    <3>3. QED
      BY <3>1, <3>2
  <2>3. ~InTxn(p)' /\ \A q \in Process \ {p} : proc'[q] = proc[q]
    BY <2>1, <2>2 DEF InTxn
  <2>4. QED
    BY <1>1, <2>3, OwnFrame DEF OutcomeInv
<1>7. CleanStamp'
  <2> SUFFICES ASSUME NEW r \in Session, \A i \in Position : <<r, i>> \notin Contested
               PROVE  /\ completions'[r] = IF completed'[r] THEN 1 ELSE 0
                      /\ completed'[r] => stamp'[r] = Summary(r, score')
    BY <1>1 DEF CleanStamp
  <2>0. /\ completions[r] = IF completed[r] THEN 1 ELSE 0
        /\ completed[r] => stamp[r] = Summary(r, score)
    BY DEF OutcomeInv, CleanStamp
  <2>1. CASE r # s
    <3>1. \A i \in Position : score'[<<r, i>>] = score[<<r, i>>]
      BY <1>4, <2>1, AnswerParts DEF Position
    <3>2. Summary(r, score') = Summary(r, score)
      BY <3>1, SummaryLocal
    <3>3. /\ completed'[r] = completed[r] /\ stamp'[r] = stamp[r]
          /\ completions'[r] = completions[r]
      BY <1>2, <2>1 DEF CommitGrade
    <3>4. QED
      BY <2>0, <3>2, <3>3
  <2>2. CASE r = s
    <3>1. a \notin Contested
      BY <1>1, <2>2, AnswerParts DEF Position
    <3>2. ~completed[s] /\ score' = [score EXCEPT ![a] = ScoreOf(g)]
      BY <3>1, CommitOwner, CommitDecision
    <3>3. CASE proc[p].stamping
      <4>1. /\ completed' = [completed EXCEPT ![s] = TRUE]
            /\ completions' = [completions EXCEPT ![s] = @ + 1]
            /\ stamp' = [stamp EXCEPT ![s] = Stamped(p)]
        BY <3>3 DEF CommitGrade
      <4>2. Stamped(p) = Summary(s, score')
        BY <3>2 DEF Stamped
      <4>3. QED
        BY <1>1, <1>2, <2>0, <2>2, <3>2, <4>1, <4>2
    <3>4. CASE ~proc[p].stamping
      BY <2>0, <2>2, <3>2, <3>4 DEF CommitGrade
    <3>5. QED
      BY <3>3, <3>4
  <2>3. QED
    BY <2>1, <2>2
<1>8. QED
  BY <1>5, <1>6, <1>7 DEF OutcomeInv

\* Steps that write no grade keep every job on its side of the queue.
LEMMA QueueOutcome ==
  ASSUME OutcomeInv, OwnInv', UNCHANGED results, Contested \subseteq Contested',
         \A a \in Answer \ Contested' : job'[a].status = job[a].status \/ (InQueue(a) /\ InQueue(a)')
  PROVE  OutcomeInv'
<1>1. JobTellsOutcome'
  <2>1. UNCHANGED <<score, reason>>
    BY DEF results
  <2>2. ASSUME NEW a \in Answer \ Contested', InQueue(a), InQueue(a)'
        PROVE  score'[a] = Null /\ reason'[a] = Null
    BY <2>1, <2>2 DEF OutcomeInv, JobTellsOutcome, InQueue
  <2>3. QED
    BY <2>1, <2>2 DEF OutcomeInv, JobTellsOutcome, InQueue
<1>2. CleanStamp'
  BY DEF OutcomeInv, CleanStamp, results
<1>3. QED
  BY <1>1, <1>2 DEF OutcomeInv

LEMMA NextOutcomeInv ==
  TypeInv /\ AcceptedInv /\ GradeInv /\ ExInv /\ OutcomeInv /\ [Next]_vars => OutcomeInv'
<1> SUFFICES ASSUME TypeInv, AcceptedInv, GradeInv, ExInv, OutcomeInv, [Next]_vars
             PROVE  OutcomeInv'
  OBVIOUS
<1>a. proc \in [Process -> ProcState] /\ job \in [Answer -> Job] /\ Worker \subseteq Process
      /\ Manual \subseteq Process /\ found \in [Process -> SUBSET Answer]
  BY DEF TypeInv, ProcInv, JobInv, RestInv, Process
<1>b. OwnInv
  BY DEF OutcomeInv
<1>1. ASSUME NEW s \in Session, AcceptAnswer(s) PROVE OutcomeInv'
  <2> DEFINE b == <<s, answered[s] + 1>>
  <2>1. b \in Answer /\ ~Accepted(b)
    BY <1>1, AnswerParts, NAssumption DEF AcceptAnswer, Accepted, TypeInv, RestInv
  <2>2. job[b].status = "ABSENT"
    BY <2>1 DEF AcceptedInv, RowsAccepted
  <2>3. job'[b].status = "PENDING" /\ \A a \in Answer \ {b} : job'[a] = job[a]
    BY <1>a, <1>1, <2>1 DEF AcceptAnswer, NewJob
  <2>4. Contested' = Contested /\ OwnInv'
    BY <1>1, <1>b DEF AcceptAnswer, past, Contested, OwnInv, InTxn
  <2>5. QED
    BY <1>1, <2>2, <2>3, <2>4, QueueOutcome DEF AcceptAnswer, InQueue
<1>2. ASSUME NEW a \in Answer, LeaseExpires(a) \/ LeaseOverruns(a) \/ BackoffElapses(a)
      PROVE  OutcomeInv'
  <2>1. job' = [job EXCEPT ![a].lease = FALSE] \/ job' = [job EXCEPT ![a].due = TRUE]
    BY <1>2 DEF LeaseExpires, LeaseOverruns, BackoffElapses
  <2>2. \A b \in Answer : job'[b].status = job[b].status
    BY <1>a, <2>1 DEF Job
  <2>3. UNCHANGED <<results, proc>> /\ Contested \subseteq Contested'
    BY <1>2 DEF LeaseExpires, LeaseOverruns, BackoffElapses, past, Contested
  <2>4. OwnInv'
    BY <1>b, <2>3 DEF OwnInv, InTxn
  <2>5. QED
    BY <2>2, <2>3, <2>4, QueueOutcome
<1>3. ASSUME NEW w \in Worker,
             ReclaimStaleLeases(w) \/ ClaimBatch(w) \/ ClaimNothing(w) \/ FindOrphans(w)
               \/ InsertMissingJobs(w)
      PROVE  OutcomeInv'
  <2>1. \A a \in Answer : job'[a].status = job[a].status \/ (InQueue(a) /\ InQueue(a)')
    <3>1. CASE ReclaimStaleLeases(w)
      BY <1>a, <3>1 DEF ReclaimStaleLeases, Expired, Job, InQueue
    <3>2. CASE ClaimBatch(w)
      <4>1. PICK ids \in SUBSET Unlocked :
              job' = [a \in Answer |->
                        IF a \in ids THEN [job[a] EXCEPT !.status = "RUNNING", !.lease = TRUE]
                                     ELSE job[a]]
        BY <3>2 DEF ClaimBatch
      <4>2. QED
        BY <1>a, <4>1 DEF Unlocked, Claimable, InQueue, Job
    <3>3. CASE InsertMissingJobs(w)
      BY <1>a, <3>3 DEF InsertMissingJobs, NewJob, InQueue
    <3>4. CASE ClaimNothing(w) \/ FindOrphans(w)
      BY <3>4 DEF ClaimNothing, FindOrphans, tables
    <3>5. QED
      BY <1>3, <3>1, <3>2, <3>3, <3>4
  <2>2. PICK new \in {Idle, At("polled"), At("working"), At("reconciling"), At("inserting")} :
          proc' = [proc EXCEPT ![w] = new]
    BY <1>3 DEF ReclaimStaleLeases, ClaimBatch, ClaimNothing, FindOrphans, InsertMissingJobs
  <2>3. ~InTxn(w)' /\ \A q \in Process \ {w} : proc'[q] = proc[q]
    BY <1>a, <2>2 DEF InTxn, Idle, At, Txn
  <2>4. UNCHANGED results /\ Contested' = Contested
    BY <1>3 DEF ReclaimStaleLeases, ClaimBatch, ClaimNothing, FindOrphans, InsertMissingJobs,
                tables, results, past, Contested
  <2>5. OwnInv'
    BY <1>b, <2>3, <2>4, OwnFrame
  <2>6. QED
    BY <2>1, <2>4, <2>5, QueueOutcome
<1>4. ASSUME NEW w \in Worker, CloseGradedJob(w) \/ Reschedule(w) PROVE OutcomeInv'
  <2>0. PICK a : a = proc[w].ans
    OBVIOUS
  <2>1. InTxn(w) /\ a \in Answer /\ proc[w].phase \in {"closing", "grading"}
    BY <1>4, <2>0 DEF CloseGradedJob, Reschedule, InTxn, TypeInv, ProcInv, Process
  <2>2. \A b \in Answer \ {a} : job'[b] = job[b]
    BY <1>a, <1>4, <2>0 DEF CloseGradedJob, Reschedule
  <2>3. ASSUME a \notin Contested PROVE InQueue(a) /\ InQueue(a)'
    <3>1. Reschedule(w)
      BY <1>4, <1>a, <1>b, <2>0, <2>1, <2>3 DEF CloseGradedJob, OwnInv
    <3>2. job[a].status = "RUNNING"
      BY <2>0, <2>1, <2>3, HeldIs DEF ExInv, HeldInv, Contested
    <3>3. job'[a].status = "RETRY"
      BY <1>a, <2>0, <2>1, <3>1 DEF Reschedule
    <3>4. QED
      BY <3>2, <3>3 DEF InQueue
  <2>4. UNCHANGED results /\ Contested' = Contested /\ EndTxn(w)
    BY <1>4 DEF CloseGradedJob, Reschedule, results, past, Contested
  <2>5. ~InTxn(w)' /\ \A q \in Process \ {w} : proc'[q] = proc[q]
    <3>1. PICK new \in {Idle, At("working")} : proc' = [proc EXCEPT ![w] = new]
      BY <2>4 DEF EndTxn
    <3>2. QED
      BY <1>a, <3>1 DEF InTxn, Idle, At, Txn
  <2>6. OwnInv'
    BY <1>b, <2>4, <2>5, OwnFrame
  <2>7. QED
    BY <2>2, <2>3, <2>4, <2>6, QueueOutcome
<1>5. ASSUME NEW w \in Worker, NEW a \in Answer, LoadJob(w, a) PROVE OutcomeInv'
  <2>1. UNCHANGED <<tables, past>>
    BY <1>5 DEF LoadJob
  <2>2. CASE job[a].status # "RUNNING"
    <3>1. PICK new \in {Idle, At("working")} : proc' = [proc EXCEPT ![w] = new]
      BY <1>5, <2>2 DEF LoadJob
    <3>2. ~InTxn(w)' /\ \A q \in Process \ {w} : proc'[q] = proc[q]
      BY <1>a, <3>1 DEF InTxn, Idle, At, Txn
    <3>3. OwnInv'
      BY <1>b, <2>1, <3>2, OwnFrame DEF Contested, past
    <3>4. QED
      BY <2>1, <3>3, QueueOutcome DEF tables, results, past, Contested
  <2>3. CASE job[a].status = "RUNNING"
    <3>1. a \notin Contested => score[a] = Null
      BY <2>3 DEF OutcomeInv, JobTellsOutcome
    <3>2. PICK phase \in {"closing", "grading"} :
            /\ \E k : proc' = [proc EXCEPT ![w] = Txn(phase, a, k, FALSE)]
            /\ phase = "closing" => score[a] # Null
      <4>1. CASE score[a] # Null
        BY <1>5, <2>3, <4>1 DEF LoadJob
      <4>2. CASE score[a] = Null
        BY <1>5, <2>3, <4>2 DEF LoadJob
      <4>3. QED
        BY <4>1, <4>2
    <3>3. /\ proc'[w].phase = phase /\ proc'[w].ans = a
          /\ \A q \in Process \ {w} : proc'[q] = proc[q]
      BY <1>a, <3>2 DEF Txn
    <3>4. Contested' = Contested
      BY <2>1 DEF past, Contested
    <3>5. OwnInv'
      BY <1>b, <3>1, <3>2, <3>3, <3>4 DEF OwnInv, InTxn
    <3>6. QED
      BY <2>1, <3>4, <3>5, QueueOutcome DEF tables, results
  <2>4. QED
    BY <2>2, <2>3
<1>6. ASSUME NEW m \in Manual, NEW a \in Answer, LoadManual(m, a) PROVE OutcomeInv'
  <2>1. UNCHANGED tables /\ Contested' = Contested \cup {a}
    BY <1>6 DEF LoadManual, Contested
  <2>2. proc'[m].ans = a /\ \A q \in Process \ {m} : proc'[q] = proc[q]
    BY <1>a, <1>6 DEF LoadManual, Txn
  <2>3. OwnInv'
    BY <1>b, <2>1, <2>2 DEF OwnInv, InTxn
  <2>4. QED
    BY <2>1, <2>3, QueueOutcome DEF tables, results
<1>7. ASSUME NEW p \in Process, (\E g \in Outcome : Flush(p, g)) \/ LockSession(p) \/ Crash(p)
      PROVE  OutcomeInv'
  <2>1. UNCHANGED tables /\ Contested' = Contested
    BY <1>7 DEF Flush, LockSession, Crash, past, Contested
  <2> DEFINE Advances ==
        /\ InTxn(p)' => InTxn(p) /\ proc'[p].ans = proc[p].ans /\ proc'[p].phase # "closing"
        /\ \A q \in Process \ {p} : proc'[q] = proc[q]
  <2>2. Advances
    <3>1. CASE LockSession(p)
      BY <1>a, <3>1 DEF LockSession, ProcState, InTxn
    <3>2. ASSUME NEW g \in Outcome, Flush(p, g) PROVE Advances
      BY <1>a, <3>2 DEF Flush, ProcState, InTxn
    <3>3. CASE Crash(p)
      BY <1>a, <3>3 DEF Crash, InTxn, Idle, At, Txn
    <3>4. QED
      BY <1>7, <3>1, <3>2, <3>3
  <2>3. OwnInv'
    BY <1>b, <2>1, <2>2, OwnFrame
  <2>4. QED
    BY <2>1, <2>3, QueueOutcome DEF tables, results
<1>8. CASE UNCHANGED vars
  <2>1. Contested' = Contested /\ OwnInv'
    BY <1>b, <1>8 DEF vars, Contested, OwnInv, InTxn
  <2>2. QED
    BY <1>8, <2>1, QueueOutcome DEF vars, results
<1>9. ASSUME NEW w \in Worker, WorkerStep(w) PROVE OutcomeInv'
  BY <1>a, <1>3, <1>4, <1>5, <1>7, <1>9, CommitOutcome DEF WorkerStep, GradeStep
<1>10. ASSUME NEW m \in Manual, ManualStep(m) PROVE OutcomeInv'
  BY <1>a, <1>6, <1>7, <1>10, CommitOutcome DEF ManualStep, GradeStep
<1>11. QED
  BY <1>1, <1>2, <1>7, <1>8, <1>9, <1>10 DEF Next

LEMMA InitOutcomeInv == Init => OutcomeInv
<1> SUFFICES ASSUME Init PROVE OutcomeInv
  OBVIOUS
<1>1. \A a \in Answer : job[a].status = "ABSENT" /\ score[a] = Null /\ reason[a] = Null
  BY DEF Init, NoJob
<1>2. \A p \in Process : ~InTxn(p)
  BY DEF Init, Idle, At, Txn, InTxn
<1>3. \A s \in Session : ~completed[s] /\ completions[s] = 0
  BY DEF Init
<1>4. QED
  BY <1>1, <1>2, <1>3 DEF OutcomeInv, JobTellsOutcome, CleanStamp, OwnInv

LedgerInv == TypeInv /\ AcceptedInv /\ GradeInv /\ ExInv /\ OutcomeInv

LEMMA LedgerInvariance == Spec => []LedgerInv
<1>1. LedgerInv /\ [Next]_vars => LedgerInv'
  BY NextTypeInv, NextAcceptedInv, NextGradeInv, NextExInv, NextOutcomeInv DEF LedgerInv
<1>2. Init => LedgerInv
  BY InitTypeInv, InitAcceptedInv, InitGradeInv, InitExInv, InitOutcomeInv DEF LedgerInv
<1>3. QED
  BY <1>1, <1>2, PTL DEF Spec

\* The job row of an answer that two graders never worked on tells what happened to it,
\* with score and reason from one grading.
THEOREM JobsTellOutcomes == Spec => []JobTellsOutcome
<1>1. LedgerInv => JobTellsOutcome
  BY DEF LedgerInv, OutcomeInv
<1>2. QED
  BY <1>1, LedgerInvariance, PTL

\* A session without a contested answer is stamped exactly once, when its last grade is
\* written, and its stamp stays the aggregate of its scores.
THEOREM StampsOnce == Spec => []CleanStamp
<1>1. LedgerInv => CleanStamp
  BY DEF LedgerInv, OutcomeInv
<1>2. QED
  BY <1>1, LedgerInvariance, PTL

-----------------------------------------------------------------------------
(***************************************************************************)
(* The refinement: accepting an answer is the ledger's Accept; a lease     *)
(* that runs out under its worker, or a manual run, is a Contest; the      *)
(* commit of a first score is a Grade, and over a score, which only a      *)
(* contested answer meets, a Regrade or a Restamp.  The rest is invisible. *)
(***************************************************************************)
\* The ledger scores with the same operators: its copies of them have the same definitions.
LEMMA SameScoring ==
  /\ Ledger!Answer = Answer
  /\ \A s, n, sc : Ledger!AllGraded(s, n, sc) <=> AllGraded(s, n, sc)
  /\ \A s, sc : Ledger!Summary(s, sc) = Summary(s, sc)
<1>1. Ledger!Answer = Answer /\ Ledger!Position = Position
  BY DEF Ledger!Answer, Answer, Ledger!Position, Position
<1>2. \A s, n, sc : Ledger!AllGraded(s, n, sc) <=> AllGraded(s, n, sc)
  BY <1>1 DEF Ledger!AllGraded, AllGraded
<1>3. \A S : Ledger!Cardinality(S) = Cardinality(S)
  BY DEF Ledger!Cardinality, Cardinality
<1>4. \A f, S : Ledger!SumFunctionOnSet(f, S) = SumFunctionOnSet(f, S)
  BY DEF Ledger!SumFunctionOnSet, SumFunctionOnSet, Ledger!FoldFunctionOnSet,
         FoldFunctionOnSet, Ledger!MapThenFoldSet, MapThenFoldSet
<1>5. \A s, sc : Ledger!Summary(s, sc) = Summary(s, sc)
  BY <1>1, <1>3, <1>4 DEF Ledger!Summary, Summary
<1>6. QED
  BY <1>1, <1>2, <1>5

\* A session with a score has an overall score.
LEMMA SummaryCounts ==
  ASSUME NEW s, NEW sc, NEW i \in Position, sc[<<s, i>>] # Null
  PROVE  Summary(s, sc).count # 0
<1> DEFINE row == [j \in Position |-> sc[<<s, j>>]]
           scored == {j \in Position : row[j] # Null}
<1>1. IsFiniteSet(Position)
  BY NAssumption, FS_Interval DEF Position
<1>2. IsFiniteSet(scored) /\ i \in scored
  BY <1>1, FS_Subset
<1>3. Cardinality(scored) # 0
  BY <1>2, FS_EmptySet
<1>4. Summary(s, sc).count = Cardinality(scored)
  BY DEF Summary
<1>5. QED
  BY <1>3, <1>4

\* The first score of an answer.
LEMMA CommitIsGrade ==
  ASSUME LedgerInv, NEW p \in Process, CommitGrade(p), score[proc[p].ans] = Null
  PROVE  [Ledger!Next]_(Ledger!ledgerVars)
<1> DEFINE a == proc[p].ans
           s == a[1]
           g == proc[p].outcome
<1>1. /\ a \in Answer /\ score[a] = Null /\ Accepted(a) /\ ~completed[s]
      /\ score' = [score EXCEPT ![a] = ScoreOf(g)]
      /\ proc[p].stamping <=> AllGraded(s, answered[s], score')
  BY CommitDecision DEF LedgerInv
<1>2. /\ answered' = answered /\ Contested' = Contested
      /\ score \in [Answer -> Scores \cup {Null}]
  BY DEF CommitGrade, LedgerInv, TypeInv, RestInv, Contested, past
<1>3. CASE g \in Scores
  <2>1. score' = [score EXCEPT ![a] = g]
    BY <1>1, <1>3 DEF ScoreOf
  <2>2. CASE proc[p].stamping
    <3>1. completed' = [completed EXCEPT ![s] = TRUE] /\ stamp' = [stamp EXCEPT ![s] = Summary(s, score')]
      BY <1>1, <2>2 DEF CommitGrade, Stamped
    <3>2. Ledger!Grade(a, g)
      BY <1>1, <1>2, <2>1, <2>2, <3>1, SameScoring DEF Ledger!Grade, Accepted
    <3>3. QED
      BY <1>1, <1>3, <3>2, SameScoring DEF Ledger!Next
  <2>3. CASE ~proc[p].stamping
    <3>1. UNCHANGED <<completed, stamp>>
      BY <2>3 DEF CommitGrade
    <3>2. Ledger!Grade(a, g)
      BY <1>1, <1>2, <2>1, <2>3, <3>1, SameScoring DEF Ledger!Grade, Accepted
    <3>3. QED
      BY <1>1, <1>3, <3>2, SameScoring DEF Ledger!Next
  <2>4. QED
    BY <2>2, <2>3
<1>4. CASE g \notin Scores
  <2>1. score' = score
    BY <1>1, <1>2, <1>4 DEF ScoreOf
  <2>2. ~AllGraded(s, answered[s], score)
    BY <1>1, AnswerParts DEF LedgerInv, GradeInv, CompletedIffGraded
  <2>3. UNCHANGED <<completed, stamp>>
    BY <1>1, <2>1, <2>2 DEF CommitGrade
  <2>4. QED
    BY <1>2, <2>1, <2>3 DEF Ledger!ledgerVars
<1>5. QED
  BY <1>3, <1>4

\* A commit over a score: the answer is contested, and if the session is stamped it was
\* completed already.
LEMMA CommitIsRegrade ==
  ASSUME LedgerInv, NEW p \in Process, CommitGrade(p), score[proc[p].ans] # Null
  PROVE  [Ledger!Next]_(Ledger!ledgerVars)
<1> DEFINE a == proc[p].ans
           s == a[1]
           g == proc[p].outcome
           new == [score EXCEPT ![a] = ScoreOf(g)]
<1>1. a \in Answer /\ a \in Contested /\ score[a] # Null
  <2>1. a \in Answer
    BY DEF CommitGrade, LedgerInv, TypeInv, ProcInv
  <2>2. QED
    BY <2>1, CommitOwner DEF LedgerInv
<1>2. s \in Session /\ a[2] \in Position /\ a = <<s, a[2]>>
  BY <1>1, AnswerParts DEF Position
<1>3. /\ answered' = answered /\ Contested' = Contested
      /\ score \in [Answer -> Scores \cup {Null}] /\ completed \in [Session -> BOOLEAN]
  BY DEF CommitGrade, LedgerInv, TypeInv, RestInv, Contested, past
<1>4. score' = [score EXCEPT ![a] = Persisted(p)]
  BY DEF CommitGrade
<1>5. ASSUME proc[p].stamping
      PROVE  completed[s] /\ UNCHANGED completed /\ stamp' = [stamp EXCEPT ![s] = Stamped(p)]
  <2>1. AllGraded(s, answered[s], InDatabase(p)) /\ InDatabase(p) = score'
    BY <1>4, <1>5 DEF CommitGrade, LedgerInv, GradeInv, DecisionInv, InDatabase
  <2>2. \A i \in Position : score[<<s, i>>] # Null
    <3> SUFFICES ASSUME NEW i \in Position PROVE score[<<s, i>>] # Null
      OBVIOUS
    <3>1. score'[<<s, i>>] # Null /\ <<s, i>> \in Answer
      BY <1>2, <2>1, AnswerParts DEF AllGraded, Position
    <3>2. CASE <<s, i>> = a
      BY <1>1, <3>2
    <3>3. CASE <<s, i>> # a
      BY <1>3, <1>4, <3>1, <3>3
    <3>4. QED
      BY <3>2, <3>3
  <2>3. AllGraded(s, answered[s], score)
    BY <2>1, <2>2 DEF AllGraded
  <2>4. completed[s]
    BY <1>2, <2>3 DEF LedgerInv, GradeInv, CompletedIffGraded
  <2>5. completed' = [completed EXCEPT ![s] = TRUE] /\ stamp' = [stamp EXCEPT ![s] = Stamped(p)]
    BY <1>5 DEF CommitGrade
  <2>6. QED
    BY <1>2, <1>3, <2>4, <2>5
<1>6. ASSUME ~proc[p].stamping PROVE UNCHANGED <<completed, stamp>>
  BY <1>6 DEF CommitGrade
<1>7. CASE g \in Scores
  <2>1. score' = new /\ score' = [score EXCEPT ![a] = g]
    BY <1>4, <1>7 DEF Persisted, ScoreOf
  <2>2. score'[<<s, a[2]>>] # Null
    BY <1>1, <1>2, <1>3, <1>7, <2>1, ScoresAssumption
  <2>3. Summary(s, score').count # 0
    BY <1>2, <2>2, SummaryCounts
  <2>4. Stamped(p) = Summary(s, score')
    BY <2>1, <2>3 DEF Stamped
  <2>5. \/ UNCHANGED stamp
        \/ completed[s] /\ stamp' = [stamp EXCEPT ![s] = Summary(s, score')]
    BY <1>5, <1>6, <2>4
  <2>6. Ledger!Regrade(a, g)
    BY <1>1, <1>3, <1>5, <1>6, <2>1, <2>5, SameScoring DEF Ledger!Regrade
  <2>7. QED
    BY <1>1, <1>7, <2>6, SameScoring DEF Ledger!Next
<1>8. CASE g \notin Scores
  <2>1. score' = score /\ new = [score EXCEPT ![a] = Null]
    BY <1>3, <1>4, <1>8 DEF Persisted, ScoreOf
  <2>2. CASE ~proc[p].stamping
    BY <1>3, <1>6, <2>1, <2>2 DEF Ledger!ledgerVars
  <2>3. CASE proc[p].stamping
    <3> DEFINE others == Summary(s, [score EXCEPT ![a] = Null])
    <3>1. completed[s] /\ UNCHANGED completed /\ stamp' = [stamp EXCEPT ![s] = Stamped(p)]
      BY <1>5, <2>3
    <3>2. Stamped(p) = IF others.count = 0 THEN [stamp[s] EXCEPT !.passed = others.passed]
                                           ELSE others
      BY <2>1, <3>1 DEF Stamped
    <3>3. stamp = [r \in Session |-> stamp[r]]
      BY DEF LedgerInv, TypeInv, RestInv
    <3>4. stamp' = [stamp EXCEPT ![s] = IF others.count = 0 THEN [@ EXCEPT !.passed = others.passed]
                                                            ELSE others]
      BY <1>2, <3>1, <3>2, <3>3
    <3>5. Ledger!Restamp(a)
      BY <1>1, <1>3, <2>1, <3>1, <3>4, SameScoring DEF Ledger!Restamp
    <3>6. QED
      BY <1>1, <3>5, SameScoring DEF Ledger!Next
  <2>4. QED
    BY <2>2, <2>3
<1>9. QED
  BY <1>7, <1>8

LEMMA StepSimulation == LedgerInv /\ [Next]_vars => [Ledger!Next]_(Ledger!ledgerVars)
<1> SUFFICES ASSUME LedgerInv, [Next]_vars PROVE [Ledger!Next]_(Ledger!ledgerVars)
  OBVIOUS
<1>1. ASSUME NEW s \in Session, AcceptAnswer(s) PROVE Ledger!Next
  <2>1. Ledger!Accept(s)
    BY <1>1 DEF AcceptAnswer, results, past, Contested, Ledger!Accept
  <2>2. QED
    BY <2>1 DEF Ledger!Next
<1>2. CASE UNCHANGED <<answered, score, completed, stamp, overran, byHand>>
  BY <1>2 DEF Ledger!ledgerVars, Contested
<1>3. ASSUME NEW a \in Answer, LeaseOverruns(a) \/ (\E m \in Manual : LoadManual(m, a))
      PROVE  Ledger!Next
  <2>1. UNCHANGED <<answered, score, completed, stamp>> /\ Contested' = Contested \cup {a}
    BY <1>3 DEF LeaseOverruns, LoadManual, results, tables, Contested
  <2>2. Ledger!Contest(a)
    BY <2>1 DEF Ledger!Contest
  <2>3. QED
    BY <2>2, SameScoring DEF Ledger!Next
<1>4. ASSUME NEW p \in Process, GradeStep(p) PROVE [Ledger!Next]_(Ledger!ledgerVars)
  BY <1>2, <1>4, CommitIsGrade, CommitIsRegrade
     DEF GradeStep, Flush, LockSession, tables, past
<1>5. ASSUME NEW w \in Worker, WorkerStep(w) PROVE [Ledger!Next]_(Ledger!ledgerVars)
  BY <1>2, <1>4, <1>5
     DEF WorkerStep, Process, results, tables, past, ReclaimStaleLeases, ClaimBatch, ClaimNothing,
         FindOrphans, InsertMissingJobs, LoadJob, CloseGradedJob, Reschedule
<1>6. ASSUME NEW m \in Manual, ManualStep(m) PROVE [Ledger!Next]_(Ledger!ledgerVars)
  BY <1>3, <1>4, <1>6 DEF ManualStep, Process
<1>7. QED
  BY <1>1, <1>2, <1>3, <1>5, <1>6
     DEF Next, vars, results, tables, past, Crash, LeaseExpires, BackoffElapses

\* Grading implements the ledger: each answer gets one score, the last score of a session
\* stamps it with the aggregate of exactly the scores on record, and an answer two graders
\* worked on does no more than the ledger allows.
THEOREM GradingImplementsLedger == Spec => ImplementsLedger
<1>1. Init => Ledger!Init
  BY SameScoring DEF Init, Ledger!Init, Contested
<1>2. LedgerInv /\ [Next]_vars => [Ledger!Next]_(Ledger!ledgerVars)
  BY StepSimulation
<1>3. QED
  BY <1>1, <1>2, LedgerInvariance, PTL DEF Spec, ImplementsLedger, Ledger!Spec

=============================================================================
