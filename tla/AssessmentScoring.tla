------------------------- MODULE AssessmentScoring -------------------------
(***************************************************************************)
(* The scoring path of app/services/assessment_service.py: which answers   *)
(* of an assessment session count as graded, and the aggregate the         *)
(* recruiter reads.  An answer is the pair <<session, position>>; a score  *)
(* function maps every answer to a score or to Null (the SQL NULL).        *)
(***************************************************************************)
EXTENDS Integers, FiniteSets, Functions

CONSTANTS
  Session,         \* assessment_session rows
  N,               \* number of questions of the role (the same for all sessions)
  Scores,          \* the scores the grader model may give, numbers in 0..10
  PASS_THRESHOLD,  \* 7.0 in the code
  Null             \* SQL NULL / Python None

ASSUME NAssumption == N \in Nat \ {0}  \* start_session refuses a role without questions
ASSUME ScoresAssumption == Scores \subseteq 0..10 /\ Null \notin Scores

Position == 1..N
Answer == Session \X Position

AllAnswered(s, taken, sc) == taken >= N  \* mutant: ungraded answers not counted

\* every question of the session has an answer and no answer has a NULL score
AllGraded(s, taken, sc) ==
  /\ taken >= N
  /\ \A i \in Position : sc[<<s, i>>] # Null

(***************************************************************************)
(* The aggregate of one session.  overall_score is total / count rounded   *)
(* to one decimal, or None when count = 0; the pair is kept instead of     *)
(* the quotient.                                                           *)
(***************************************************************************)
Summary(s, sc) ==
  LET row    == [i \in Position |-> sc[<<s, i>>]]
      scored == {i \in Position : row[i] # Null}
  IN  [total  |-> SumFunctionOnSet(row, scored),
       count  |-> Cardinality(scored),
       passed |-> Cardinality({i \in scored : row[i] >= PASS_THRESHOLD})]

=============================================================================
