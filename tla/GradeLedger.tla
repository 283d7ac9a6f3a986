---------------------------- MODULE GradeLedger ----------------------------
(***************************************************************************)
(* What silent grading promises, with no worker, job, lease or retry: an   *)
(* answer is accepted once and given at most one score, and the step that  *)
(* scores the last answer of a session stamps the session with the         *)
(* aggregate of exactly the scores on record.  Only an answer that two     *)
(* graders worked on (contested) may be scored again or make a completed   *)
(* session be stamped again; no score is ever erased even then.            *)
(***************************************************************************)
EXTENDS AssessmentScoring

VARIABLES answered, score, completed, stamp, contested

ledgerVars == <<answered, score, completed, stamp, contested>>

Init ==
  /\ answered \in [Session -> {0, N}]
  /\ score = [a \in Answer |-> Null]
  /\ completed = [s \in Session |-> FALSE]
  /\ stamp = [s \in Session |-> Null]
  /\ contested = {}

Accept(s) ==
  /\ answered[s] < N
  /\ answered' = [answered EXCEPT ![s] = @ + 1]
  /\ UNCHANGED <<score, completed, stamp, contested>>

Grade(a, g) ==
  LET s == a[1] IN
  /\ a[2] <= answered[s]
  /\ score[a] = Null
  /\ score' = [score EXCEPT ![a] = g]
  /\ IF AllGraded(s, answered[s], score')
       THEN /\ completed' = [completed EXCEPT ![s] = TRUE]
            /\ stamp' = [stamp EXCEPT ![s] = Summary(s, score')]
       ELSE UNCHANGED <<completed, stamp>>
  /\ UNCHANGED <<answered, contested>>

\* two graders are, or were, at work on a
Contest(a) ==
  /\ contested' = contested \cup {a}
  /\ UNCHANGED <<answered, score, completed, stamp>>

\* the later grader of a records its own score; a completed session may be stamped with it
Regrade(a, g) ==
  LET s == a[1] IN
  /\ a \in contested
  /\ score[a] # Null
  /\ score' = [score EXCEPT ![a] = g]
  /\ \/ UNCHANGED stamp
     \/ completed[s] /\ stamp' = [stamp EXCEPT ![s] = Summary(s, score')]
  /\ UNCHANGED <<answered, completed, contested>>

\* the later grader of a failed: a completed session is stamped as if a had no score, and
\* keeps the average of the earlier stamp if that leaves none
Restamp(a) ==
  LET s == a[1]
      others == Summary(s, [score EXCEPT ![a] = Null])
  IN
  /\ a \in contested
  /\ completed[s]
  /\ stamp' = [stamp EXCEPT ![s] = IF others.count = 0 THEN [@ EXCEPT !.passed = others.passed]
                                                      ELSE others]
  /\ UNCHANGED <<answered, score, completed, contested>>

Next ==
  \/ \E s \in Session : Accept(s)
  \/ \E a \in Answer :
       \/ \E g \in Scores : Grade(a, g) \/ Regrade(a, g)
       \/ Contest(a) \/ Restamp(a)

Spec == Init /\ [][Next]_ledgerVars

=============================================================================
