------------------------ MODULE EvaluationRunProofs ------------------------
(***************************************************************************)
(* Theorems about EvaluationRun, for any number of overlapping requests,   *)
(* of questions, and of answers that arrive meanwhile.                     *)
(***************************************************************************)
EXTENDS EvaluationRun, SequenceTheorems, TLAPS

Value == Score \cup {None}
Row == Run \X Question
\* rows with their scores
Table == UNION {[D -> Value] : D \in SUBSET Row}

RunState ==
  [phase : Phase, force : BOOLEAN, upto : 0..N, done : 0..N, found : Row \cup {NoRow},
   seen : Value, written : Table, locked : SUBSET Row, report : Seq(Value), earlier : SUBSET Run]

CountInv == \A r \in Run : run[r].done <= run[r].upto /\ Len(run[r].report) = run[r].done

\* A request that judges has a question left; the row it has found is one of that question,
\* and it has looked at it because it is forced.
JudgeInv ==
  \A r \in Run : run[r].phase = "judging" =>
    /\ MoreToDo(r)
    /\ run[r].found = NoRow \/ (run[r].force /\ run[r].found \in RowsOf(Current(r)))

TypeInv ==
  /\ answered \in 0..N /\ score \in Table /\ run \in [Run -> RunState]
  /\ CountInv /\ JudgeInv
  /\ \A r \in Run : run[r].phase = "idle" => run[r] = NewRun

-----------------------------------------------------------------------------
LEMMA TableIs ==
  ASSUME NEW f
  PROVE  f \in Table <=> /\ f = [k \in DOMAIN f |-> f[k]]
                         /\ DOMAIN f \subseteq Row /\ \A k \in DOMAIN f : f[k] \in Value
  BY DEF Table

LEMMA EmptyTable == <<>> \in Table /\ DOMAIN <<>> = {}
<1>1. <<>> \in [{} -> Value]
  OBVIOUS
<1>2. QED
  BY <1>1 DEF Table

LEMMA JudgedIsValue == \A x : Judged(x) \in Value
  BY DEF Judged, Value

LEMMA NewRunState == NewRun \in RunState
  BY EmptyTable, CountAssumption DEF NewRun, RunState, Phase, Value

LEMMA RowFacts ==
  /\ NoRow \notin Row
  /\ \A k \in Row : k[1] \in Run /\ k[2] \in Question /\ k = <<k[1], k[2]>>
  BY RunAssumption DEF NoRow, Row

-----------------------------------------------------------------------------
(***************************************************************************)
(* What the steps of a request do, on its own record.                      *)
(***************************************************************************)
Others(r) == \A s \in Run \ {r} : run'[s] = run[s]

LEMMA Fields ==
  ASSUME NEW x \in RunState
  PROVE  /\ x.phase \in Phase /\ x.force \in BOOLEAN /\ x.upto \in 0..N /\ x.done \in 0..N
         /\ x.found \in Row \cup {NoRow} /\ x.seen \in Value /\ x.written \in Table
         /\ x.locked \subseteq Row /\ x.report \in Seq(Value) /\ x.earlier \subseteq Run
  BY DEF RunState

LEMMA Update ==
  ASSUME TypeInv, NEW r \in Run, NEW x \in RunState, run' = [run EXCEPT ![r] = x]
  PROVE  Others(r) /\ run' \in [Run -> RunState] /\ run'[r] = x
  BY DEF TypeInv, Others

LEMMA BeginIs ==
  ASSUME TypeInv, NEW r \in Run, NEW force \in BOOLEAN, Begin(r, force)
  PROVE  /\ Others(r) /\ run[r] = NewRun
         /\ run' \in [Run -> RunState]
         /\ run'[r] = [NewRun EXCEPT !.phase = "selecting", !.force = force, !.upto = answered,
                                     !.earlier = {s \in Run : run[s].phase = "committed"}]
<1>1. run[r] = NewRun
  BY DEF TypeInv, Begin
<1>2. run'[r] \in RunState
  BY <1>1, NewRunState DEF TypeInv, Begin, RunState, Phase
<1>3. QED
  BY <1>1, <1>2 DEF TypeInv, Begin, Others

\* A question is dealt with: the score v goes into the report.
Advanced(r, v) ==
  /\ run'[r].phase = "selecting" /\ run'[r].force = run[r].force /\ run'[r].upto = run[r].upto
  /\ run'[r].done = run[r].done + 1 /\ run'[r].report = Append(run[r].report, v)
  /\ run'[r].earlier = run[r].earlier

LEMMA SelectIs ==
  ASSUME TypeInv, NEW r \in Run, Select(r)
  PROVE  /\ Others(r) /\ run' \in [Run -> RunState] /\ UNCHANGED <<answered, score>>
         /\ run[r].phase = "selecting" /\ MoreToDo(r) /\ run'[r].written = run[r].written
         /\ \/ \E k \in RowsOf(Current(r)) : UseExisting(r) /\ Advanced(r, score[k])
            \/ /\ run'[r].phase = "judging"
               /\ \/ \E k \in RowsOf(Current(r)) :
                       ~UseExisting(r) /\ run'[r].found = k /\ run'[r].seen = score[k]
                  \/ RowsOf(Current(r)) = {} /\ run'[r].found = NoRow
               /\ run'[r].force = run[r].force /\ run'[r].upto = run[r].upto
               /\ run'[r].done = run[r].done /\ run'[r].report = run[r].report
               /\ run'[r].earlier = run[r].earlier
<1>1. /\ run[r] \in RunState /\ run \in [Run -> RunState] /\ score \in Table
      /\ run[r].phase = "selecting" /\ MoreToDo(r) /\ run[r].done + 1 \in 0..N
  <2>1. /\ run[r] \in RunState /\ run \in [Run -> RunState] /\ score \in Table
        /\ run[r].phase = "selecting" /\ MoreToDo(r)
    BY DEF TypeInv, Select
  <2>2. run[r].done + 1 \in 0..N
    BY <2>1, Fields, CountAssumption DEF MoreToDo
  <2>3. QED
    BY <2>1, <2>2
<1>2. ASSUME NEW k \in RowsOf(Current(r)) PROVE k \in Row /\ score[k] \in Value
  BY <1>1, <1>2, TableIs DEF RowsOf
<1>3. CASE \E k \in RowsOf(Current(r)) : UseExisting(r)
             /\ run' = [run EXCEPT ![r].done = @ + 1, ![r].report = Append(@, score[k])]
  <2>1. PICK k \in RowsOf(Current(r)) : UseExisting(r)
             /\ run' = [run EXCEPT ![r].done = @ + 1, ![r].report = Append(@, score[k])]
    BY <1>3
  <2> DEFINE x == [run[r] EXCEPT !.done = @ + 1, !.report = Append(@, score[k])]
  <2>2. Append(run[r].report, score[k]) \in Seq(Value)
    BY <1>1, <1>2, Fields, AppendProperties
  <2>3. x \in RunState
    BY <1>1, <2>2 DEF RunState
  <2>4. run' \in [Run -> RunState] /\ run'[r] = x /\ Others(r)
    <3>1. run' = [run EXCEPT ![r] = x]
      BY <1>1, <2>1
    <3>2. QED
      BY <2>3, <3>1, Update
  <2>5. Advanced(r, score[k]) /\ run'[r].written = run[r].written
    BY <1>1, <2>4 DEF Advanced, RunState
  <2>6. QED
    BY <1>1, <2>1, <2>4, <2>5 DEF Select
<1>4. CASE \E k \in RowsOf(Current(r)) : ~UseExisting(r)
             /\ run' = [run EXCEPT ![r].phase = "judging", ![r].found = k, ![r].seen = score[k]]
  <2>1. PICK k \in RowsOf(Current(r)) : ~UseExisting(r)
             /\ run' = [run EXCEPT ![r].phase = "judging", ![r].found = k, ![r].seen = score[k]]
    BY <1>4
  <2> DEFINE x == [run[r] EXCEPT !.phase = "judging", !.found = k, !.seen = score[k]]
  <2>2. x \in RunState
    BY <1>1, <1>2 DEF RunState, Phase
  <2>3. run' \in [Run -> RunState] /\ run'[r] = x /\ Others(r)
    <3>1. run' = [run EXCEPT ![r] = x]
      BY <1>1, <2>1
    <3>2. QED
      BY <2>2, <3>1, Update
  <2>4. /\ x.phase = "judging" /\ x.found = k /\ x.seen = score[k] /\ x.written = run[r].written
        /\ x.force = run[r].force /\ x.upto = run[r].upto /\ x.done = run[r].done
        /\ x.report = run[r].report /\ x.earlier = run[r].earlier
    BY <1>1 DEF RunState
  <2> HIDE DEF x
  <2>5. ~UseExisting(r) /\ run'[r].found = k /\ run'[r].seen = score[k] /\ k \in RowsOf(Current(r))
    BY <2>1, <2>3, <2>4
  <2>6. UNCHANGED <<answered, score>>
    BY DEF Select
  <2>7. QED
    BY <1>1, <2>3, <2>4, <2>5, <2>6
<1>5. CASE RowsOf(Current(r)) = {}
           /\ run' = [run EXCEPT ![r].phase = "judging", ![r].found = NoRow]
  <2> DEFINE x == [run[r] EXCEPT !.phase = "judging", !.found = NoRow]
  <2>1. x \in RunState
    BY <1>1 DEF RunState, Phase
  <2>2. run' = [run EXCEPT ![r] = x]
    BY <1>1, <1>5
  <2>3. run' \in [Run -> RunState] /\ run'[r] = x /\ Others(r)
    BY <2>1, <2>2, Update
  <2>4. /\ x.phase = "judging" /\ x.found = NoRow /\ x.written = run[r].written
        /\ x.force = run[r].force /\ x.upto = run[r].upto /\ x.done = run[r].done
        /\ x.report = run[r].report /\ x.earlier = run[r].earlier
    BY <1>1 DEF RunState
  <2>5. QED
    BY <1>1, <1>5, <2>3, <2>4 DEF Select
<1>6. QED
  BY <1>3, <1>4, <1>5 DEF Select

LEMMA JudgeIs ==
  ASSUME TypeInv, NEW r \in Run, Judge(r)
  PROVE  /\ Others(r) /\ run' \in [Run -> RunState] /\ UNCHANGED <<answered, score>>
         /\ run[r].phase = "judging"
         /\ \E v \in Value :
              /\ Advanced(r, v)
              /\ \/ /\ run[r].found # NoRow /\ v = run[r].seen
                    /\ run'[r].written = run[r].written
                 \/ \E k \in Row :
                      /\ k = IF run[r].found = NoRow THEN <<r, Current(r)>> ELSE run[r].found
                      /\ run'[r].written = [w \in DOMAIN run[r].written \cup {k} |->
                                              IF w = k THEN v ELSE run[r].written[w]]
<1> DEFINE k == IF run[r].found = NoRow THEN <<r, Current(r)>> ELSE run[r].found
           Longer(s) == [w \in DOMAIN run[r].written \cup {k} |->
                           IF w = k THEN s ELSE run[r].written[w]]
           Written(s) == IF run[r].found # NoRow /\ s = run[r].seen THEN run[r].written ELSE Longer(s)
<1>1. /\ run[r] \in RunState /\ run \in [Run -> RunState]
      /\ run[r].phase = "judging" /\ MoreToDo(r)
      /\ run[r].done + 1 \in 0..N /\ Current(r) \in Question
  <2>1. /\ run[r] \in RunState /\ run \in [Run -> RunState]
        /\ run[r].phase = "judging" /\ MoreToDo(r)
    BY DEF TypeInv, JudgeInv, Judge
  <2>2. run[r].done + 1 \in 0..N /\ Current(r) \in Question
    BY <2>1, Fields, CountAssumption DEF MoreToDo, Current, Question
  <2>3. QED
    BY <2>1, <2>2
<1>2. k \in Row
  BY <1>1 DEF RunState, Row
<1>3. PICK reply \in Reply \cup {None} :
        run' = [run EXCEPT
          ![r].phase = "selecting", ![r].done = @ + 1, ![r].found = NoRow, ![r].seen = None,
          ![r].written = Written(Judged(reply)), ![r].locked = @ \cup {k},
          ![r].report = Append(@, Judged(reply))]
  BY DEF Judge
<1> DEFINE v == Judged(reply)
<1>4. v \in Value
  BY JudgedIsValue
<1>5. Append(run[r].report, v) \in Seq(Value)
  BY <1>1, <1>4 DEF RunState
<1>6. Longer(v) \in Table
  BY <1>1, <1>2, <1>4, TableIs DEF RunState
<1>7. Written(v) \in Table /\ run[r].locked \cup {k} \in SUBSET Row
  BY <1>1, <1>2, <1>6 DEF RunState
<1> DEFINE x == [run[r] EXCEPT !.phase = "selecting", !.done = @ + 1, !.found = NoRow,
                   !.seen = None, !.written = Written(v), !.locked = @ \cup {k},
                   !.report = Append(@, v)]
<1> HIDE DEF Written, v, k
<1>8. x \in RunState
  BY <1>1, <1>5, <1>7 DEF RunState, Phase, Value
<1>9. /\ x.phase = "selecting" /\ x.force = run[r].force /\ x.upto = run[r].upto
      /\ x.done = run[r].done + 1 /\ x.report = Append(run[r].report, v)
      /\ x.earlier = run[r].earlier /\ x.written = Written(v)
  BY <1>1 DEF RunState
<1>10. run' = [run EXCEPT ![r] = x]
  BY <1>1, <1>3 DEF v, k
<1> HIDE DEF x
<1>11. run' \in [Run -> RunState] /\ run'[r] = x /\ Others(r)
  BY <1>8, <1>10, Update
<1>12. Advanced(r, v)
  BY <1>9, <1>11 DEF Advanced
<1>13. \/ run[r].found # NoRow /\ v = run[r].seen /\ run'[r].written = run[r].written
       \/ run'[r].written = Longer(v)
  BY <1>9, <1>11 DEF Written
<1>14. UNCHANGED <<answered, score>>
  BY DEF Judge
<1>15. QED
  BY <1>1, <1>2, <1>4, <1>11, <1>12, <1>13, <1>14 DEF k

LEMMA CommitIs ==
  ASSUME TypeInv, NEW r \in Run, Commit(r)
  PROVE  /\ Others(r) /\ run' \in [Run -> RunState] /\ UNCHANGED answered
         /\ run[r].phase = "selecting" /\ run[r].done = run[r].upto
         /\ run'[r].phase = "committed" /\ run'[r].force = run[r].force
         /\ run'[r].upto = run[r].upto /\ run'[r].done = 0 /\ run'[r].report = <<>>
         /\ run'[r].earlier = {}
         /\ score' \in Table
         /\ DOMAIN score' = DOMAIN score \cup DOMAIN run[r].written
         /\ \A k \in DOMAIN score' :
              score'[k] = IF k \in DOMAIN run[r].written THEN run[r].written[k] ELSE score[k]
<1>1. /\ run[r] \in RunState /\ run \in [Run -> RunState] /\ score \in Table
      /\ run[r].phase = "selecting" /\ run[r].done = run[r].upto
  BY CountAssumption DEF TypeInv, CountInv, Commit, RunState, MoreToDo
<1>2. score' = Committed(r) /\ Committed(r) \in Table
  <2>1. run[r].written \in Table
    BY <1>1, Fields
  <2>2. \A k \in DOMAIN Committed(r) : Committed(r)[k] \in Value
    BY <1>1, <2>1, TableIs DEF Committed
  <2>3. DOMAIN Committed(r) \subseteq Row
    BY <1>1, <2>1, TableIs DEF Committed
  <2>4. Committed(r) = [k \in DOMAIN Committed(r) |-> Committed(r)[k]]
    BY DEF Committed
  <2>5. QED
    BY <2>2, <2>3, <2>4, TableIs DEF Commit
<1>3. run'[r] = [NewRun EXCEPT !.phase = "committed", !.force = run[r].force, !.upto = run[r].upto]
      /\ Others(r) /\ run' \in [Run -> RunState]
  BY <1>1, NewRunState DEF Commit, Others, RunState, Phase
<1>4. QED
  BY <1>1, <1>2, <1>3 DEF Commit, Committed, NewRun

LEMMA AbortIs ==
  ASSUME TypeInv, NEW r \in Run, Abort(r)
  PROVE  /\ Others(r) /\ run' \in [Run -> RunState] /\ UNCHANGED <<answered, score>>
         /\ Running(r) /\ run'[r].phase = "aborted" /\ run'[r].upto = 0 /\ run'[r].done = 0
         /\ run'[r].report = <<>> /\ run'[r].earlier = {}
<1>1. run'[r] = [NewRun EXCEPT !.phase = "aborted"] /\ Others(r) /\ run' \in [Run -> RunState]
  BY NewRunState DEF Abort, Others, TypeInv, RunState, Phase
<1>2. QED
  BY <1>1 DEF Abort, NewRun

-----------------------------------------------------------------------------
LEMMA InitTypeInv == Init => TypeInv
<1> SUFFICES ASSUME Init PROVE TypeInv
  OBVIOUS
<1>1. answered \in 0..N
  BY CountAssumption DEF Init, Question
<1>2. score \in Table /\ run \in [Run -> RunState]
  BY EmptyTable, NewRunState DEF Init
<1>3. \A r \in Run : run[r] = NewRun
  BY DEF Init
<1>4. CountInv /\ JudgeInv
  BY <1>3 DEF CountInv, JudgeInv, NewRun
<1>5. QED
  BY <1>1, <1>2, <1>3, <1>4 DEF TypeInv

LEMMA NextTypeInv == TypeInv /\ [Next]_vars => TypeInv'
<1> SUFFICES ASSUME TypeInv, [Next]_vars PROVE TypeInv'
  OBVIOUS
<1> DEFINE OwnInv(r) == /\ run[r].done <= run[r].upto /\ Len(run[r].report) = run[r].done
                        /\ run[r].phase = "judging" =>
                             /\ MoreToDo(r)
                             /\ \/ run[r].found = NoRow
                                \/ run[r].force /\ run[r].found \in RowsOf(Current(r))
                        /\ run[r].phase = "idle" => run[r] = NewRun
<1>0. /\ \A r \in Run : OwnInv(r)
      /\ answered \in 0..N /\ score \in Table /\ run \in [Run -> RunState]
  BY DEF TypeInv, CountInv, JudgeInv
<1>1. SUFFICES /\ answered' \in 0..N /\ score' \in Table /\ run' \in [Run -> RunState]
               /\ \A r \in Run : OwnInv(r)'
  BY DEF TypeInv, CountInv, JudgeInv
<1>2. ASSUME NEW r \in Run, Others(r), DOMAIN score \subseteq DOMAIN score', OwnInv(r)'
      PROVE  \A s \in Run : OwnInv(s)'
  BY <1>0, <1>2 DEF Others, MoreToDo, RowsOf, Current
<1>3. CASE RecordAnswer
  BY <1>0, <1>3, CountAssumption DEF RecordAnswer, MoreToDo, RowsOf, Current
<1>4. ASSUME NEW r \in Run, NEW force \in BOOLEAN, Begin(r, force)
      PROVE  run' \in [Run -> RunState] /\ UNCHANGED <<answered, score>> /\ \A s \in Run : OwnInv(s)'
  <2>1. /\ run'[r].done = 0 /\ run'[r].upto = answered /\ run'[r].report = <<>>
        /\ run'[r].phase = "selecting"
    <3>1. run'[r] = [NewRun EXCEPT !.phase = "selecting", !.force = force, !.upto = answered,
                                   !.earlier = {s \in Run : run[s].phase = "committed"}]
      BY <1>4, BeginIs
    <3>2. QED
      BY <3>1 DEF NewRun
  <2>2. OwnInv(r)'
    BY <1>0, <2>1
  <2>3. QED
    BY <1>2, <1>4, <2>2, BeginIs DEF Begin
<1>5. ASSUME NEW r \in Run, NEW v, Advanced(r, v), MoreToDo(r), Others(r), UNCHANGED score
      PROVE  \A s \in Run : OwnInv(s)'
  <2>1. run[r].report \in Seq(Value) /\ run[r].done \in Nat /\ run[r].upto \in Nat
    BY <1>0, Fields
  <2>2. Len(run'[r].report) = Len(run[r].report) + 1
    BY <1>5, <2>1 DEF Advanced
  <2>3. OwnInv(r)'
    BY <1>0, <1>5, <2>1, <2>2 DEF Advanced, MoreToDo
  <2>4. QED
    BY <1>2, <1>5, <2>3
<1>6. ASSUME NEW r \in Run, Select(r)
      PROVE  run' \in [Run -> RunState] /\ UNCHANGED <<answered, score>> /\ \A s \in Run : OwnInv(s)'
  <2>1. CASE \E k \in RowsOf(Current(r)) : UseExisting(r) /\ Advanced(r, score[k])
    BY <1>5, <1>6, <2>1, SelectIs
  <2>2. CASE run'[r].phase = "judging"
    <3>1. /\ run'[r].force = run[r].force /\ run'[r].upto = run[r].upto /\ run[r].force \in BOOLEAN
          /\ run'[r].done = run[r].done /\ run'[r].report = run[r].report
          /\ \/ \E k \in RowsOf(Current(r)) : run[r].force /\ run'[r].found = k
             \/ run'[r].found = NoRow
      BY <1>0, <1>6, <2>2, SelectIs, Fields DEF UseExisting, Advanced
    <3>2. OwnInv(r)'
      BY <1>0, <1>6, <2>2, <3>1, SelectIs DEF MoreToDo, RowsOf, Current
    <3>3. QED
      BY <1>2, <1>6, <3>2, SelectIs
  <2>3. QED
    BY <1>6, <2>1, <2>2, SelectIs
<1>7. ASSUME NEW r \in Run, Judge(r)
      PROVE  run' \in [Run -> RunState] /\ UNCHANGED <<answered, score>> /\ \A s \in Run : OwnInv(s)'
  BY <1>0, <1>5, <1>7, JudgeIs
<1>8. ASSUME NEW r \in Run, Commit(r)
      PROVE  /\ run' \in [Run -> RunState] /\ UNCHANGED answered /\ score' \in Table
             /\ \A s \in Run : OwnInv(s)'
  <2>1. OwnInv(r)'
    <3>1. /\ run'[r].phase = "committed" /\ run'[r].done = 0 /\ run'[r].report = <<>>
          /\ run'[r].upto = run[r].upto
      BY <1>8, CommitIs
    <3>2. run[r].upto \in Nat
      BY <1>0, Fields, CountAssumption
    <3>3. QED
      BY <3>1, <3>2
  <2>2. DOMAIN score \subseteq DOMAIN score'
    BY <1>8, CommitIs
  <2>3. QED
    BY <1>2, <1>8, <2>1, <2>2, CommitIs
<1>9. ASSUME NEW r \in Run, Abort(r)
      PROVE  run' \in [Run -> RunState] /\ UNCHANGED <<answered, score>> /\ \A s \in Run : OwnInv(s)'
  BY <1>2, <1>9, AbortIs
<1>10. CASE UNCHANGED vars
  BY <1>0, <1>10 DEF vars, MoreToDo, RowsOf, Current
<1>11. CASE RecordAnswer \/ UNCHANGED vars
  BY <1>0, <1>3, <1>10, <1>11, CountAssumption DEF RecordAnswer, vars
<1>12. QED
  BY <1>0, <1>4, <1>6, <1>7, <1>8, <1>9, <1>3, <1>10, <1>11 DEF Next, Progress

\* The values every variable takes: a stored score is NULL or in the range 0..5, also when
\* the model's reply is not.
THEOREM TypeCorrect == Spec => []TypeOK
<1>1. TypeInv => TypeOK
  <2> SUFFICES ASSUME TypeInv PROVE TypeOK
    OBVIOUS
  <2>1. DOMAIN score \subseteq Row /\ \A k \in DOMAIN score : score[k] \in Value
    BY TableIs DEF TypeInv
  <2>2. ASSUME NEW r \in Run
        PROVE  /\ run[r].phase \in Phase /\ run[r].force \in BOOLEAN
               /\ run[r].upto \in 0..N /\ run[r].done \in 0..run[r].upto
               /\ run[r].found \in Row \cup {NoRow} /\ run[r].seen \in Value
               /\ run[r].locked \subseteq Row /\ Len(run[r].report) = run[r].done
    BY Fields, CountAssumption DEF TypeInv, CountInv
  <2>3. QED
    BY <2>1, <2>2 DEF TypeInv, TypeOK, Row, Value
<1>2. QED
  BY <1>1, InitTypeInv, NextTypeInv, PTL DEF Spec

-----------------------------------------------------------------------------
(***************************************************************************)
(* The inductive invariants.                                               *)
(***************************************************************************)

\* A stored row, and a request that was there before, belong to a committed request.
NameInv ==
  /\ \A k \in DOMAIN score : run[k[1]].phase = "committed"
  /\ \A r \in Run : \A s \in run[r].earlier : run[s].phase = "committed"

\* A running request has written rows of its own for questions it has dealt with, and, if it
\* is forced, new values for rows that are stored.
WorkInv(r) ==
  Running(r) => \A w \in DOMAIN run[r].written :
    w[2] \in 1..run[r].done /\ (w[1] = r \/ (run[r].force /\ w \in DOMAIN score))

\* Each question it has dealt with has a row, stored or about to be.
CoverInv(r) ==
  /\ Running(r) => \A q \in 1..run[r].done :
                     \E k \in DOMAIN score \cup DOMAIN run[r].written : k[2] = q
  /\ run[r].phase = "committed" => \A q \in 1..run[r].upto : RowsOf(q) # {}

\* What the requests before it scored, an unforced request neither scores nor is about to.
RerunInv(r) ==
  Running(r) /\ ~run[r].force => \A s \in run[r].earlier, q \in Question :
    <<s, q>> \in DOMAIN score =>
      <<r, q>> \notin DOMAIN run[r].written /\ ~(run[r].phase = "judging" /\ q = Current(r))

NoForced == \A f \in Run : ~(run[f].force /\ run[f].phase = "committed")

\* Row k holds v, seen from the transaction of r.
Holds(r, k, v) ==
  \/ k \in DOMAIN run[r].written /\ run[r].written[k] = v
  \/ k \in DOMAIN score \ DOMAIN run[r].written /\ score[k] = v

\* A row still has the score that was reported of it, and the row a forced request is about
\* to overwrite the score it has seen: this, unless a forced request has committed.
ReportInv(r) ==
  /\ Running(r) => \A i \in 1..run[r].done :
                     \E k \in Row : k[2] = i /\ Holds(r, k, run[r].report[i])
  /\ run[r].phase = "judging" /\ run[r].found # NoRow => score[run[r].found] = run[r].seen

RequestInv(r) == WorkInv(r) /\ CoverInv(r) /\ RerunInv(r) /\ (NoForced => ReportInv(r))

EvalInv == TypeInv /\ NameInv /\ \A r \in Run : RequestInv(r)

-----------------------------------------------------------------------------
\* A step of one request that leaves the table alone disturbs no other request.
LEMMA OwnStep ==
  ASSUME EvalInv, NEW r \in Run, Others(r), score' = score, RequestInv(r)',
         run[r].phase # "committed", run'[r].phase # "committed",
         \A s \in run'[r].earlier : s \in Run /\ run[s].phase = "committed"
  PROVE  NameInv' /\ \A s \in Run : RequestInv(s)'
<1>1. \A s \in Run : run[s].phase = "committed" => s # r /\ run'[s] = run[s]
  BY DEF Others
<1>2. score \in Table /\ run \in [Run -> RunState] /\ NameInv
  BY DEF EvalInv, TypeInv
<1>3. NameInv'
  <2>1. \A k \in DOMAIN score : k[1] \in Run
    BY <1>2, TableIs, RowFacts
  <2>2. \A s \in Run : \A t \in run[s].earlier : t \in Run
    BY <1>2, Fields
  <2>3. QED
    BY <1>1, <1>2, <2>1, <2>2 DEF NameInv, Others
<1>4. NoForced' => NoForced
  BY <1>1 DEF NoForced
<1>5. ASSUME NEW s \in Run, s # r PROVE RequestInv(s)'
  <2>1. run'[s] = run[s] /\ RequestInv(s)
    BY <1>5 DEF Others, EvalInv
  <2>2. WorkInv(s)' /\ CoverInv(s)'
    BY <2>1 DEF RequestInv, WorkInv, CoverInv, Running, RowsOf
  <2>3. RerunInv(s)'
    BY <2>1 DEF RequestInv, RerunInv, Running, Current
  <2>4. NoForced' => ReportInv(s)'
    BY <1>4, <2>1 DEF RequestInv, ReportInv, Running, Holds
  <2>5. QED
    BY <2>2, <2>3, <2>4 DEF RequestInv
<1>6. QED
  BY <1>3, <1>5

LEMMA BeginKeeps ==
  ASSUME EvalInv, NEW r \in Run, NEW force \in BOOLEAN, Begin(r, force)
  PROVE  NameInv' /\ \A s \in Run : RequestInv(s)'
<1>1. TypeInv /\ score' = score
  BY DEF EvalInv, Begin
<1>2. run[r].phase = "idle" /\ Others(r)
  BY <1>1, BeginIs DEF Begin
<1>3. /\ run'[r].phase = "selecting" /\ run'[r].done = 0 /\ run'[r].written = <<>>
      /\ run'[r].earlier = {s \in Run : run[s].phase = "committed"}
  <2>1. run'[r] = [NewRun EXCEPT !.phase = "selecting", !.force = force, !.upto = answered,
                                 !.earlier = {s \in Run : run[s].phase = "committed"}]
    BY <1>1, BeginIs
  <2>2. QED
    BY <2>1 DEF NewRun
<1>4. DOMAIN run'[r].written = {}
  BY <1>3, EmptyTable
<1>5. RequestInv(r)'
  BY <1>3, <1>4 DEF RequestInv, WorkInv, CoverInv, RerunInv, ReportInv
<1>6. QED
  BY <1>1, <1>2, <1>3, <1>5, OwnStep

LEMMA AbortKeeps ==
  ASSUME EvalInv, NEW r \in Run, Abort(r)
  PROVE  NameInv' /\ \A s \in Run : RequestInv(s)'
<1>1. TypeInv
  BY DEF EvalInv
<1>2. /\ Others(r) /\ score' = score /\ Running(r) /\ run'[r].phase = "aborted"
      /\ run'[r].earlier = {}
  BY <1>1, AbortIs
<1>3. RequestInv(r)'
  BY <1>2 DEF RequestInv, WorkInv, CoverInv, RerunInv, ReportInv, Running
<1>4. QED
  BY <1>2, <1>3, OwnStep DEF Running

\* A question is dealt with, and the row k of that question holds the reported score: the
\* rows of the earlier questions are as they were.
LEMMA AdvanceKeeps ==
  ASSUME EvalInv, NEW r \in Run, NEW v, Advanced(r, v), Running(r), MoreToDo(r),
         score' = score, run' \in [Run -> RunState],
         NEW k \in Row, k[2] = Current(r), k \in DOMAIN score \cup DOMAIN run'[r].written,
         NoForced => Holds(r, k, v)',
         \A w \in DOMAIN run'[r].written : w[2] \in 1..run[r].done + 1,
         \A w \in Row : w[2] \in 1..run[r].done =>
           /\ w \in DOMAIN run'[r].written <=> w \in DOMAIN run[r].written
           /\ w \in DOMAIN run[r].written => run'[r].written[w] = run[r].written[w]
  PROVE  CoverInv(r)' /\ (NoForced => ReportInv(r)')
<1>1. /\ run[r].done \in Nat /\ run[r].report \in Seq(Value) /\ Len(run[r].report) = run[r].done
      /\ run'[r].done = run[r].done + 1 /\ run'[r].phase = "selecting"
      /\ run'[r].report = Append(run[r].report, v)
  BY Fields, CountAssumption DEF EvalInv, TypeInv, CountInv, Advanced
<1>2. DOMAIN score \subseteq Row /\ DOMAIN run[r].written \subseteq Row
  BY Fields, TableIs DEF EvalInv, TypeInv
<1>3. CoverInv(r)'
  <2>1. ASSUME NEW q \in 1..run[r].done
        PROVE  \E w \in DOMAIN score \cup DOMAIN run'[r].written : w[2] = q
    <3>1. PICK w \in DOMAIN score \cup DOMAIN run[r].written : w[2] = q
      BY DEF EvalInv, RequestInv, CoverInv
    <3>2. QED
      BY <1>2, <3>1
  <2>2. k[2] = run[r].done + 1
    BY DEF Current
  <2>3. QED
    BY <1>1, <2>1, <2>2 DEF CoverInv
<1>4. ASSUME NoForced PROVE ReportInv(r)'
  <2>1. ASSUME NEW i \in 1..run[r].done
        PROVE  \E w \in Row : w[2] = i /\ Holds(r, w, run[r].report[i])'
    <3>1. PICK w \in Row : w[2] = i /\ Holds(r, w, run[r].report[i])
      BY <1>4 DEF EvalInv, RequestInv, ReportInv
    <3>2. Holds(r, w, run[r].report[i])'
      BY <3>1, <1>1 DEF Holds
    <3>3. QED
      BY <3>1, <3>2
  <2>2. /\ \A i \in 1..run[r].done : run'[r].report[i] = run[r].report[i]
        /\ run'[r].report[run[r].done + 1] = v
    BY <1>1
  <2>3. k[2] = run[r].done + 1 /\ Holds(r, k, v)'
    BY <1>4 DEF Current
  <2>4. QED
    BY <1>1, <2>1, <2>2, <2>3 DEF ReportInv
<1>5. QED
  BY <1>3, <1>4

LEMMA SelectKeeps ==
  ASSUME EvalInv, NEW r \in Run, Select(r)
  PROVE  NameInv' /\ \A s \in Run : RequestInv(s)'
<1>1. TypeInv /\ score \in Table /\ run[r].done \in Nat /\ run[r].earlier \subseteq Run
  BY Fields, CountAssumption DEF EvalInv, TypeInv
<1>2. /\ Others(r) /\ run' \in [Run -> RunState] /\ score' = score
      /\ run[r].phase = "selecting" /\ MoreToDo(r) /\ run'[r].written = run[r].written
      /\ run'[r].earlier = run[r].earlier /\ run'[r].force = run[r].force
  BY <1>1, SelectIs DEF Advanced
<1>3. Running(r) /\ RequestInv(r) /\ run[r].force \in BOOLEAN
  BY <1>1, <1>2, Fields DEF Running, EvalInv, TypeInv
<1>4. \A k \in RowsOf(Current(r)) :
        k \in Row /\ k \in DOMAIN score /\ k[2] = Current(r) /\ k \notin DOMAIN run[r].written
  BY <1>1, <1>3, TableIs DEF RowsOf, RequestInv, WorkInv, Current
<1>5. RequestInv(r)'
  <2>1. CASE \E k \in RowsOf(Current(r)) : UseExisting(r) /\ Advanced(r, score[k])
    <3>1. PICK k \in RowsOf(Current(r)) : UseExisting(r) /\ Advanced(r, score[k])
      BY <2>1
    <3>2. Holds(r, k, score[k])'
      BY <1>2, <1>4 DEF Holds
    <3>3. \A w \in DOMAIN run'[r].written : w[2] \in 1..run[r].done + 1
      BY <1>1, <1>2, <1>3 DEF RequestInv, WorkInv
    <3>4. CoverInv(r)' /\ (NoForced => ReportInv(r)')
      BY <1>2, <1>3, <1>4, <3>1, <3>2, <3>3, AdvanceKeeps
    <3>5. WorkInv(r)'
      BY <1>1, <1>2, <1>3, <3>1 DEF RequestInv, WorkInv, Advanced
    <3>6. RerunInv(r)'
      BY <1>2, <1>3, <3>1 DEF RequestInv, RerunInv, Advanced
    <3>7. NoForced' => NoForced
      BY <1>2 DEF NoForced, Others
    <3>8. QED
      BY <3>4, <3>5, <3>6, <3>7 DEF RequestInv
  <2>2. CASE run'[r].phase = "judging"
    <3>1. /\ \/ \E k \in RowsOf(Current(r)) :
                  ~UseExisting(r) /\ run'[r].found = k /\ run'[r].seen = score[k]
             \/ RowsOf(Current(r)) = {} /\ run'[r].found = NoRow
          /\ run'[r].done = run[r].done /\ run'[r].report = run[r].report
      BY <1>1, <2>2, SelectIs DEF Advanced
    <3>2. WorkInv(r)' /\ CoverInv(r)'
      BY <1>2, <1>3, <2>2, <3>1 DEF RequestInv, WorkInv, CoverInv
    <3>3. RerunInv(r)'
      BY <1>1, <1>2, <1>3, <2>2, <3>1 DEF RequestInv, RerunInv, UseExisting, Current, RowsOf
    <3>4. NoForced => ReportInv(r)'
      BY <1>2, <1>3, <2>2, <3>1 DEF RequestInv, ReportInv, Holds
    <3>5. NoForced' => NoForced
      BY <1>2 DEF NoForced, Others
    <3>6. QED
      BY <3>2, <3>3, <3>4, <3>5 DEF RequestInv
  <2>3. QED
    BY <1>1, <2>1, <2>2, SelectIs
<1>6. run'[r].phase # "committed" /\ \A s \in run'[r].earlier : s \in Run /\ run[s].phase = "committed"
  BY <1>1, <1>2, SelectIs DEF Advanced, EvalInv, NameInv
<1>7. QED
  BY <1>2, <1>5, <1>6, OwnStep

LEMMA JudgeKeeps ==
  ASSUME EvalInv, NEW r \in Run, Judge(r)
  PROVE  NameInv' /\ \A s \in Run : RequestInv(s)'
<1>1. TypeInv /\ run[r] \in RunState /\ score \in Table
  BY DEF EvalInv, TypeInv
<1>2. PICK v \in Value :
        /\ Advanced(r, v)
        /\ \/ /\ run[r].found # NoRow /\ v = run[r].seen
              /\ run'[r].written = run[r].written
           \/ \E k \in Row :
                /\ k = IF run[r].found = NoRow THEN <<r, Current(r)>> ELSE run[r].found
                /\ run'[r].written = [w \in DOMAIN run[r].written \cup {k} |->
                                        IF w = k THEN v ELSE run[r].written[w]]
  BY <1>1, JudgeIs
<1>3. /\ Others(r) /\ run' \in [Run -> RunState] /\ score' = score
      /\ run[r].phase = "judging"
  BY <1>1, JudgeIs
<1>4. /\ Running(r) /\ MoreToDo(r) /\ RequestInv(r) /\ run[r].done \in Nat
      /\ run[r].force \in BOOLEAN /\ run[r].earlier \subseteq Run
      /\ run[r].found # NoRow => run[r].force /\ run[r].found \in RowsOf(Current(r))
  BY <1>1, <1>3, Fields, CountAssumption DEF Running, EvalInv, TypeInv, JudgeInv
<1>5. PICK k : k = IF run[r].found = NoRow THEN <<r, Current(r)>> ELSE run[r].found
  OBVIOUS
<1>6. /\ k \in Row /\ k[2] = Current(r) /\ Current(r) = run[r].done + 1 /\ Current(r) \in Question
      /\ k \in DOMAIN score => run[r].found # NoRow \/ run[r].phase = "committed"
      /\ k[1] = r \/ (run[r].force /\ k \in DOMAIN score)
      /\ run[r].found # NoRow => k \in DOMAIN score
  <2>1. Current(r) = run[r].done + 1 /\ Current(r) \in Question
    BY <1>1, <1>4, Fields, CountAssumption DEF Current, MoreToDo, Question
  <2>2. CASE run[r].found = NoRow
    <3>1. k = <<r, Current(r)>> /\ k \in Row
      BY <1>5, <2>1, <2>2 DEF Row
    <3>2. QED
      BY <2>1, <2>2, <3>1 DEF EvalInv, NameInv
  <2>3. CASE run[r].found # NoRow
    BY <1>1, <1>4, <1>5, <2>1, <2>3, TableIs DEF RowsOf
  <2>4. QED
    BY <2>2, <2>3
<1>7. \A w \in DOMAIN run[r].written :
        w[2] \in 1..run[r].done /\ (w[1] = r \/ (run[r].force /\ w \in DOMAIN score))
  BY <1>4 DEF RequestInv, WorkInv
<1>8. /\ \/ /\ run[r].found # NoRow /\ v = run[r].seen
            /\ run'[r].written = run[r].written
         \/ run'[r].written = [w \in DOMAIN run[r].written \cup {k} |->
                                 IF w = k THEN v ELSE run[r].written[w]]
  BY <1>2, <1>5
<1>9. /\ DOMAIN run'[r].written \subseteq DOMAIN run[r].written \cup {k}
      /\ k \in DOMAIN score \cup DOMAIN run'[r].written
      /\ \A w \in Row : w # k =>
           /\ w \in DOMAIN run'[r].written <=> w \in DOMAIN run[r].written
           /\ w \in DOMAIN run[r].written => run'[r].written[w] = run[r].written[w]
  BY <1>6, <1>8
<1>10. NoForced => Holds(r, k, v)'
  <2>1. CASE run[r].found # NoRow /\ v = run[r].seen /\ run'[r].written = run[r].written
    <3>1. k = run[r].found /\ k \in DOMAIN score /\ k \notin DOMAIN run[r].written
      BY <1>4, <1>5, <1>6, <1>7, <2>1
    <3>2. NoForced => score[k] = v
      BY <1>3, <1>4, <2>1, <3>1 DEF RequestInv, ReportInv
    <3>3. QED
      BY <1>3, <2>1, <3>1, <3>2 DEF Holds
  <2>2. CASE run'[r].written = [w \in DOMAIN run[r].written \cup {k} |->
                                  IF w = k THEN v ELSE run[r].written[w]]
    BY <2>2 DEF Holds
  <2>3. QED
    BY <1>8, <2>1, <2>2
<1>11. CoverInv(r)' /\ (NoForced => ReportInv(r)')
  <2>1. \A w \in DOMAIN run'[r].written : w[2] \in 1..run[r].done + 1
    BY <1>4, <1>6, <1>7, <1>9
  <2>2. \A w \in Row : w[2] \in 1..run[r].done => w # k
    BY <1>4, <1>6
  <2>3. QED
    BY <1>2, <1>3, <1>4, <1>6, <1>9, <1>10, <2>1, <2>2, AdvanceKeeps
<1>12. WorkInv(r)'
  BY <1>2, <1>3, <1>4, <1>6, <1>7, <1>9 DEF WorkInv, Advanced
<1>13. RerunInv(r)'
  <2>1. ASSUME ~run[r].force, NEW s \in run[r].earlier, NEW q \in Question,
               <<s, q>> \in DOMAIN score, <<r, q>> \in DOMAIN run'[r].written
        PROVE  FALSE
    <3>1. <<r, q>> \in DOMAIN run[r].written \/ <<r, q>> = k
      BY <1>9, <2>1
    <3>2. <<r, q>> \notin DOMAIN run[r].written /\ q # Current(r)
      BY <1>3, <1>4, <2>1 DEF RequestInv, RerunInv
    <3>3. QED
      BY <1>6, <3>1, <3>2
  <2>2. QED
    BY <1>2, <1>3, <2>1 DEF RerunInv, Advanced
<1>14. NoForced' => NoForced
  BY <1>3 DEF NoForced, Others
<1>15. RequestInv(r)'
  BY <1>11, <1>12, <1>13, <1>14 DEF RequestInv
<1>16. run'[r].phase # "committed" /\ \A s \in run'[r].earlier : s \in Run /\ run[s].phase = "committed"
  BY <1>2, <1>4 DEF Advanced, EvalInv, NameInv
<1>17. QED
  BY <1>3, <1>15, <1>16, OwnStep

\* A commit adds rows named by the request, and changes stored ones only if it is forced.
LEMMA CommitAdds ==
  ASSUME EvalInv, NEW r \in Run, Commit(r)
  PROVE  /\ DOMAIN score \subseteq DOMAIN score'
         /\ \A k \in DOMAIN score' : k \in DOMAIN score \/ k[1] = r
         /\ ~run[r].force => \A k \in DOMAIN score : score'[k] = score[k]
         /\ \A k \in DOMAIN score : k[1] # r
<1>1. /\ run[r].phase = "selecting" /\ RequestInv(r)
      /\ DOMAIN score' = DOMAIN score \cup DOMAIN run[r].written
      /\ \A k \in DOMAIN score' :
           score'[k] = IF k \in DOMAIN run[r].written THEN run[r].written[k] ELSE score[k]
  BY CommitIs DEF EvalInv
<1>2. \A k \in DOMAIN run[r].written : k[1] = r \/ (run[r].force /\ k \in DOMAIN score)
  BY <1>1 DEF RequestInv, WorkInv, Running
<1>3. \A k \in DOMAIN score : k[1] # r
  BY <1>1 DEF EvalInv, NameInv
<1>4. QED
  BY <1>1, <1>2, <1>3

LEMMA CommitKeeps ==
  ASSUME EvalInv, NEW r \in Run, Commit(r)
  PROVE  NameInv' /\ \A s \in Run : RequestInv(s)'
<1>1. /\ TypeInv /\ score \in Table /\ score' \in Table /\ run \in [Run -> RunState]
      /\ Others(r) /\ run[r].phase = "selecting" /\ run[r].done = run[r].upto
      /\ run'[r].phase = "committed" /\ run'[r].force = run[r].force
      /\ run'[r].upto = run[r].upto /\ run'[r].earlier = {}
      /\ DOMAIN score' = DOMAIN score \cup DOMAIN run[r].written
  BY CommitIs DEF EvalInv, TypeInv
<1>2. \A s \in Run : run[s].phase = "committed" => s # r /\ run'[s] = run[s]
  BY <1>1 DEF Others
<1>3. \A k \in DOMAIN score' : k[1] \in Run /\ k[2] \in Question /\ k = <<k[1], k[2]>>
  BY <1>1, TableIs, RowFacts
<1>4. /\ DOMAIN score \subseteq DOMAIN score'
      /\ \A k \in DOMAIN score' : k \in DOMAIN score \/ k[1] = r
      /\ ~run[r].force => \A k \in DOMAIN score : score'[k] = score[k]
  BY CommitAdds
<1>5. \A s \in Run : \A t \in run[s].earlier : t \in Run /\ run[t].phase = "committed"
  BY <1>1, Fields DEF EvalInv, NameInv
<1>6. NameInv'
  BY <1>1, <1>2, <1>3, <1>4, <1>5 DEF EvalInv, NameInv, Others
<1>7. NoForced' => NoForced /\ ~run[r].force
  BY <1>1, <1>2 DEF NoForced
<1>8. RequestInv(r)'
  <2>1. \A q \in 1..run[r].done : \E k \in DOMAIN score' : k[2] = q
    BY <1>1 DEF EvalInv, RequestInv, CoverInv, Running
  <2>2. QED
    BY <1>1, <2>1 DEF RequestInv, WorkInv, CoverInv, RerunInv, ReportInv, Running, RowsOf
<1>9. ASSUME NEW s \in Run, s # r PROVE RequestInv(s)'
  <2>1. run'[s] = run[s] /\ RequestInv(s)
    BY <1>1, <1>9 DEF Others, EvalInv
  <2>2. WorkInv(s)'
    BY <1>4, <2>1 DEF RequestInv, WorkInv, Running
  <2>3. CoverInv(s)'
    BY <1>4, <2>1 DEF RequestInv, CoverInv, Running, RowsOf
  <2>4. RerunInv(s)'
    <3>1. \A t \in run[s].earlier, q \in Question :
            <<t, q>> \in DOMAIN score' => <<t, q>> \in DOMAIN score
      BY <1>2, <1>4, <1>5
    <3>2. QED
      BY <2>1, <3>1 DEF RequestInv, RerunInv, Running, Current
  <2>5. ASSUME NoForced' PROVE ReportInv(s)'
    <3>1. ReportInv(s) /\ \A k \in DOMAIN score : k \in DOMAIN score' /\ score'[k] = score[k]
      BY <1>4, <1>7, <2>1, <2>5 DEF RequestInv
    <3>2. \A k, v : Holds(s, k, v) => Holds(s, k, v)'
      BY <2>1, <3>1 DEF Holds
    <3>3. run[s].phase = "judging" /\ run[s].found # NoRow => run[s].found \in DOMAIN score
      BY DEF EvalInv, TypeInv, JudgeInv, RowsOf
    <3>4. QED
      BY <2>1, <3>1, <3>2, <3>3 DEF ReportInv, Running
  <2>6. QED
    BY <2>2, <2>3, <2>4, <2>5 DEF RequestInv
<1>10. QED
  BY <1>6, <1>8, <1>9

-----------------------------------------------------------------------------
LEMMA InitEvalInv == Init => EvalInv
<1> SUFFICES ASSUME Init PROVE EvalInv
  OBVIOUS
<1>1. TypeInv
  BY InitTypeInv
<1>2. \A r \in Run : run[r].phase = "idle" /\ run[r].earlier = {}
  BY DEF Init, NewRun
<1>3. NameInv
  BY <1>2, EmptyTable DEF Init, NameInv
<1>4. \A r \in Run : RequestInv(r)
  BY <1>2 DEF RequestInv, WorkInv, CoverInv, RerunInv, ReportInv, Running
<1>5. QED
  BY <1>1, <1>3, <1>4 DEF EvalInv

LEMMA NextEvalInv == EvalInv /\ [Next]_vars => EvalInv'
<1> SUFFICES ASSUME EvalInv, [Next]_vars PROVE EvalInv'
  OBVIOUS
<1>1. TypeInv'
  BY NextTypeInv DEF EvalInv
<1>2. SUFFICES NameInv' /\ \A s \in Run : RequestInv(s)'
  BY <1>1 DEF EvalInv
<1>3. CASE RecordAnswer \/ UNCHANGED vars
  <2>1. run' = run /\ score' = score
    BY <1>3 DEF RecordAnswer, vars
  <2>2. NameInv'
    BY <2>1 DEF EvalInv, NameInv
  <2>3. ASSUME NEW s \in Run PROVE RequestInv(s)'
    <3>1. RequestInv(s) /\ (NoForced' <=> NoForced)
      BY <2>1 DEF EvalInv, NoForced
    <3>2. WorkInv(s)' /\ CoverInv(s)' /\ RerunInv(s)'
      BY <2>1, <3>1 DEF RequestInv, WorkInv, CoverInv, RerunInv, Running, RowsOf, Current
    <3>3. ReportInv(s) => ReportInv(s)'
      BY <2>1 DEF ReportInv, Running, Holds
    <3>4. QED
      BY <3>1, <3>2, <3>3 DEF RequestInv
  <2>4. QED
    BY <2>2, <2>3
<1>4. CASE \E r \in Run : Progress(r) \/ Abort(r) \/ \E force \in BOOLEAN : Begin(r, force)
  BY <1>4, BeginKeeps, SelectKeeps, JudgeKeeps, CommitKeeps, AbortKeeps DEF Progress
<1>5. QED
  BY <1>3, <1>4 DEF Next

THEOREM Invariant == Spec => []EvalInv
  BY InitEvalInv, NextEvalInv, PTL DEF Spec

\* A request that has committed leaves a row for every question that was answered when it
\* began, whatever the others inserted, overwrote or rolled back meanwhile.
THEOREM EveryAnswerHasARow == Spec => []CommittedCovers
<1>1. EvalInv => CommittedCovers
  BY DEF EvalInv, RequestInv, CoverInv, CommittedCovers
<1>2. QED
  BY <1>1, Invariant, PTL

\* Which step commits.
LEMMA OnlyCommit ==
  ASSUME EvalInv, [Next]_vars, NEW r \in Run,
         run[r].phase # "committed", run'[r].phase = "committed"
  PROVE  Commit(r)
<1>1. TypeInv
  BY DEF EvalInv
<1>2. \A s \in Run : Others(s) => r = s
  BY DEF Others
<1>3. run' # run
  OBVIOUS
<1>4. ASSUME NEW s \in Run, NEW force \in BOOLEAN, Begin(s, force) PROVE FALSE
  <2>1. r = s /\ run'[s] = [NewRun EXCEPT !.phase = "selecting", !.force = force, !.upto = answered,
                                 !.earlier = {t \in Run : run[t].phase = "committed"}]
    BY <1>1, <1>2, <1>4, BeginIs
  <2>2. run'[s].phase = "selecting"
    BY <2>1 DEF NewRun
  <2>3. QED
    BY <2>1, <2>2
<1>5. \A s \in Run : ~Select(s)
  BY <1>1, <1>2, SelectIs DEF Advanced
<1>6. \A s \in Run : ~Judge(s)
  BY <1>1, <1>2, JudgeIs DEF Advanced
<1>7. \A s \in Run : ~Abort(s)
  BY <1>1, <1>2, AbortIs
<1>8. \A s \in Run : Commit(s) => r = s
  BY <1>1, <1>2, CommitIs
<1>9. QED
  BY <1>3, <1>4, <1>5, <1>6, <1>7, <1>8 DEF Next, Progress, RecordAnswer, vars

\* An unforced request changes no stored score, and adds no row for a question that a
\* request which had committed when it began had scored.
THEOREM RerunChangesNothing == Spec => RerunIdempotent
<1>1. ASSUME EvalInv, [Next]_vars, NEW r \in Run,
             run[r].phase # "committed", run'[r].phase = "committed", ~run[r].force
      PROVE  /\ \A k \in DOMAIN score : score'[k] = score[k]
             /\ \A s \in run[r].earlier, q \in Question :
                  <<s, q>> \in DOMAIN score => <<r, q>> \notin DOMAIN score'
  <2>1. Commit(r)
    BY <1>1, OnlyCommit
  <2>2. /\ RequestInv(r) /\ run[r].phase = "selecting"
        /\ DOMAIN score' = DOMAIN score \cup DOMAIN run[r].written
    BY <1>1, <2>1, CommitIs DEF EvalInv
  <2>3. \A q \in Question : <<r, q>> \notin DOMAIN score
    BY <1>1, <2>1, CommitAdds
  <2>4. QED
    BY <1>1, <2>1, <2>2, <2>3, CommitAdds DEF RequestInv, RerunInv, Running
<1>2. EvalInv /\ [Next]_vars => [\A r \in Run : run[r].phase # "committed" /\ run'[r].phase = "committed" /\ ~run[r].force =>
       /\ \A k \in DOMAIN score : score'[k] = score[k]
       /\ \A s \in run[r].earlier, q \in Question :
            <<s, q>> \in DOMAIN score => <<r, q>> \notin DOMAIN score']_vars
  BY <1>1
<1>3. QED
  BY <1>2, Invariant, PTL DEF Spec, RerunIdempotent

\* Whatever overlaps, the score a request reports of a question is in the table when it
\* commits, unless a forced request has overwritten it.
THEOREM ReportIsTheTable == Spec => ReportIsStored
<1>1. ASSUME EvalInv, [Next]_vars, NEW r \in Run,
             run[r].phase # "committed", run'[r].phase = "committed", NoForced
      PROVE  \A i \in 1..run[r].upto :
               \E k \in DOMAIN score' : k[2] = i /\ score'[k] = run[r].report[i]
  <2>1. Commit(r)
    BY <1>1, OnlyCommit
  <2>2. /\ ReportInv(r) /\ run[r].phase = "selecting" /\ run[r].done = run[r].upto
        /\ DOMAIN score' = DOMAIN score \cup DOMAIN run[r].written
        /\ \A k \in DOMAIN score' :
             score'[k] = IF k \in DOMAIN run[r].written THEN run[r].written[k] ELSE score[k]
    BY <1>1, <2>1, CommitIs DEF EvalInv, RequestInv
  <2>3. QED
    BY <2>2 DEF ReportInv, Running, Holds
<1>2. EvalInv /\ [Next]_vars => [\A r \in Run : run[r].phase # "committed" /\ run'[r].phase = "committed" =>
       \/ \A i \in 1..run[r].upto :
            \E k \in DOMAIN score' : k[2] = i /\ score'[k] = run[r].report[i]
       \/ \E f \in Run : run[f].force /\ run[f].phase = "committed"]_vars
  BY <1>1 DEF NoForced
<1>3. QED
  BY <1>2, Invariant, PTL DEF Spec, ReportIsStored

=============================================================================
