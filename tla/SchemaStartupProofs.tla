------------------------ MODULE SchemaStartupProofs ------------------------
(***************************************************************************)
(* Proofs about SchemaStartup, for any number of processes, any lists of   *)
(* objects and any dependencies between them, and any number of stops and  *)
(* lock timeouts.                                                          *)
(*                                                                         *)
(* What a process serves on was looked at one step at a time, long before. *)
(* PassedInv says that what a process has passed stays there: nothing is   *)
(* ever dropped, and what a step did not find missing it need not create.  *)
(***************************************************************************)
EXTENDS SchemaStartup, TLAPS

\* the steps a process has behind it
Passed(p) == IF proc[p].phase = "serving" THEN Step ELSE {i \in Step : i < proc[p].step}

PassedInv ==
  \A p \in Process :
    /\ proc[p].phase # "down" => \A i \in Passed(p) : Objects[i] \subseteq schema
    /\ proc[p].phase = "applying" => Objects[proc[p].step] \ proc[p].missing \subseteq schema

IInv == TypeOK /\ PassedInv

LEMMA InitInv == Init => IInv
  BY ObjectsAssumption, FaultsAssumption
     DEF Init, IInv, TypeOK, PassedInv, Down, Phase, Step, Required, Indexes, Constraints

\* What Advanced leaves behind: the step just done, and those before it.
LEMMA AdvancedPassed ==
  ASSUME TypeOK, NEW p \in Process, proc'[p] = Advanced(proc[p].step)
  PROVE  /\ proc'[p] \in [phase : Phase, step : Step, missing : SUBSET Object]
         /\ proc'[p].phase # "applying"
         /\ Passed(p)' \subseteq {i \in Step : i <= proc[p].step}
<1>1. proc[p].step \in Step
  BY DEF TypeOK
<1>2. CASE proc[p].step = Constraints
  BY <1>1, <1>2 DEF Advanced, Passed, Step, Constraints, Phase
<1>3. CASE proc[p].step # Constraints
  BY <1>1, <1>3 DEF Advanced, Passed, Step, Constraints, Phase
<1>4. QED
  BY <1>2, <1>3

LEMMA NextInv == IInv /\ [Next]_vars => IInv'
<1> SUFFICES ASSUME TypeOK, PassedInv, [Next]_vars PROVE TypeOK' /\ PassedInv'
  BY DEF IInv
<1> USE FaultsAssumption, ObjectsAssumption, StatementAssumption
<1>a. /\ proc \in [Process -> [phase : Phase, step : Step, missing : SUBSET Object]]
      /\ schema \subseteq Object /\ violated \subseteq Object /\ faults \in 0..MaxFaults
  BY DEF TypeOK
<1>b. ASSUME NEW p \in Process, \A q \in Process \ {p} : proc'[q] = proc[q],
             schema \subseteq schema',
             proc'[p].phase # "down" => \A i \in Passed(p)' : Objects[i] \subseteq schema',
             proc'[p].phase = "applying" =>
               Objects[proc'[p].step] \ proc'[p].missing \subseteq schema'
      PROVE  PassedInv'
  BY <1>b DEF PassedInv, Passed
<1>1. ASSUME NEW p \in Process, Start(p) PROVE TypeOK' /\ PassedInv'
  <2>1. /\ proc' = [proc EXCEPT ![p] = [phase |-> "checking", step |-> 1, missing |-> {}]]
        /\ UNCHANGED <<schema, violated, faults>>
    BY <1>1 DEF Start
  <2>2. TypeOK'
    BY <1>a, <2>1 DEF TypeOK, Phase, Step
  <2>3. Passed(p)' = {} /\ proc'[p].phase = "checking"
    BY <1>a, <2>1 DEF Passed, Step
  <2>4. QED
    BY <1>a, <1>b, <2>1, <2>2, <2>3
<1>2. ASSUME NEW p \in Process, Check(p) PROVE TypeOK' /\ PassedInv'
  <2> DEFINE i == proc[p].step
  <2>1. UNCHANGED <<schema, violated, faults>> /\ i \in Step /\ proc[p].phase = "checking"
    BY <1>a, <1>2 DEF Check
  <2>2. \A q \in Process \ {p} : proc'[q] = proc[q]
    BY <1>a, <1>2 DEF Check
  <2>3. \A j \in Step : j < i => Objects[j] \subseteq schema
    BY <2>1 DEF PassedInv, Passed
  <2>4. CASE Missing(i) = {}
    <3>1. proc' = [proc EXCEPT ![p] = Advanced(i)]
      BY <1>2, <2>4 DEF Check
    <3>2. proc'[p] = Advanced(i)
      BY <1>a, <3>1
    <3>3. \A j \in Passed(p)' : Objects[j] \subseteq schema
      BY <2>1, <2>3, <2>4, <3>2, AdvancedPassed DEF Missing, Step
    <3>4. PassedInv'
      BY <1>b, <2>1, <2>2, <3>2, <3>3, AdvancedPassed
    <3>5. TypeOK'
      BY <1>a, <2>1, <3>1, <3>2, AdvancedPassed DEF TypeOK
    <3>6. QED
      BY <3>4, <3>5
  <2>5. CASE Missing(i) # {}
    <3>1. proc' = [proc EXCEPT ![p] = [phase |-> "applying", step |-> i, missing |-> Missing(i)]]
      BY <1>2, <2>5 DEF Check
    <3>2. proc'[p] = [phase |-> "applying", step |-> i, missing |-> Missing(i)]
      BY <1>a, <3>1
    <3>3. Missing(i) \subseteq Object
      BY <2>1 DEF Missing
    <3>4. TypeOK'
      BY <1>a, <2>1, <3>1, <3>3 DEF TypeOK, Phase
    <3>5. Passed(p)' = {j \in Step : j < i} /\ Objects[i] \ Missing(i) \subseteq schema
      BY <3>2 DEF Passed, Missing
    <3>6. PassedInv'
      BY <1>b, <2>1, <2>2, <2>3, <3>2, <3>5
    <3>7. QED
      BY <3>4, <3>6
  <2>6. QED
    BY <2>4, <2>5
<1>3. ASSUME NEW p \in Process, Apply(p) PROVE TypeOK' /\ PassedInv'
  <2> DEFINE i == proc[p].step
             missing == proc[p].missing
  <2>1. /\ schema' = schema \cup missing \cup UNION {Inline[o] : o \in missing}
        /\ proc' = [proc EXCEPT ![p] = Advanced(i)]
        /\ UNCHANGED <<violated, faults>> /\ proc[p].phase = "applying"
    BY <1>3 DEF Apply
  <2>2. i \in Step /\ missing \subseteq Object
    BY <1>a
  <2>3. proc'[p] = Advanced(i) /\ \A q \in Process \ {p} : proc'[q] = proc[q]
    BY <1>a, <2>1
  <2>4. schema' \subseteq Object /\ schema \subseteq schema'
    BY <1>a, <2>1, <2>2
  <2>5. TypeOK'
    BY <1>a, <2>1, <2>3, <2>4, AdvancedPassed DEF TypeOK
  <2>6. Objects[i] \subseteq schema' /\ \A j \in Step : j < i => Objects[j] \subseteq schema'
    BY <2>1, <2>2, <2>4 DEF PassedInv, Passed
  <2>7. \A j \in Passed(p)' : Objects[j] \subseteq schema'
    BY <2>2, <2>3, <2>6, AdvancedPassed DEF Step
  <2>8. PassedInv'
    BY <1>b, <2>3, <2>4, <2>7, AdvancedPassed
  <2>9. QED
    BY <2>5, <2>8
<1>4. ASSUME NEW p \in Process, Fail(p) \/ LockTimeout(p) \/ Stop(p) PROVE TypeOK' /\ PassedInv'
  <2>1. /\ proc' = [proc EXCEPT ![p] = Down] /\ UNCHANGED <<schema, violated>>
        /\ faults' \in 0..MaxFaults
    BY <1>a, <1>4 DEF Fail, LockTimeout, Stop, Fault
  <2>2. TypeOK'
    BY <1>a, <2>1 DEF TypeOK, Down, Phase, Step
  <2>3. proc'[p].phase = "down" /\ \A q \in Process \ {p} : proc'[q] = proc[q]
    BY <1>a, <2>1 DEF Down
  <2>4. QED
    BY <1>b, <2>1, <2>2, <2>3
<1>5. CASE UNCHANGED vars
  BY <1>5 DEF vars, TypeOK, PassedInv, Passed
<1>6. QED
  BY <1>1, <1>2, <1>3, <1>4, <1>5 DEF Next, Startup

LEMMA Invariance == Spec => []IInv
<1>1. QED
  BY InitInv, NextInv, PTL DEF Spec

\* Every variable keeps its type, through any collisions, stops and timeouts.
THEOREM TypeCorrect == Spec => []TypeOK
<1>1. IInv => TypeOK
  BY DEF IInv
<1>2. QED
  BY <1>1, Invariance, PTL

\* No process serves on an incomplete schema, whatever the lists of objects, however many
\* processes start at once and wherever they are stopped.
THEOREM ServingIsComplete == Spec => []ServesComplete
<1>1. IInv => ServesComplete
  BY DEF IInv, PassedInv, Passed, ServesComplete, Complete, Required
<1>2. QED
  BY <1>1, Invariance, PTL

=============================================================================
