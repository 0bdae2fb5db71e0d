---------------------------- MODULE WorkTurnProofs ----------------------------
(***************************************************************************)
(* Theorems about WorkTurn for any number of activations and restarts, any *)
(* rows, sources and outputs, and whichever turns are started again: the   *)
(* last three theorems alone are about a directory where only the last is. *)
(***************************************************************************)
EXTENDS WorkTurn, TLAPS, FiniteSetTheorems

LEMMA GraphFacts ==
    /\ Len(WorkGraph) = 6
    /\ \A i \in 1 .. 6 : WorkGraph[i] \in Steps
    /\ Steps = {"primary", "diagnose", "alternate", "commit", "contain", "record"}
    /\ WorkGraph[4] = "commit" /\ WorkGraph[5] = "contain" /\ WorkGraph[6] = "record"
    /\ \A i \in 1 .. 6 :
        /\ WorkGraph[i] = "commit" => i = 4
        /\ WorkGraph[i] = "contain" => i = 5
        /\ WorkGraph[i] = "record" => i = 6
  BY DEF WorkGraph, Steps

-----------------------------------------------------------------------------
(* Type correctness.                                                       *)

LEMMA NothingTyped == Nothing \in Results /\ Nothing.state \in WorkStates
  BY DEF Nothing, Results, WorkStates

\* The variables of the step machine; nothing else changes them.
LEMMA StepTypes ==
    ASSUME StepsTypeOK,
           \/ \E t \in WorkTurns : Start(t)
           \/ PassOver \/ Dispatch \/ Leave
           \/ invoking /\ at \in 1 .. Len(WorkGraph) /\ Advance
           \/ ActivateTorn
           \/ UNCHANGED steps
    PROVE  StepsTypeOK'
  <1> USE GraphFacts, BoundsAssumption
  <1>1. CASE \E t \in WorkTurns : Start(t)
    BY <1>1 DEF StepsTypeOK, Start, WorkTurns
  <1>2. CASE PassOver
    BY <1>2 DEF StepsTypeOK, PassOver, Reaching
  <1>3. CASE Dispatch
    BY <1>3 DEF StepsTypeOK, Dispatch, Reaching
  <1>4. CASE Leave
    <2>1. at' \in 0 .. Len(WorkGraph) + 1
      BY <1>4 DEF Leave
    <2>2. invoking' \in BOOLEAN
      BY <1>4 DEF Leave
    <2> QED
      BY <1>4, <2>1, <2>2, Zenon DEF StepsTypeOK, Leave
  <1>5. CASE invoking /\ at \in 1 .. Len(WorkGraph) /\ Advance
    <2>1. at' \in 0 .. Len(WorkGraph) + 1
      BY <1>5 DEF Advance
    <2>2. invoking' \in BOOLEAN
      BY <1>5 DEF Advance
    <2>3. record' \in [WorkTurns -> [Steps -> {"none", "held", "verified"}]]
      BY <1>5 DEF StepsTypeOK, Advance
    <2> QED
      BY <1>5, <2>1, <2>2, <2>3, Zenon DEF StepsTypeOK, Advance
  <1>6. CASE ActivateTorn
    BY <1>6 DEF StepsTypeOK, ActivateTorn
  <1>7. CASE UNCHANGED steps
    BY <1>7 DEF StepsTypeOK, steps
  <1> QED
    BY <1>1, <1>2, <1>3, <1>4, <1>5, <1>6, <1>7

\* TypeOK without the step machine.
DataTypeOK ==
    /\ phase \in Phases
    /\ source \in SUBSET Keys
    /\ work \in Results
    /\ attempted \in 0 .. 2
    /\ budget \in Budgets
    /\ store \in [Objects -> {"absent", "torn", "whole"}]
    /\ output \in {None} \cup Datasets
    /\ state \in WorkStates
    /\ attempts \in [WorkTurns -> 0 .. 2]
    /\ saved \in [WorkTurns -> [Steps -> {None} \cup Results]]
    /\ returned \in SUBSET WorkTurns
    /\ occupied \in [WorkTurns -> Nat]
    /\ settled \in [WorkTurns -> SUBSET {"committed", "contained"}]

LEMMA PutTypes ==
    ASSUME DataTypeOK, NEW object \in Objects, Put(object) \/ Tear(object)
    PROVE  store' \in [Objects -> {"absent", "torn", "whole"}]
  BY DEF DataTypeOK, Put, Tear

LEMMA ObjectFacts ==
    /\ Assets \in Objects /\ Authority \in Objects
    /\ \A d \in Datasets : Dataset(d) \in Objects
  BY DEF Objects

\* Another failed attempt keeps the type of what a stage file holds.
LEMMA FailTypes ==
    ASSUME work \in Results, NEW reason \in {"refused", "error"}
    PROVE  [work EXCEPT !.fails = Append(@, reason)] \in Results
  BY DEF Results

LEMMA RestoreTypes ==
    ASSUME DataTypeOK, turn \in WorkTurns, at \in 1 .. Len(WorkGraph), RestoreStage
    PROVE  work' \in Results
  <1>1. WorkGraph[at] \in Steps
    BY GraphFacts
  <1>2. saved[turn][WorkGraph[at]] \in {None} \cup Results
    BY <1>1 DEF DataTypeOK
  <1> QED
    BY <1>2 DEF RestoreStage, DataTypeOK

LEMMA GoneTypes ==
    ASSUME DataTypeOK, Gone
    PROVE  phase' \in Phases /\ source' \in SUBSET Keys /\ work' \in Results
           /\ attempted' \in 0 .. 2 /\ budget' \in Budgets
  BY NothingTyped DEF DataTypeOK, Gone, Phases

\* What each action of the command and each stage changes keeps its type.
LEMMA DataTypes ==
    ASSUME TypeOK, [Next]_vars
    PROVE  DataTypeOK'
  <1> USE DEF memory, files, ghosts, steps, Phases
  <1>0. DataTypeOK /\ turn \in WorkTurns
    BY DEF TypeOK, DataTypeOK, StepsTypeOK
  <1>1. ASSUME NEW t \in WorkTurns, NEW given \in Sources, Activate(t, given)
        PROVE  DataTypeOK'
    <2>1. store' \in [Objects -> {"absent", "torn", "whole"}]
      BY <1>0, <1>1, PutTypes, ObjectFacts DEF Activate
    <2>2. work' \in Results
      BY <1>0, <1>1, NothingTyped DEF Activate, DataTypeOK, Results
    <2>3. source' \in SUBSET Keys /\ attempted' \in 0 .. 2
      BY <1>0, <1>1, SourcesAssumption DEF Activate, DataTypeOK
    <2> QED
      BY <1>0, <1>1, <2>1, <2>2, <2>3 DEF Activate, DataTypeOK
  <1>2. CASE ActivateTorn
    BY <1>0, <1>2, PutTypes, ObjectFacts DEF ActivateTorn, DataTypeOK
  <1>3. CASE Walk
    <2>1. work' \in Results
      BY <1>0, <1>3, RestoreTypes DEF Walk, PassOver, Dispatch, Reaching
    <2> QED
      BY <1>0, <1>3, <2>1 DEF Walk, DataTypeOK
  <1>4. CASE Exit \/ Finish
    BY <1>0, <1>4, GoneTypes DEF Exit, Finish, DataTypeOK
  <1>5. CASE Spend
    BY <1>0, <1>5, BudgetsAssumption DEF Spend, DataTypeOK
  <1>6. CASE AttemptRefused
    <2>1. work' \in Results
      BY <1>0, <1>6, FailTypes DEF AttemptRefused, Fail, DataTypeOK
    <2>2. attempted' \in 0 .. 2
      BY <1>0, <1>6, BudgetsAssumption DEF AttemptRefused, DataTypeOK
    <2> QED
      BY <1>0, <1>6, <2>1, <2>2 DEF AttemptRefused, DataTypeOK
  <1>7. CASE ContextFails
    <2>1. work' \in Results
      BY <1>0, <1>7, FailTypes DEF ContextFails, Fail, DataTypeOK
    <2>2. store' \in [Objects -> {"absent", "torn", "whole"}]
      BY <1>0, <1>7, PutTypes, ObjectFacts DEF ContextFails, DataTypeOK
    <2> QED
      BY <1>0, <1>7, <2>1, <2>2 DEF ContextFails, DataTypeOK
  <1>8. ASSUME NEW exit \in {"zero", "three", "other"}, NEW printed \in Outputs,
               Occupy(exit, printed)
        PROVE  DataTypeOK'
    <2>1. work' \in Results
      <3>1. CASE Failure(exit, printed) # "none"
        <4>1. Failure(exit, printed) \in {"refused", "error"}
          BY <3>1 DEF Failure
        <4> QED
          BY <1>0, <1>8, <3>1, <4>1, FailTypes DEF Occupy, Fail, DataTypeOK
      <3>2. CASE Failure(exit, printed) = "none" /\ ~Validates(printed)
        BY <1>0, <1>8, <3>2, FailTypes DEF Occupy, Fail, DataTypeOK
      <3>3. CASE Failure(exit, printed) = "none" /\ Validates(printed)
        <4>1. work' = [work EXCEPT !.verified = TRUE, !.proposal = printed, !.judged = source]
          BY <1>8, <3>3 DEF Occupy
        <4>2. printed \in {None} \cup Datasets
          BY OutputsAssumption
        <4> QED
          BY <1>0, <4>1, <4>2 DEF DataTypeOK, Results
      <3> QED
        BY <3>1, <3>2, <3>3
    <2>2. store' \in [Objects -> {"absent", "torn", "whole"}]
      BY <1>0, <1>8, PutTypes, ObjectFacts DEF Occupy
    <2>3. occupied' \in [WorkTurns -> Nat]
      BY <1>0, <1>8 DEF Occupy, DataTypeOK
    <2> QED
      BY <1>0, <1>8, <2>1, <2>2, <2>3 DEF Occupy, DataTypeOK
  <1>9. CASE Idle
    BY <1>0, <1>9 DEF Idle, DataTypeOK
  <1>10. CASE CommitStore \/ CommitTorn
    <2>1. ASSUME Put(Dataset(work.proposal)) \/ Tear(Dataset(work.proposal))
          PROVE  store' \in [Objects -> {"absent", "torn", "whole"}]
      BY <1>0, <2>1 DEF Put, Tear, DataTypeOK
    <2>2. CASE CommitStore
      BY <1>0, <2>1, <2>2 DEF CommitStore, DataTypeOK
    <2>3. CASE CommitTorn
      BY <1>0, <2>1, <2>3, GoneTypes DEF CommitTorn, DataTypeOK
    <2> QED
      BY <1>10, <2>2, <2>3
  <1>11. CASE CommitOutput
    BY <1>0, <1>11 DEF CommitOutput, DataTypeOK, Results
  <1>12. CASE CommitState
    <2>1. state' \in WorkStates
      <3>1. work.state.period + 1 \in Nat /\ work.proposal \in {None} \cup Datasets
        BY <1>0 DEF DataTypeOK, Results, WorkStates
      <3>2. state' = [Nothing.state EXCEPT !.period = work.state.period + 1, !.dataset = work.proposal]
        BY <1>12 DEF CommitState
      <3> QED
        BY <3>1, <3>2, NothingTyped DEF WorkStates
    <2>2. work' \in Results
      BY <1>0, <1>12, <2>1 DEF CommitState, DataTypeOK, Results
    <2>3. settled' \in [WorkTurns -> SUBSET {"committed", "contained"}]
      BY <1>0, <1>12 DEF CommitState, DataTypeOK
    <2> QED
      BY <1>0, <1>12, <2>1, <2>2, <2>3 DEF CommitState, DataTypeOK
  <1>13. CASE Contain
    <2>1. state' \in WorkStates
      <3>1. RoutesRefused \in BOOLEAN
        BY DEF RoutesRefused
      <3> QED
        BY <1>0, <1>13, <3>1 DEF Contain, DataTypeOK, Results, WorkStates
    <2>2. work' \in Results
      BY <1>0, <1>13, <2>1 DEF Contain, DataTypeOK, Results
    <2>3. settled' \in [WorkTurns -> SUBSET {"committed", "contained"}]
      BY <1>0, <1>13 DEF Contain, DataTypeOK
    <2> QED
      BY <1>0, <1>13, <2>1, <2>2, <2>3 DEF Contain, DataTypeOK
  <1>14. CASE RecordReturn
    BY <1>0, <1>14 DEF RecordReturn, DataTypeOK
  <1>15. CASE Verify
    <2>1. saved' \in [WorkTurns -> [Steps -> {None} \cup Results]]
      BY <1>0, <1>15 DEF Verify, DataTypeOK
    <2>2. CASE Matches
      BY <1>0, <1>15, <2>1, <2>2 DEF Verify, DataTypeOK
    <2>3. CASE ~Matches
      BY <1>0, <1>15, <2>1, <2>3, GoneTypes DEF Verify, DataTypeOK
    <2> QED
      BY <2>2, <2>3
  <1>16. CASE UNCHANGED vars
    BY <1>0, <1>16 DEF vars, DataTypeOK
  <1> QED
    BY <1>1, <1>2, <1>3, <1>4, <1>5, <1>6, <1>7, <1>8, <1>9, <1>10, <1>11, <1>12,
       <1>13, <1>14, <1>15, <1>16 DEF Next, Invoke

\* A process is inside an Invoke only at one of the steps.
InvokingAt == invoking => at \in 1 .. Len(WorkGraph)

\* Every step takes the step machine along one of its own moves, or leaves it.
LEMMA StepMoves ==
    ASSUME InvokingAt, [Next]_vars
    PROVE  \/ \E t \in WorkTurns : Start(t)
           \/ PassOver \/ Dispatch \/ Leave
           \/ invoking /\ at \in 1 .. Len(WorkGraph) /\ Advance
           \/ ActivateTorn
           \/ UNCHANGED steps
  <1>1. CASE \E t \in WorkTurns, given \in Sources : Activate(t, given)
    BY <1>1 DEF Activate
  <1>2. CASE ActivateTorn
    BY <1>2
  <1>3. CASE Walk
    BY <1>3 DEF Walk
  <1>4. CASE Exit \/ Finish \/ CommitTorn
    BY <1>4 DEF Exit, Finish, CommitTorn, Gone
  <1>5. CASE Verify
    BY <1>5 DEF Verify, Gone, InvokingAt
  <1>6. CASE \/ Spend \/ AttemptRefused \/ ContextFails
             \/ \E exit \in {"zero", "three", "other"}, printed \in Outputs : Occupy(exit, printed)
             \/ Idle \/ CommitStore \/ CommitOutput \/ CommitState \/ Contain \/ RecordReturn
    BY <1>6 DEF Spend, AttemptRefused, ContextFails, Occupy, Idle, CommitStore, CommitOutput,
                CommitState, Contain, RecordReturn
  <1>7. CASE UNCHANGED vars
    BY <1>7 DEF vars, steps
  <1> QED
    BY <1>1, <1>2, <1>3, <1>4, <1>5, <1>6, <1>7 DEF Next, Invoke

LEMMA InvokingAtKept ==
    ASSUME StepsTypeOK, InvokingAt, [Next]_vars
    PROVE  InvokingAt'
  <1>1. CASE (\E t \in WorkTurns : Start(t)) \/ ActivateTorn \/ UNCHANGED steps
    <2>1. invoking' = invoking /\ (at' = at \/ at = 0)
      BY <1>1 DEF Start, ActivateTorn, steps
    <2> QED
      BY <2>1, GraphFacts DEF InvokingAt
  <1>2. CASE PassOver
    BY <1>2 DEF PassOver, Reaching, InvokingAt
  <1>3. CASE Dispatch
    BY <1>3 DEF Dispatch, Reaching, InvokingAt
  <1>4. CASE Leave \/ Advance
    BY <1>4 DEF Leave, Advance, InvokingAt
  <1> QED
    BY <1>1, <1>2, <1>3, <1>4, StepMoves

\* Types, and an Invoke only at a step, hold throughout.
LEMMA Typed == Spec => [](TypeOK /\ InvokingAt)
  <1>1. Init => TypeOK /\ InvokingAt
    <2> SUFFICES ASSUME Init PROVE TypeOK /\ InvokingAt
      OBVIOUS
    <2>1. StepsTypeOK /\ InvokingAt
      <3>1. at \in 0 .. Len(WorkGraph) + 1 /\ runs \in 0 .. MaxRuns /\ turn \in WorkTurns
        BY BoundsAssumption, GraphFacts DEF Init, StepsInit
      <3>2. record \in [WorkTurns -> [Steps -> {"none", "held", "verified"}]]
        BY DEF Init, StepsInit
      <3> QED
        BY <3>1, <3>2 DEF Init, StepsInit, StepsTypeOK, InvokingAt
    <2>2. DataTypeOK
      BY NothingTyped, BudgetsAssumption DEF Init, DataTypeOK, Phases
    <2> QED
      BY <2>1, <2>2 DEF TypeOK, DataTypeOK
  <1>2. TypeOK /\ InvokingAt /\ [Next]_vars => (TypeOK /\ InvokingAt)'
    <2> SUFFICES ASSUME TypeOK, InvokingAt, [Next]_vars PROVE (TypeOK /\ InvokingAt)'
      OBVIOUS
    <2>1. StepsTypeOK
      BY DEF TypeOK
    <2>2. StepsTypeOK'
      BY <2>1, StepMoves, StepTypes
    <2>3. InvokingAt'
      BY <2>1, InvokingAtKept
    <2>4. DataTypeOK'
      BY DataTypes
    <2> QED
      BY <2>2, <2>3, <2>4 DEF TypeOK, DataTypeOK
  <1> QED
    BY <1>1, <1>2, PTL DEF Spec

\* No crash and no order of restarts brings a variable out of its type.
THEOREM TypeCorrect == Spec => []TypeOK
  BY Typed, PTL

-----------------------------------------------------------------------------
(* The invocation budget.  What is on disk bounds the routes that have run,*)
(* and memory is never behind the disk.  A route that is about to run is   *)
(* already counted.                                                        *)

BudgetInv ==
    /\ \A t \in WorkTurns : occupied[t] <= attempts[t] /\ attempts[t] <= budget
    /\ at # 0 => attempts[turn] <= attempted /\ attempted <= budget
    /\ invoking /\ phase = "spent" => occupied[turn] + 1 <= attempts[turn]

\* A process that ends leaves the files' account as it is.
LEMMA GoneKeepsBudget ==
    ASSUME BudgetInv, Gone, UNCHANGED <<attempts, occupied>>
    PROVE  BudgetInv'
  BY DEF BudgetInv, Gone, Leave

LEMMA BudgetStep ==
    ASSUME TypeOK, InvokingAt, BudgetInv, [Next]_vars
    PROVE  BudgetInv'
  <1> USE DEF memory, files, ghosts, steps
  <1>0. /\ turn \in WorkTurns /\ at \in 0 .. 7 /\ attempted \in Nat /\ budget \in Nat
        /\ attempts \in [WorkTurns -> Nat] /\ occupied \in [WorkTurns -> Nat]
        /\ invoking => at # 0
    BY GraphFacts, BudgetsAssumption DEF TypeOK, StepsTypeOK, InvokingAt
  <1>1. ASSUME NEW t \in WorkTurns, NEW given \in Sources, Activate(t, given)
        PROVE  BudgetInv'
    BY <1>0, <1>1 DEF Activate, Start, BudgetInv
  <1>2. CASE Walk
    BY <1>0, <1>2 DEF Walk, PassOver, Dispatch, Reaching, BudgetInv
  <1>3. CASE Spend
    <2>1. attempted' <= budget /\ attempts'[turn] = attempted' /\ attempts[turn] <= attempted
      BY <1>0, <1>3 DEF Spend, Attempting, Invoking, BudgetInv
    <2>2. \A t \in WorkTurns : t # turn => attempts'[t] = attempts[t]
      BY <1>0, <1>3 DEF Spend
    <2> QED
      BY <1>0, <1>3, <2>1, <2>2 DEF Spend, BudgetInv
  <1>4. CASE AttemptRefused
    <2>1. attempted' \in {attempted, attempted + 1} /\ attempted' <= budget
      BY <1>0, <1>4 DEF AttemptRefused, Attempting, Invoking, BudgetInv
    <2> QED
      BY <1>0, <1>4, <2>1 DEF AttemptRefused, BudgetInv
  <1>5. ASSUME NEW exit \in {"zero", "three", "other"}, NEW printed \in Outputs,
               Occupy(exit, printed)
        PROVE  BudgetInv'
    <2>1. occupied' = [occupied EXCEPT ![turn] = @ + 1] /\ occupied[turn] + 1 <= attempts[turn]
      BY <1>5 DEF Occupy, BudgetInv
    <2> QED
      BY <1>0, <1>5, <2>1 DEF Occupy, BudgetInv
  <1>6. CASE Exit \/ Finish \/ CommitTorn \/ (Verify /\ ~Matches)
    BY <1>6, GoneKeepsBudget DEF Exit, Finish, CommitTorn, Verify
  <1>7. CASE Verify /\ Matches
    BY <1>0, <1>7 DEF Verify, Advance, BudgetInv
  <1>8. CASE ContextFails \/ Idle \/ CommitStore \/ CommitOutput \/ CommitState \/ Contain \/ RecordReturn
    <2>1. UNCHANGED <<turn, at, invoking, attempted, attempts, occupied, budget>> /\ phase' # "spent"
      BY <1>8 DEF ContextFails, Idle, CommitStore, CommitOutput, CommitState, Contain, RecordReturn
    <2> QED
      BY <2>1 DEF BudgetInv
  <1>9. CASE ActivateTorn \/ UNCHANGED vars
    BY <1>9 DEF ActivateTorn, vars, BudgetInv
  <1> QED
    BY <1>1, <1>2, <1>3, <1>4, <1>5, <1>6, <1>7, <1>8, <1>9 DEF Next, Invoke

\* No more routes run for a turn than its mandate has invocations, however
\* often its command dies and is started again.
THEOREM BudgetIsKept == Spec => []BudgetKept
  <1>1. Init => BudgetInv
    BY BudgetsAssumption DEF Init, StepsInit, BudgetInv
  <1>2. TypeOK /\ InvokingAt /\ BudgetInv /\ [Next]_vars => BudgetInv'
    BY BudgetStep
  <1>3. TypeOK /\ BudgetInv => BudgetKept
    BY BudgetsAssumption DEF TypeOK, BudgetInv, BudgetKept
  <1> QED
    BY <1>1, <1>2, <1>3, Typed, PTL DEF Spec

-----------------------------------------------------------------------------
(* The dataset of the state.  An object that is whole stays whole, and no  *)
(* dataset is named, in memory or in a file, before its object is whole.   *)

ReadableIn(objects, d) == d # None => objects[Dataset(d)] = "whole"

ReadableInv ==
    /\ ReadableIn(store, state.dataset)
    /\ ReadableIn(store, work.state.dataset)
    /\ \A t \in WorkTurns, s \in Steps :
         saved[t][s] # None => ReadableIn(store, saved[t][s].state.dataset)
    /\ Committing /\ phase \in {"stored", "written"} => ReadableIn(store, work.proposal)

LEMMA WholeStays ==
    ASSUME TypeOK, [Next]_vars
    PROVE  \A d \in {None} \cup Datasets : ReadableIn(store, d) => ReadableIn(store', d)
  <1> SUFFICES ASSUME NEW d \in Datasets, store[Dataset(d)] = "whole"
               PROVE  store'[Dataset(d)] = "whole"
    BY DEF ReadableIn
  <1>1. Dataset(d) \in Objects /\ store \in [Objects -> {"absent", "torn", "whole"}]
    BY ObjectFacts DEF TypeOK
  <1>2. CASE \E object : Put(object) \/ Tear(object)
    BY <1>1, <1>2 DEF Put, Tear
  <1>3. CASE UNCHANGED store
    BY <1>3
  <1>4. (\E object : Put(object) \/ Tear(object)) \/ UNCHANGED store
    BY DEF Next, Invoke, Activate, ActivateTorn, Walk, Spend, AttemptRefused, ContextFails, Occupy, Idle,
       CommitStore, CommitTorn, CommitOutput, CommitState, Contain, RecordReturn, Verify, Exit, Finish,
       vars, files
  <1> QED
    BY <1>2, <1>3, <1>4

LEMMA ReadableStep ==
    ASSUME TypeOK, InvokingAt, ReadableInv, [Next]_vars
    PROVE  ReadableInv'
  <1> USE DEF memory, files, ghosts, steps
  <1>0. /\ turn \in WorkTurns /\ work \in Results /\ state \in WorkStates
        /\ saved \in [WorkTurns -> [Steps -> {None} \cup Results]]
        /\ at \in 1 .. Len(WorkGraph) => WorkGraph[at] \in Steps
    BY GraphFacts DEF TypeOK, StepsTypeOK
  <1>1. /\ state.dataset \in {None} \cup Datasets
        /\ work.state.dataset \in {None} \cup Datasets
        /\ work.proposal \in {None} \cup Datasets
        /\ \A t \in WorkTurns, s \in Steps :
             saved[t][s] # None => saved[t][s].state.dataset \in {None} \cup Datasets
    BY <1>0 DEF Results, WorkStates
  \* What was readable before the step is readable after it.
  <1>2. /\ ReadableIn(store', state.dataset)
        /\ ReadableIn(store', work.state.dataset)
        /\ \A t \in WorkTurns, s \in Steps :
             saved[t][s] # None => ReadableIn(store', saved[t][s].state.dataset)
        /\ Committing /\ phase \in {"stored", "written"} => ReadableIn(store', work.proposal)
        /\ ReadableIn(store', None)
    BY <1>1, WholeStays DEF ReadableInv, ReadableIn
  <1>3. ASSUME NEW t \in WorkTurns, NEW given \in Sources, Activate(t, given)
        PROVE  ReadableInv'
    <2>1. work'.state = state /\ phase' = "enter" /\ UNCHANGED <<state, saved>>
      BY <1>0, <1>3, NothingTyped DEF Activate, Results
    <2> QED
      BY <1>2, <2>1 DEF ReadableInv
  <1>4. CASE Walk
    <2>1. ReadableIn(store', work'.state.dataset)
      BY <1>0, <1>2, <1>4 DEF Walk, PassOver, Dispatch, Reaching, RestoreStage
    <2> QED
      BY <1>2, <1>4, <2>1 DEF Walk, ReadableInv
  <1>5. CASE Exit \/ Finish \/ CommitTorn
    <2>1. work'.state.dataset = None /\ phase' = "enter" /\ UNCHANGED <<state, saved>>
      BY <1>5 DEF Exit, Finish, CommitTorn, Gone, Nothing
    <2> QED
      BY <1>2, <2>1 DEF ReadableInv
  <1>6. CASE Verify
    <2>1. \A t \in WorkTurns, s \in Steps :
            saved'[t][s] # None => ReadableIn(store', saved'[t][s].state.dataset)
      <3>1. saved' = [saved EXCEPT ![turn][WorkGraph[at]] = work]
        BY <1>6 DEF Verify
      <3> QED
        BY <1>0, <1>2, <3>1
    <2>2. ReadableIn(store', work'.state.dataset)
      BY <1>2, <1>6 DEF Verify, Gone, Nothing
    <2>3. phase' = "enter" /\ UNCHANGED state
      BY <1>6 DEF Verify, Gone
    <2> QED
      BY <1>2, <2>1, <2>2, <2>3 DEF ReadableInv
  <1>7. CASE AttemptRefused \/ ContextFails
    <2>1. work'.state = work.state /\ phase' = "save" /\ UNCHANGED <<state, saved>>
      BY <1>0, <1>7 DEF AttemptRefused, ContextFails, Fail, Results
    <2> QED
      BY <1>2, <2>1 DEF ReadableInv
  <1>8. ASSUME NEW exit \in {"zero", "three", "other"}, NEW printed \in Outputs,
               Occupy(exit, printed)
        PROVE  ReadableInv'
    <2>1. work'.state = work.state
      BY <1>0, <1>8 DEF Occupy, Fail, Results
    <2>2. phase' = "save" /\ UNCHANGED <<state, saved>>
      BY <1>8 DEF Occupy
    <2> QED
      BY <1>2, <2>1, <2>2 DEF ReadableInv
  <1>9. CASE Spend \/ Idle \/ RecordReturn
    <2>1. phase' \notin {"stored", "written"} /\ UNCHANGED <<state, saved, work>>
      BY <1>9 DEF Spend, Idle, RecordReturn
    <2> QED
      BY <1>2, <2>1 DEF ReadableInv
  <1>10. CASE CommitStore
    <2>1. ReadableIn(store', work.proposal)
      <3>1. work.proposal # None => Dataset(work.proposal) \in Objects
        BY <1>1, ObjectFacts
      <3> QED
        BY <1>10, <3>1 DEF CommitStore, Put, ReadableIn, TypeOK
    <2> QED
      BY <1>2, <1>10, <2>1 DEF CommitStore, ReadableInv
  <1>11. CASE CommitOutput
    <2>1. UNCHANGED <<state, saved, work>> /\ Committing /\ phase = "stored"
      BY <1>11 DEF CommitOutput
    <2> QED
      BY <1>2, <2>1 DEF ReadableInv
  <1>12. CASE CommitState
    <2>1. state'.dataset = work.proposal /\ work'.state.dataset = work.proposal
      <3>1. state' = [Nothing.state EXCEPT !.period = work.state.period + 1, !.dataset = work.proposal]
        BY <1>12 DEF CommitState
      <3>2. state'.dataset = work.proposal
        BY <3>1, NothingTyped DEF WorkStates
      <3>3. work'.state = state'
        BY <1>0, <1>12 DEF CommitState, Results
      <3> QED
        BY <3>2, <3>3
    <2>2. ReadableIn(store', work.proposal) /\ phase' = "save" /\ UNCHANGED saved
      BY <1>2, <1>12 DEF CommitState
    <2> QED
      BY <1>2, <2>1, <2>2 DEF ReadableInv
  <1>13. CASE Contain
    <2>1. state'.dataset = work.state.dataset /\ work'.state = state'
      BY <1>0, <1>13 DEF Contain, Results, WorkStates
    <2> QED
      BY <1>2, <1>13, <2>1 DEF Contain, ReadableInv
  <1>14. CASE ActivateTorn \/ UNCHANGED vars
    <2>1. UNCHANGED <<state, saved, work, phase, at, invoking>>
      BY <1>14 DEF ActivateTorn, vars
    <2> QED
      BY <1>2, <2>1 DEF ReadableInv, Committing, Invoking
  <1> QED
    BY <1>3, <1>4, <1>5, <1>6, <1>7, <1>8, <1>9, <1>10, <1>11, <1>12, <1>13, <1>14
       DEF Next, Invoke

\* The dataset that state.json names can be read back, whenever a process dies
\* and whatever a write of an object leaves behind.
THEOREM DatasetIsReadable == Spec => []DatasetReadable
  <1>1. Init => ReadableInv
    BY DEF Init, ReadableInv, ReadableIn, Nothing
  <1>2. TypeOK /\ InvokingAt /\ ReadableInv /\ [Next]_vars => ReadableInv'
    BY ReadableStep
  <1>3. ReadableInv => DatasetReadable
    BY DEF ReadableInv, ReadableIn, DatasetReadable
  <1> QED
    BY <1>1, <1>2, <1>3, Typed, PTL DEF Spec

-----------------------------------------------------------------------------
(* Settling.  Which of commit and contain a turn does is decided by whether*)
(* its work was verified when commit was.  The journal keeps the order of  *)
(* the two, and the stage file of commit keeps the decision for every      *)
(* process that comes later.                                               *)

Judged(t) == saved[t]["commit"].verified = TRUE

\* The journal, the stage files and what a turn has written agree.
FilesAgree(t) ==
    /\ \A s \in Steps : record[t][s] = "none" => saved[t][s] = None
    /\ \A s \in Steps : record[t][s] = "verified" => saved[t][s] \in Results
    /\ record[t]["contain"] # "none" => record[t]["commit"] = "verified"
    /\ record[t]["commit"] = "none" => "committed" \notin settled[t]
    /\ record[t]["contain"] = "none" => "contained" \notin settled[t]
    /\ record[t]["commit"] = "verified" => ("committed" \in settled[t] <=> Judged(t))
    /\ "contained" \in settled[t] => ~Judged(t)
    /\ record[t]["contain"] = "verified" =>
         /\ saved[t]["contain"].verified = saved[t]["commit"].verified
         /\ settled[t] # {}
    /\ t \in returned => settled[t] # {}

\* What the running process holds agrees with the files of its turn.
ProcessAgrees ==
    /\ invoking => record[turn][WorkGraph[at]] = "held"
    /\ invoking /\ phase = "spent" => at \notin {4, 5, 6}
    /\ at \in {5, 6, 7} => record[turn]["commit"] = "verified"
    /\ at = 5 => work.verified = saved[turn]["commit"].verified
    /\ at \in {6, 7} => record[turn]["contain"] = "verified"
    /\ invoking /\ at = 4 =>
         /\ "committed" \in settled[turn] => work.verified = TRUE
         /\ phase = "save" /\ work.verified = TRUE => "committed" \in settled[turn]
    /\ invoking /\ at = 5 /\ phase = "save" /\ work.verified = FALSE => "contained" \in settled[turn]

SettledInv == (\A t \in WorkTurns : FilesAgree(t)) /\ ProcessAgrees

\* The steps by their numbers.
LEMMA Places ==
    ASSUME InvokingAt, TypeOK
    PROVE  /\ Invoking("commit") <=> invoking /\ at = 4
           /\ Invoking("contain") <=> invoking /\ at = 5
           /\ Invoking("record") <=> invoking /\ at = 6
           /\ Invoking("primary") <=> invoking /\ at = 1
           /\ Invoking("alternate") <=> invoking /\ at = 3
           /\ Invoking("diagnose") <=> invoking /\ at = 2
           /\ turn \in WorkTurns /\ at \in 0 .. 7
           /\ "commit" \in Steps /\ "contain" \in Steps
           /\ record \in [WorkTurns -> [Steps -> {"none", "held", "verified"}]]
           /\ saved \in [WorkTurns -> [Steps -> {None} \cup Results]]
           /\ settled \in [WorkTurns -> SUBSET {"committed", "contained"}]
           /\ work \in Results /\ work.verified \in BOOLEAN /\ work # None
  <1>1. /\ turn \in WorkTurns /\ at \in 0 .. 7
        /\ record \in [WorkTurns -> [Steps -> {"none", "held", "verified"}]]
    BY GraphFacts DEF TypeOK, StepsTypeOK
  <1>2. /\ saved \in [WorkTurns -> [Steps -> {None} \cup Results]]
        /\ settled \in [WorkTurns -> SUBSET {"committed", "contained"}]
        /\ work \in Results /\ work.verified \in BOOLEAN /\ work # None
    BY NoneAssumption DEF TypeOK, Results
  <1>3. /\ WorkGraph[1] = "primary" /\ WorkGraph[2] = "diagnose" /\ WorkGraph[3] = "alternate"
        /\ WorkGraph[4] = "commit" /\ WorkGraph[5] = "contain" /\ WorkGraph[6] = "record"
        /\ Len(WorkGraph) = 6
    BY DEF WorkGraph
  <1>4. at \in 1 .. 6 =>
          /\ WorkGraph[at] = "commit" <=> at = 4
          /\ WorkGraph[at] = "contain" <=> at = 5
          /\ WorkGraph[at] = "record" <=> at = 6
          /\ WorkGraph[at] = "primary" <=> at = 1
          /\ WorkGraph[at] = "alternate" <=> at = 3
          /\ WorkGraph[at] = "diagnose" <=> at = 2
    BY <1>3
  <1> QED
    BY <1>1, <1>2, <1>3, <1>4, GraphFacts DEF InvokingAt, Invoking

LEMMA FilesUntouched ==
    ASSUME \A t \in WorkTurns : FilesAgree(t), UNCHANGED <<record, saved, settled, returned>>
    PROVE  \A t \in WorkTurns : FilesAgree(t)'
  BY DEF FilesAgree, Judged

\* A stage file that is written while its step is in flight decides nothing.
LEMMA SettledWhenSaving ==
    ASSUME TypeOK, InvokingAt, SettledInv, invoking,
           saved' = [saved EXCEPT ![turn][WorkGraph[at]] = work],
           UNCHANGED <<record, settled, returned>>
    PROVE  \A t \in WorkTurns : FilesAgree(t)'
  <1> SUFFICES ASSUME NEW t \in WorkTurns PROVE FilesAgree(t)'
    OBVIOUS
  <1>1. FilesAgree(t) /\ record[turn][WorkGraph[at]] = "held" /\ turn \in WorkTurns
        /\ "commit" \in Steps /\ "contain" \in Steps
        /\ saved \in [WorkTurns -> [Steps -> {None} \cup Results]]
    BY Places DEF SettledInv, ProcessAgrees
  <1>2. \A s \in Steps : record[t][s] # "held" => saved'[t][s] = saved[t][s]
    BY <1>1
  <1>3. record[t]["contain"] # "none" => saved'[t]["commit"] = saved[t]["commit"]
    BY <1>1, <1>2 DEF FilesAgree
  <1>4. "contained" \in settled[t] => saved'[t]["commit"] = saved[t]["commit"]
    BY <1>1, <1>3 DEF FilesAgree
  <1> QED
    BY <1>1, <1>2, <1>3, <1>4 DEF FilesAgree, Judged

LEMMA SettledWhenVerified ==
    ASSUME TypeOK, InvokingAt, SettledInv, Verify, Matches
    PROVE  SettledInv'
  <1> USE DEF memory, files, ghosts, steps
  <1> DEFINE step == WorkGraph[at]
  <1>1. /\ invoking /\ phase = "save" /\ at \in 1 .. 6 /\ at' = at + 1 /\ ~invoking'
        /\ saved' = [saved EXCEPT ![turn][step] = work]
        /\ record' = [record EXCEPT ![turn][step] = "verified"]
        /\ UNCHANGED <<turn, work, settled, returned>>
    BY GraphFacts DEF Verify, Advance, InvokingAt
  <1>2. step \in Steps /\ (step = "commit" <=> at = 4) /\ (step = "contain" <=> at = 5)
    BY <1>1, GraphFacts DEF WorkGraph
  <1>3. \A t \in WorkTurns, s \in Steps : t # turn \/ s # step =>
           record'[t][s] = record[t][s] /\ saved'[t][s] = saved[t][s]
    BY <1>1, <1>2, Places
  <1>4. record'[turn][step] = "verified" /\ saved'[turn][step] = work
    BY <1>1, <1>2, Places
  <1>5. record[turn][step] = "held" /\ FilesAgree(turn)
    BY <1>1, Places DEF SettledInv, ProcessAgrees
  <1>6. ASSUME NEW t \in WorkTurns, t = turn PROVE FilesAgree(t)'
    <2>1. CASE at = 4
      <3>1. work.verified = TRUE <=> "committed" \in settled[turn]
        BY <1>1, <2>1 DEF SettledInv, ProcessAgrees
      <3>2. "contained" \notin settled[turn] /\ record[turn]["contain"] = "none"
        BY <1>2, <1>5, <2>1, Places DEF FilesAgree
      <3> QED
        BY <1>1, <1>2, <1>3, <1>4, <1>5, <1>6, <2>1, <3>1, <3>2, Places DEF FilesAgree, Judged
    <2>2. CASE at = 5
      <3>1. work.verified = saved[turn]["commit"].verified /\ record[turn]["commit"] = "verified"
        BY <2>2 DEF SettledInv, ProcessAgrees
      <3>2. settled[turn] # {}
        <4>1. CASE work.verified = TRUE
          BY <1>5, <3>1, <4>1 DEF FilesAgree, Judged
        <4>2. CASE work.verified = FALSE
          BY <1>1, <2>2, <4>2 DEF SettledInv, ProcessAgrees
        <4> QED
          BY <4>1, <4>2, Places
      <3> QED
        BY <1>1, <1>2, <1>3, <1>4, <1>5, <1>6, <2>2, <3>1, <3>2, Places DEF FilesAgree, Judged
    <2>3. CASE at \notin {4, 5}
      BY <1>1, <1>2, <1>3, <1>4, <1>5, <1>6, <2>3, Places DEF FilesAgree, Judged
    <2> QED
      BY <2>1, <2>2, <2>3
  <1>7. \A t \in WorkTurns : t # turn => FilesAgree(t)'
    BY <1>1, <1>3, Places DEF SettledInv, FilesAgree, Judged
  <1>8. ProcessAgrees'
    <2>1. CASE at = 4
      BY <1>1, <1>2, <1>4, <2>1 DEF ProcessAgrees
    <2>2. CASE at \in {5, 6}
      <3>1. record'[turn]["commit"] = "verified"
        BY <1>2, <1>3, <2>2, Places DEF SettledInv, ProcessAgrees
      <3>2. record'[turn]["contain"] = "verified"
        BY <1>2, <1>3, <1>4, <2>2, Places DEF SettledInv, ProcessAgrees
      <3> QED
        BY <1>1, <2>2, <3>1, <3>2 DEF ProcessAgrees
    <2>3. CASE at \in {1, 2, 3}
      BY <1>1, <2>3 DEF ProcessAgrees
    <2> QED
      BY <1>1, <2>1, <2>2, <2>3
  <1> QED
    BY <1>6, <1>7, <1>8 DEF SettledInv

\* Going on to the next step, or into one, with what its stage file held.
LEMMA SettledWhenWalking ==
    ASSUME TypeOK, InvokingAt, SettledInv, Walk
    PROVE  SettledInv'
  <1> USE DEF memory, files, ghosts, steps
  <1> DEFINE step == WorkGraph[at]
  <1>1. /\ at \in 1 .. 6 /\ step \in Steps /\ FilesAgree(turn)
        /\ (step = "commit" <=> at = 4) /\ (step = "contain" <=> at = 5)
    BY Places, GraphFacts DEF Walk, PassOver, Dispatch, Reaching, WorkGraph, SettledInv
  <1>2. UNCHANGED <<turn, saved, settled, returned>> /\ phase' = "enter"
        /\ work' = IF saved[turn][step] = None THEN work ELSE saved[turn][step]
    BY DEF Walk, PassOver, Dispatch, RestoreStage
  <1>3. CASE PassOver
    <2>1. record[turn][step] = "verified" /\ at' = at + 1 /\ ~invoking /\ UNCHANGED <<record, invoking>>
      BY <1>3 DEF PassOver, Reaching
    <2>2. work' = saved[turn][step]
      BY <1>1, <1>2, <2>1, NoneAssumption DEF FilesAgree
    <2>3. ProcessAgrees'
      <3>1. CASE at \in {5, 6}
        <4>1. record[turn]["commit"] = "verified" /\ record[turn]["contain"] = "verified"
          BY <1>1, <2>1, <3>1 DEF SettledInv, ProcessAgrees
        <4> QED
          BY <1>2, <2>1, <3>1, <4>1 DEF ProcessAgrees
      <3>2. CASE at \in {1, 2, 3, 4}
        BY <1>1, <1>2, <2>1, <2>2, <3>2 DEF ProcessAgrees
      <3> QED
        BY <1>1, <3>1, <3>2
    <2> QED
      BY <1>2, <2>1, <2>3, FilesUntouched DEF SettledInv
  <1>4. CASE Dispatch
    <2>1. /\ record[turn][step] = "none" /\ invoking' /\ at' = at
          /\ record' = [record EXCEPT ![turn][step] = "held"]
      BY <1>4 DEF Dispatch, Reaching
    <2>2. \A t \in WorkTurns, s \in Steps : t # turn \/ s # step => record'[t][s] = record[t][s]
      BY <1>1, <2>1, Places
    <2>3. record'[turn][step] = "held"
      BY <1>1, <2>1, Places
    <2>4. work' = work /\ step = "commit" => "committed" \notin settled[turn]
      BY <1>1, <1>2, <2>1 DEF FilesAgree
    <2>5. at = 5 => record[turn]["commit"] = "verified"
      BY DEF SettledInv, ProcessAgrees
    <2>6. ASSUME NEW t \in WorkTurns PROVE FilesAgree(t)'
      <3>1. FilesAgree(t)
        BY DEF SettledInv
      <3>2. CASE t = turn
        BY <1>1, <1>2, <2>1, <2>2, <2>3, <2>5, <3>1, <3>2, Places DEF FilesAgree, Judged
      <3>3. CASE t # turn
        BY <1>2, <2>2, <3>1, <3>3, Places DEF FilesAgree, Judged
      <3> QED
        BY <3>2, <3>3
    <2>7. ProcessAgrees'
      <3>1. work' = work
        BY <1>1, <1>2, <2>1 DEF FilesAgree
      <3>2. at = 4 => "committed" \notin settled[turn]
        BY <1>1, <2>1 DEF FilesAgree
      <3>3. at \in {5, 6} => record'[turn]["commit"] = "verified"
        BY <1>1, <2>2, Places DEF SettledInv, ProcessAgrees
      <3>4. at = 6 => record'[turn]["contain"] = "verified"
        BY <1>1, <2>2, Places DEF SettledInv, ProcessAgrees
      <3>5. at = 5 => work.verified = saved[turn]["commit"].verified
        BY DEF SettledInv, ProcessAgrees
      <3> QED
        BY <1>1, <1>2, <2>1, <2>3, <3>1, <3>2, <3>3, <3>4, <3>5 DEF ProcessAgrees
    <2> QED
      BY <2>6, <2>7 DEF SettledInv
  <1> QED
    BY <1>3, <1>4 DEF Walk

LEMMA SettledStep ==
    ASSUME TypeOK, InvokingAt, SettledInv, [Next]_vars
    PROVE  SettledInv'
  <1> USE DEF memory, files, ghosts, steps
  <1>1. ASSUME NEW t \in WorkTurns, NEW given \in Sources, Activate(t, given)
        PROVE  SettledInv'
    <2>1. at' = 1 /\ ~invoking' /\ UNCHANGED <<record, saved, settled, returned>>
      BY <1>1 DEF Activate, Start, InvokingAt
    <2> QED
      BY <2>1, FilesUntouched DEF SettledInv, ProcessAgrees
  <1>2. CASE Walk
    BY <1>2, SettledWhenWalking
  <1>3. CASE Exit \/ Finish \/ CommitTorn
    <2>1. at' = 0 /\ ~invoking' /\ UNCHANGED <<record, saved, settled, returned>>
      BY <1>3 DEF Exit, Finish, CommitTorn, Gone, Leave
    <2> QED
      BY <2>1, FilesUntouched DEF SettledInv, ProcessAgrees
  <1>4. CASE Verify /\ ~Matches
    <2>1. /\ at' = 0 /\ ~invoking' /\ invoking /\ UNCHANGED <<record, settled, returned>>
          /\ saved' = [saved EXCEPT ![turn][WorkGraph[at]] = work]
      BY <1>4 DEF Verify, Gone, Leave
    <2>2. \A t \in WorkTurns : FilesAgree(t)'
      BY <2>1, SettledWhenSaving
    <2>3. ProcessAgrees'
      BY <2>1 DEF ProcessAgrees
    <2> QED
      BY <2>2, <2>3 DEF SettledInv
  <1>5. CASE Verify /\ Matches
    BY <1>5, SettledWhenVerified
  <1>6. CASE Spend \/ AttemptRefused \/ ContextFails \/ Idle \/ CommitStore \/ CommitOutput
    <2>1. UNCHANGED <<record, turn, at, invoking, saved, settled, returned>>
      BY <1>6 DEF Spend, AttemptRefused, ContextFails, Idle, CommitStore, CommitOutput
    <2>2. work'.verified = work.verified
      BY <1>6, Places DEF Spend, AttemptRefused, ContextFails, Fail, Idle, CommitStore, CommitOutput, Results
    <2>3. ASSUME invoking, at \in {4, 5, 6}
          PROVE  /\ phase' # "spent"
                 /\ at = 4 /\ phase' = "save" => work.verified = FALSE
                 /\ at = 5 /\ phase' = "save" => work.verified = TRUE
      <3>1. ~Attempting /\ phase # "spent" /\ ~Invoking("diagnose") /\ ~Invoking("alternate")
        BY <2>3, Places DEF Attempting, SettledInv, ProcessAgrees
      <3>2. Idle \/ CommitStore \/ CommitOutput
        BY <1>6, <3>1 DEF Spend, AttemptRefused, ContextFails
      <3>3. CASE Idle
        BY <2>3, <3>1, <3>3, Places DEF Idle
      <3>4. CASE CommitStore \/ CommitOutput
        BY <3>4 DEF CommitStore, CommitOutput
      <3> QED
        BY <3>2, <3>3, <3>4
    <2> QED
      BY <2>1, <2>2, <2>3, FilesUntouched DEF SettledInv, ProcessAgrees
  <1>7. ASSUME NEW exit \in {"zero", "three", "other"}, NEW printed \in Outputs,
               Occupy(exit, printed)
        PROVE  SettledInv'
    <2>1. /\ UNCHANGED <<record, turn, at, invoking, saved, settled, returned>>
          /\ invoking /\ phase = "spent" /\ phase' = "save"
      BY <1>7 DEF Occupy
    <2>2. at \in {1, 2, 3}
      BY <2>1, GraphFacts DEF SettledInv, ProcessAgrees, InvokingAt
    <2> QED
      BY <2>1, <2>2, FilesUntouched DEF SettledInv, ProcessAgrees
  <1>8. CASE CommitState
    <2>1. /\ UNCHANGED <<record, turn, at, invoking, saved, returned>>
          /\ invoking /\ at = 4 /\ work.verified = TRUE /\ phase' = "save"
          /\ settled' = [settled EXCEPT ![turn] = @ \cup {"committed"}]
      BY <1>8, Places DEF CommitState, Committing
    <2>2. work'.verified = TRUE
      BY <1>8, <2>1, Places DEF CommitState, Results
    <2>3. record[turn]["commit"] = "held"
      BY <2>1, GraphFacts DEF SettledInv, ProcessAgrees
    <2>4. "committed" \in settled'[turn] /\ settled[turn] \subseteq settled'[turn]
      BY <2>1, Places
    <2>5. ASSUME NEW t \in WorkTurns PROVE FilesAgree(t)'
      BY <2>1, <2>3, <2>4, Places DEF SettledInv, FilesAgree, Judged
    <2>6. ProcessAgrees'
      BY <2>1, <2>2, <2>4 DEF SettledInv, ProcessAgrees
    <2> QED
      BY <2>5, <2>6 DEF SettledInv
  <1>9. CASE Contain
    <2>1. /\ UNCHANGED <<record, turn, at, invoking, saved, returned>>
          /\ invoking /\ at = 5 /\ work.verified = FALSE /\ phase' = "save"
          /\ settled' = [settled EXCEPT ![turn] = @ \cup {"contained"}]
      BY <1>9, Places DEF Contain
    <2>2. work'.verified = FALSE
      BY <1>9, <2>1, Places DEF Contain, Results
    <2>3. record[turn]["contain"] = "held" /\ ~Judged(turn)
      BY <2>1, GraphFacts DEF SettledInv, ProcessAgrees, Judged
    <2>4. "contained" \in settled'[turn] /\ settled[turn] \subseteq settled'[turn]
          /\ ("committed" \in settled'[turn] <=> "committed" \in settled[turn])
      BY <2>1, Places
    <2>5. ASSUME NEW t \in WorkTurns PROVE FilesAgree(t)'
      BY <2>1, <2>3, <2>4, Places DEF SettledInv, FilesAgree, Judged
    <2>6. ProcessAgrees'
      BY <2>1, <2>2, <2>4 DEF SettledInv, ProcessAgrees
    <2> QED
      BY <2>5, <2>6 DEF SettledInv
  <1>10. CASE RecordReturn
    <2>1. /\ UNCHANGED <<record, turn, at, invoking, saved, settled, work>>
          /\ invoking /\ at = 6 /\ returned' = returned \cup {turn} /\ phase' = "save"
      BY <1>10, Places DEF RecordReturn
    <2>2. settled[turn] # {}
      BY <2>1, Places DEF SettledInv, ProcessAgrees, FilesAgree
    <2>3. ASSUME NEW t \in WorkTurns PROVE FilesAgree(t)'
      BY <2>1, <2>2 DEF SettledInv, FilesAgree, Judged
    <2>4. ProcessAgrees'
      BY <2>1 DEF SettledInv, ProcessAgrees
    <2> QED
      BY <2>3, <2>4 DEF SettledInv
  <1>11. CASE ActivateTorn \/ UNCHANGED vars
    <2>1. UNCHANGED <<record, turn, at, invoking, saved, settled, returned, work, phase>>
      BY <1>11 DEF ActivateTorn, vars
    <2> QED
      BY <2>1, FilesUntouched DEF SettledInv, ProcessAgrees
  <1> QED
    BY <1>1, <1>2, <1>3, <1>4, <1>5, <1>6, <1>7, <1>8, <1>9, <1>10, <1>11 DEF Next, Invoke

\* A turn commits or is contained, never both, and has done one of the two when
\* it returns, wherever its processes die and whichever turns are started again.
THEOREM TurnsSettleOnce == Spec => []SettledOnce
  <1>1. Init => SettledInv
    BY GraphFacts DEF Init, StepsInit, SettledInv, FilesAgree, ProcessAgrees, Judged
  <1>2. TypeOK /\ InvokingAt /\ SettledInv /\ [Next]_vars => SettledInv'
    BY SettledStep
  <1>3. TypeOK /\ InvokingAt /\ SettledInv => SettledOnce
    <2> SUFFICES ASSUME TypeOK, InvokingAt, SettledInv, NEW t \in WorkTurns
                 PROVE  settled[t] # {"committed", "contained"} /\ (t \in returned => settled[t] # {})
      BY DEF SettledOnce
    <2>1. FilesAgree(t) /\ record[t]["contain"] \in {"none", "held", "verified"}
      BY Places DEF SettledInv
    <2> QED
      BY <2>1 DEF FilesAgree, Judged
  <1> QED
    BY <1>1, <1>2, <1>3, Typed, PTL DEF Spec

-----------------------------------------------------------------------------
(* The order of the stages.  A stage is begun only after every stage before*)
(* it was verified, by this process or an earlier one.                     *)

Ordered(t) ==
    \A i, j \in 1 .. 6 :
        i < j /\ record[t][WorkGraph[j]] # "none" => record[t][WorkGraph[i]] = "verified"

Reached == \A i \in 1 .. 6 : i < at => record[turn][WorkGraph[i]] = "verified"

OrderInv == (\A t \in WorkTurns : Ordered(t)) /\ Reached

LEMMA StagesDiffer == \A i, j \in 1 .. 6 : WorkGraph[i] = WorkGraph[j] => i = j
  BY DEF WorkGraph

LEMMA OrderStep ==
    ASSUME TypeOK, InvokingAt, OrderInv, [Next]_vars
    PROVE  OrderInv'
  <1>1. CASE (\E t \in WorkTurns : Start(t)) \/ ActivateTorn \/ Leave \/ UNCHANGED steps
    <2>1. record' = record /\ (at' \in {0, 1} \/ UNCHANGED <<at, turn>>)
      BY <1>1 DEF Start, ActivateTorn, Leave, steps
    <2> QED
      BY <2>1 DEF OrderInv, Ordered, Reached
  <1>2. CASE PassOver
    <2>1. /\ at \in 1 .. 6 /\ record[turn][WorkGraph[at]] = "verified"
          /\ at' = at + 1 /\ UNCHANGED <<record, turn>>
      BY <1>2, GraphFacts DEF PassOver, Reaching
    <2> QED
      BY <2>1 DEF OrderInv, Ordered, Reached
  <1>3. CASE Dispatch
    <2>1. /\ at \in 1 .. 6 /\ record[turn][WorkGraph[at]] = "none"
          /\ record' = [record EXCEPT ![turn][WorkGraph[at]] = "held"] /\ UNCHANGED <<at, turn>>
      BY <1>3, GraphFacts DEF Dispatch, Reaching
    <2>2. \A t \in WorkTurns, i \in 1 .. 6 :
            t # turn \/ i # at => record'[t][WorkGraph[i]] = record[t][WorkGraph[i]]
      BY <2>1, GraphFacts, StagesDiffer, Places
    <2>3. \A j \in 1 .. 6 : at < j => record[turn][WorkGraph[j]] = "none"
      BY <2>1, Places DEF OrderInv, Ordered
    <2>4. ASSUME NEW t \in WorkTurns PROVE Ordered(t)'
      BY <2>1, <2>2, <2>3 DEF OrderInv, Ordered, Reached
    <2>5. Reached'
      BY <2>1, <2>2, Places DEF OrderInv, Reached
    <2> QED
      BY <2>4, <2>5 DEF OrderInv
  <1>4. CASE invoking /\ at \in 1 .. Len(WorkGraph) /\ Advance
    <2>1. /\ at \in 1 .. 6 /\ at' = at + 1 /\ turn' = turn
          /\ record' = [record EXCEPT ![turn][WorkGraph[at]] = "verified"]
      BY <1>4, GraphFacts DEF Advance
    <2>2. \A t \in WorkTurns, i \in 1 .. 6 :
            t # turn \/ i # at => record'[t][WorkGraph[i]] = record[t][WorkGraph[i]]
      BY <2>1, GraphFacts, StagesDiffer, Places
    <2>3. record'[turn][WorkGraph[at]] = "verified"
      BY <2>1, GraphFacts, Places
    <2>4. ASSUME NEW t \in WorkTurns PROVE Ordered(t)'
      BY <2>1, <2>2, <2>3 DEF OrderInv, Ordered, Reached
    <2>5. Reached'
      BY <2>1, <2>2, <2>3, Places DEF OrderInv, Reached
    <2> QED
      BY <2>4, <2>5 DEF OrderInv
  <1> QED
    BY <1>1, <1>2, <1>3, <1>4, StepMoves

\* What the order says of the stages that matter below.
LEMMA OrderFacts ==
    ASSUME TypeOK, InvokingAt, SettledInv, OrderInv
    PROVE  /\ \A t \in WorkTurns : record[t]["primary"] = "none" =>
                 \A s \in Steps : record[t][s] = "none" /\ saved[t][s] = None
           /\ \A t \in WorkTurns : record[t]["commit"] # "verified" =>
                 \A s \in {"contain", "record"} : record[t][s] = "none" /\ saved[t][s] = None
           /\ at \in 1 .. 3 /\ record[turn][WorkGraph[at]] # "verified" =>
                record[turn]["commit"] = "none"
           /\ at \in {5, 6, 7} => record[turn]["commit"] = "verified"
  <1>1. /\ \A s \in Steps : \E i \in 1 .. 6 : s = WorkGraph[i]
        /\ WorkGraph[1] = "primary" /\ WorkGraph[4] = "commit"
        /\ WorkGraph[5] = "contain" /\ WorkGraph[6] = "record"
        /\ "contain" \in Steps /\ "record" \in Steps
    BY GraphFacts DEF WorkGraph
  <1>2. \A t \in WorkTurns, s \in Steps : record[t][s] \in {"none", "held", "verified"}
    BY Places
  <1>3. \A t \in WorkTurns, s \in Steps : record[t][s] = "none" => saved[t][s] = None
    BY DEF SettledInv, FilesAgree
  <1>4. ASSUME NEW t \in WorkTurns, record[t]["primary"] = "none", NEW s \in Steps
        PROVE  record[t][s] = "none"
    <2>1. PICK i \in 1 .. 6 : s = WorkGraph[i]
      BY <1>1
    <2>2. CASE i = 1
      BY <1>1, <1>4, <2>1, <2>2
    <2>3. CASE i # 1
      BY <1>1, <1>2, <1>4, <2>1, <2>3 DEF OrderInv, Ordered
    <2> QED
      BY <2>2, <2>3
  <1>5. ASSUME NEW t \in WorkTurns, record[t]["commit"] # "verified", NEW s \in {"contain", "record"}
        PROVE  record[t][s] = "none"
    BY <1>1, <1>2, <1>5 DEF OrderInv, Ordered
  <1>6. at \in 1 .. 3 /\ record[turn][WorkGraph[at]] # "verified" => record[turn]["commit"] = "none"
    BY <1>1, Places DEF OrderInv, Ordered
  <1>7. at \in {5, 6, 7} => record[turn]["commit"] = "verified"
    BY <1>1 DEF OrderInv, Reached
  <1> QED
    BY <1>1, <1>3, <1>4, <1>5, <1>6, <1>7

-----------------------------------------------------------------------------
(* The state a process holds.  Where only the last activation is started   *)
(* again, the dataset in its memory is the one of state.json whenever it   *)
(* may still write it: from the start up to its commit, and after that.    *)
(* The stage files it restores on its way there are the reason this needs  *)
(* an invariant; a commit that was cut off leaves older ones behind, and no*)
(* process gets past that commit.                                          *)

\* No later turn has begun.
Last(t) == \A later \in WorkTurns : later > t => record[later]["primary"] = "none"

SavedFresh(t) ==
    \A s \in Steps :
        /\ saved[t][s] # None
        /\ \/ record[t]["commit"] = "none"
           \/ record[t]["commit"] = "verified" /\ s \in {"commit", "contain", "record"}
        => saved[t][s].state.dataset = state.dataset

HeldFresh ==
    at # 0 /\ (at >= 5 \/ invoking \/ record[turn]["commit"] = "none") =>
        work.state.dataset = state.dataset

FreshInv ==
    /\ at # 0 => Last(turn)
    /\ \A t \in WorkTurns : Last(t) => SavedFresh(t)
    /\ HeldFresh

\* The steps of a stage that write neither a stage file nor state.json.
Quietly ==
    \/ Spend \/ AttemptRefused \/ ContextFails
    \/ \E exit \in {"zero", "three", "other"}, printed \in Outputs : Occupy(exit, printed)
    \/ Idle \/ CommitStore \/ CommitOutput \/ RecordReturn

LEMMA QuietMoves ==
    ASSUME TypeOK, Quietly
    PROVE  /\ invoking /\ UNCHANGED <<record, turn, at, invoking, saved, state>>
           /\ work'.state = work.state
  <1>0. work \in Results
    BY DEF TypeOK
  <1>1. invoking /\ UNCHANGED <<record, turn, at, invoking, saved, state>>
    BY DEF Quietly, Spend, AttemptRefused, ContextFails, Occupy, Idle, CommitStore, CommitOutput,
           RecordReturn, Attempting, Committing, Invoking, steps, files
  <1>2. ASSUME AttemptRefused \/ ContextFails PROVE work'.state = work.state
    BY <1>0, <1>2 DEF AttemptRefused, ContextFails, Fail, Results
  <1>3. ASSUME Spend \/ Idle \/ CommitStore \/ CommitOutput \/ RecordReturn
        PROVE  work'.state = work.state
    BY <1>3 DEF Spend, Idle, CommitStore, CommitOutput, RecordReturn, memory
  <1>4. ASSUME NEW exit \in {"zero", "three", "other"}, NEW printed \in Outputs, Occupy(exit, printed)
        PROVE  work'.state = work.state
    BY <1>0, <1>4 DEF Occupy, Fail, Results
  <1> QED
    BY <1>1, <1>2, <1>3, <1>4 DEF Quietly

\* Every step is one of these.
LEMMA StepKinds ==
    ASSUME [Next]_vars
    PROVE  \/ \E t \in WorkTurns, given \in Sources : Activate(t, given)
           \/ Walk \/ Quietly \/ CommitState \/ Contain \/ Verify
           \/ Exit \/ Finish \/ CommitTorn \/ ActivateTorn \/ UNCHANGED vars
  BY DEF Next, Invoke, Quietly

LEMMA GoneLeaves ==
    ASSUME Exit \/ Finish \/ CommitTorn
    PROVE  at' = 0 /\ invoking' = FALSE /\ UNCHANGED <<record, turn, saved, state>>
  BY DEF Exit, Finish, CommitTorn, Gone, Leave, files

\* Neither a stage file nor a record nor the state changes.
LEMMA SavedStaysFresh ==
    ASSUME UNCHANGED <<record, saved, state>>
    PROVE  /\ \A t \in WorkTurns : Last(t)' = Last(t)
           /\ \A t \in WorkTurns : SavedFresh(t)' = SavedFresh(t)
  BY DEF Last, SavedFresh

LEMMA FreshWhenWalking ==
    ASSUME TypeOK, InvokingAt, SettledInv, OrderInv, FreshInv, Walk
    PROVE  FreshInv'
  <1> DEFINE step == WorkGraph[at]
  <1>1. /\ at \in 1 .. 6 /\ step \in Steps /\ ~invoking
        /\ UNCHANGED <<turn, saved, state>>
        /\ work' = IF saved[turn][step] = None THEN work ELSE saved[turn][step]
        /\ step = "commit" <=> at = 4
        /\ at \in {5, 6} => step \in {"contain", "record"}
    BY GraphFacts DEF Walk, PassOver, Dispatch, Reaching, RestoreStage, files, WorkGraph
  <1>2. Last(turn) /\ SavedFresh(turn) /\ turn \in WorkTurns
    BY <1>1, Places DEF FreshInv
  <1>3. CASE PassOver
    <2>1. /\ record[turn][step] = "verified" /\ at' = at + 1 /\ invoking' = FALSE /\ record' = record
      BY <1>1, <1>3 DEF PassOver, Reaching
    <2>2. work' = saved[turn][step] /\ saved[turn][step] # None
      BY <1>1, <1>2, <2>1, NoneAssumption DEF SettledInv, FilesAgree
    <2>3. HeldFresh'
      <3>1. CASE at \in {4, 5, 6}
        <4>1. record[turn]["commit"] = "verified"
          BY <1>1, <2>1, <3>1, OrderFacts
        <4> QED
          BY <1>1, <1>2, <2>1, <2>2, <3>1, <4>1 DEF SavedFresh, HeldFresh
      <3>2. CASE at \in {1, 2, 3}
        BY <1>1, <1>2, <2>1, <2>2, <3>2 DEF SavedFresh, HeldFresh
      <3> QED
        BY <1>1, <3>1, <3>2
    <2> QED
      BY <1>1, <1>2, <2>1, <2>3, SavedStaysFresh DEF FreshInv
  <1>4. CASE Dispatch
    <2>1. /\ record[turn][step] = "none" /\ invoking' = TRUE /\ at' = at
          /\ record' = [record EXCEPT ![turn][step] = "held"]
      BY <1>4 DEF Dispatch, Reaching
    <2>2. work' = work
      BY <1>1, <1>2, <2>1 DEF SettledInv, FilesAgree
    <2>3. \A t \in WorkTurns, s \in Steps :
            record'[t][s] # "held" => record'[t][s] = record[t][s]
      BY <1>1, <2>1, Places
    <2>4. at <= 4 => record[turn]["commit"] = "none"
      BY <1>1, <2>1, OrderFacts
    <2>5. work.state.dataset = state.dataset
      BY <1>1, <2>4 DEF FreshInv, HeldFresh
    <2>6. Last(turn)'
      <3>1. \A t \in WorkTurns : t # turn => record'[t] = record[t]
        BY <2>1, Places
      <3> QED
        BY <1>1, <1>2, <3>1 DEF Last, WorkTurns
    <2>7. ASSUME NEW t \in WorkTurns, Last(t)' PROVE SavedFresh(t)'
      <3>1. "primary" \in Steps /\ "commit" \in Steps
        BY GraphFacts
      <3>2. Last(t)
        BY <2>3, <2>7, <3>1 DEF Last
      <3>3. SavedFresh(t)
        BY <3>2 DEF FreshInv
      <3> QED
        BY <1>1, <2>3, <3>1, <3>3 DEF SavedFresh
    <2> QED
      BY <1>1, <2>2, <2>5, <2>6, <2>7 DEF FreshInv, HeldFresh
  <1> QED
    BY <1>3, <1>4 DEF Walk

LEMMA FreshWhenVerifying ==
    ASSUME TypeOK, InvokingAt, SettledInv, OrderInv, FreshInv, Verify
    PROVE  FreshInv'
  <1> DEFINE step == WorkGraph[at]
  <1>1. /\ invoking /\ at \in 1 .. 6 /\ step \in Steps
        /\ saved' = [saved EXCEPT ![turn][step] = work] /\ UNCHANGED <<turn, state>>
        /\ step = "commit" <=> at = 4
        /\ at \in {5, 6} <=> step \in {"contain", "record"}
    BY GraphFacts DEF Verify, InvokingAt, WorkGraph, Advance, Gone, Leave
  <1>2. /\ Last(turn) /\ SavedFresh(turn) /\ turn \in WorkTurns
        /\ work.state.dataset = state.dataset /\ record[turn][step] = "held"
    BY <1>1, Places DEF FreshInv, HeldFresh, SettledInv, ProcessAgrees
  <1>3. \A t \in WorkTurns, s \in Steps :
          saved'[t][s] = IF t = turn /\ s = step THEN work ELSE saved[t][s]
    BY <1>1, Places
  <1>4. CASE ~Matches
    <2>1. at' = 0 /\ record' = record
      BY <1>4 DEF Verify, Gone, Leave
    <2>2. ASSUME NEW t \in WorkTurns, Last(t)' PROVE SavedFresh(t)'
      <3>1. SavedFresh(t)
        BY <2>1, <2>2 DEF FreshInv, Last
      <3> QED
        BY <1>1, <1>2, <1>3, <2>1, <3>1 DEF SavedFresh
    <2> QED
      BY <2>1, <2>2 DEF FreshInv, HeldFresh
  <1>5. CASE Matches
    <2>1. /\ at' = at + 1 /\ invoking' = FALSE /\ work' = work
          /\ record' = [record EXCEPT ![turn][step] = "verified"]
      BY <1>5 DEF Verify, Advance, memory
    <2>2. \A t \in WorkTurns, s \in Steps :
            record'[t][s] = IF t = turn /\ s = step THEN "verified" ELSE record[t][s]
      BY <1>1, <2>1, Places
    <2>3. ASSUME NEW t \in WorkTurns, Last(t)' PROVE Last(t) /\ SavedFresh(t)'
      <3>1. "primary" \in Steps /\ "commit" \in Steps
        BY GraphFacts
      <3>2. Last(t)
        BY <2>2, <2>3, <3>1 DEF Last
      <3>3. SavedFresh(t)
        BY <3>2 DEF FreshInv
      <3>4. CASE step = "commit" /\ t = turn
        <4>1. \A s \in {"contain", "record"} : saved[turn][s] = None
          BY <1>2, <3>4, OrderFacts
        <4> QED
          BY <1>1, <1>2, <1>3, <2>2, <3>1, <3>2, <3>4, <4>1 DEF SavedFresh
      <3>5. CASE ~(step = "commit" /\ t = turn)
        <4>1. record'[t]["commit"] = record[t]["commit"] /\ state' = state
          BY <1>1, <2>2, <3>1, <3>5
        <4>2. \A s \in Steps : saved'[t][s] = saved[t][s] \/ saved'[t][s].state.dataset = state.dataset
          BY <1>2, <1>3
        <4> QED
          BY <3>2, <3>3, <4>1, <4>2 DEF SavedFresh
      <3> QED
        BY <3>2, <3>4, <3>5
    <2>4. Last(turn)'
      <3>1. \A t \in WorkTurns : t # turn => record'[t] = record[t]
        BY <2>1, Places
      <3> QED
        BY <1>1, <1>2, <3>1 DEF Last, WorkTurns
    <2>5. HeldFresh'
      BY <1>1, <1>2, <2>1 DEF HeldFresh
    <2> QED
      BY <1>1, <2>3, <2>4, <2>5 DEF FreshInv
  <1> QED
    BY <1>4, <1>5

\* The turn that commits is the last, and a later one has no stage file yet.
LEMMA FreshWhenCommitting ==
    ASSUME TypeOK, InvokingAt, SettledInv, OrderInv, FreshInv, CommitState
    PROVE  FreshInv' /\ invoking /\ at = 4 /\ turn \in WorkTurns
           /\ work.verified = TRUE /\ phase = "written" /\ phase' = "save"
           /\ UNCHANGED <<record, turn, at, invoking, saved, output>>
           /\ state'.dataset = work.proposal
  <1>1. /\ invoking /\ at = 4 /\ turn \in WorkTurns
        /\ work.verified = TRUE /\ phase = "written" /\ phase' = "save"
        /\ UNCHANGED <<record, turn, at, invoking, saved, output>>
    BY Places DEF CommitState, Committing, steps
  <1>2. work'.state = state' /\ state'.dataset = work.proposal
    <2>1. state' = [Nothing.state EXCEPT !.period = work.state.period + 1, !.dataset = work.proposal]
      BY DEF CommitState
    <2> QED
      BY <2>1, Places, NothingTyped DEF CommitState, Results, WorkStates
  <1>3. record[turn]["commit"] = "held" /\ Last(turn)
    BY <1>1, GraphFacts DEF SettledInv, ProcessAgrees, FreshInv
  <1>4. ASSUME NEW t \in WorkTurns, Last(t) PROVE SavedFresh(t)'
    <2>1. CASE t = turn
      BY <1>1, <1>3, <2>1 DEF SavedFresh
    <2>2. CASE t # turn
      <3>1. record[turn]["primary"] # "none"
        BY <1>3, OrderFacts, Places
      <3>2. t > turn
        BY <1>1, <1>4, <2>2, <3>1 DEF Last, WorkTurns
      <3>3. record[t]["primary"] = "none"
        BY <1>3, <3>2 DEF Last
      <3>4. \A s \in Steps : saved[t][s] = None
        BY <3>3, OrderFacts
      <3> QED
        BY <1>1, <3>4 DEF SavedFresh
    <2> QED
      BY <2>1, <2>2
  <1>5. \A t \in WorkTurns : Last(t)' = Last(t)
    BY <1>1 DEF Last
  <1>6. HeldFresh'
    BY <1>2 DEF HeldFresh
  <1> QED
    BY <1>1, <1>2, <1>3, <1>4, <1>5, <1>6 DEF FreshInv

\* Containment writes the dataset that is there: "preserves the dataset".
LEMMA FreshWhenContaining ==
    ASSUME TypeOK, InvokingAt, FreshInv, Contain
    PROVE  FreshInv' /\ state'.dataset = state.dataset /\ at = 5
           /\ UNCHANGED <<record, turn, at, invoking, saved, output>>
  <1>1. at = 5 /\ invoking /\ UNCHANGED <<record, turn, at, invoking, saved, output>>
    BY Places DEF Contain, steps
  <1>2. work.state.dataset = state.dataset
    BY <1>1 DEF FreshInv, HeldFresh
  <1>3. state'.dataset = work.state.dataset /\ work'.state = state'
    BY Places DEF Contain, Results, WorkStates
  <1> QED
    BY <1>1, <1>2, <1>3 DEF FreshInv, HeldFresh, Last, SavedFresh

LEMMA FreshStep ==
    ASSUME Resume = "last", TypeOK, InvokingAt, SettledInv, OrderInv, FreshInv, [Next]_vars
    PROVE  FreshInv'
  <1>1. ASSUME NEW t \in WorkTurns, NEW given \in Sources, Activate(t, given)
        PROVE  FreshInv'
    <2>1. /\ turn' = t /\ Last(t) /\ UNCHANGED <<record, saved, state>>
      BY <1>1 DEF Activate, Start, Resumable, Last
    <2>2. work'.state = state
      BY <1>1, NothingTyped DEF Activate, Results
    <2> QED
      BY <2>1, <2>2, SavedStaysFresh DEF FreshInv, HeldFresh
  <1>2. CASE Walk
    BY <1>2, FreshWhenWalking
  <1>3. CASE Quietly
    BY <1>3, QuietMoves, SavedStaysFresh, Places DEF FreshInv, HeldFresh
  <1>4. CASE CommitState
    BY <1>4, FreshWhenCommitting
  <1>5. CASE Contain
    BY <1>5, FreshWhenContaining
  <1>6. CASE Verify
    BY <1>6, FreshWhenVerifying
  <1>7. CASE Exit \/ Finish \/ CommitTorn
    BY <1>7, GoneLeaves, SavedStaysFresh DEF FreshInv, HeldFresh
  <1>8. CASE ActivateTorn \/ UNCHANGED vars
    <2>1. UNCHANGED <<record, turn, at, invoking, saved, state, work>>
      BY <1>8 DEF ActivateTorn, vars, files, memory
    <2> QED
      BY <2>1, SavedStaysFresh, Places DEF FreshInv, HeldFresh
  <1> QED
    BY <1>1, <1>2, <1>3, <1>4, <1>5, <1>6, <1>7, <1>8, StepKinds

-----------------------------------------------------------------------------
(* The published dataset.  Of the commits in flight, the one that runs now *)
(* counts only while it has a proposal: one with nothing to do ends without*)
(* comparing the files, and must not have been the only one left.          *)

Unfinished(t) ==
    record[t]["commit"] = "held" /\ (t = turn /\ Invoking("commit") => work.verified = TRUE)

OutputInv == output = state.dataset \/ \E t \in WorkTurns : Unfinished(t)

LEMMA OutputStep ==
    ASSUME TypeOK, InvokingAt, SettledInv, OrderInv, FreshInv, OutputInv, [Next]_vars
    PROVE  OutputInv'
  <1> USE DEF memory, files, ghosts, steps
  <1>1. CASE \/ \E t \in WorkTurns, given \in Sources : Activate(t, given)
             \/ Exit \/ Finish \/ CommitTorn
    <2>1. ~Invoking("commit")' /\ UNCHANGED <<record, output, state>>
      BY <1>1 DEF Activate, Start, InvokingAt, Exit, Finish, CommitTorn, Gone, Leave, Invoking
    <2> QED
      BY <2>1 DEF OutputInv, Unfinished
  <1>2. CASE Walk
    <2>1. UNCHANGED <<turn, output, state>> /\ turn \in WorkTurns /\ ~invoking
      BY <1>2, Places DEF Walk, PassOver, Dispatch, Reaching
    <2>2. CASE PassOver
      BY <2>1, <2>2 DEF PassOver, OutputInv, Unfinished, Invoking
    <2>3. CASE Dispatch
      <3>1. /\ at \in 1 .. 6 /\ record[turn][WorkGraph[at]] = "none" /\ at' = at
            /\ record' = [record EXCEPT ![turn][WorkGraph[at]] = "held"]
        BY <2>3, GraphFacts DEF Dispatch, Reaching
      <3>2. \A t \in WorkTurns : record[t]["commit"] = "held" =>
              /\ record'[t]["commit"] = "held"
              /\ ~(t = turn /\ WorkGraph[at] = "commit")
        BY <3>1, GraphFacts, Places
      <3> QED
        BY <2>1, <3>1, <3>2 DEF OutputInv, Unfinished, Invoking
    <2> QED
      BY <1>2, <2>2, <2>3 DEF Walk
  <1>3. CASE Quietly /\ ~Committing
    <2>1. UNCHANGED <<record, turn, at, invoking, output, state>>
      BY <1>3, QuietMoves DEF Quietly, Spend, AttemptRefused, ContextFails, Occupy, Idle, CommitStore,
         CommitOutput, RecordReturn
    <2>2. \A t \in WorkTurns : Unfinished(t) => ~(t = turn /\ Invoking("commit"))
      BY <1>3 DEF Committing, Unfinished
    <2> QED
      BY <2>1, <2>2 DEF OutputInv, Unfinished, Invoking
  <1>4. CASE Quietly /\ Committing
    <2>1. invoking /\ at = 4 /\ work.verified = TRUE /\ turn \in WorkTurns
      BY <1>4, Places DEF Committing
    <2>2. record[turn]["commit"] = "held"
      BY <2>1, GraphFacts DEF SettledInv, ProcessAgrees
    <2>3. CommitStore \/ CommitOutput
      <3>1. /\ phase # "spent" /\ ~Attempting /\ ~Invoking("diagnose") /\ ~Invoking("alternate")
            /\ ~Invoking("contain") /\ ~Invoking("record")
        BY <2>1, Places DEF Attempting, SettledInv, ProcessAgrees
      <3>2. ~Idle
        BY <2>1, <3>1 DEF Idle
      <3> QED
        BY <1>4, <3>1, <3>2 DEF Quietly, Spend, AttemptRefused, ContextFails, Occupy, RecordReturn
    <2>4. UNCHANGED <<record, turn, work>>
      BY <2>3 DEF CommitStore, CommitOutput
    <2> QED
      BY <2>1, <2>2, <2>4 DEF OutputInv, Unfinished
  <1>5. CASE CommitState
    <2>1. /\ invoking /\ at = 4 /\ work.verified = TRUE /\ turn \in WorkTurns
          /\ UNCHANGED <<record, turn>>
      BY <1>5, FreshWhenCommitting
    <2>2. work'.verified = TRUE
      BY <1>5, <2>1, Places DEF CommitState, Results
    <2>3. record[turn]["commit"] = "held"
      BY <2>1, GraphFacts DEF SettledInv, ProcessAgrees
    <2> QED
      BY <2>1, <2>2, <2>3 DEF OutputInv, Unfinished
  <1>6. CASE Contain
    <2>1. /\ UNCHANGED <<record, turn, at, invoking, output>> /\ state'.dataset = state.dataset
          /\ at = 5
      BY <1>6, FreshWhenContaining
    <2> QED
      BY <2>1, Places, GraphFacts DEF OutputInv, Unfinished, Invoking
  <1>7. CASE Verify /\ ~Matches
    BY <1>7 DEF Verify, Gone, Leave, OutputInv, Unfinished, Invoking
  <1>8. CASE Verify /\ Matches
    <2>1. /\ invoking /\ ~invoking' /\ at \in 1 .. 6 /\ UNCHANGED <<output, state>>
          /\ record' = [record EXCEPT ![turn][WorkGraph[at]] = "verified"]
      BY <1>8, GraphFacts DEF Verify, Advance, InvokingAt
    <2>2. CASE Committing
      BY <1>8, <2>1, <2>2 DEF Matches, OutputInv
    <2>3. CASE ~Committing
      <3>1. \A t \in WorkTurns : Unfinished(t) => ~(t = turn /\ at = 4)
        BY <2>1, <2>3, Places DEF Committing, Unfinished
      <3>2. \A t \in WorkTurns : ~(t = turn /\ at = 4) => record'[t]["commit"] = record[t]["commit"]
        BY <2>1, Places, GraphFacts
      <3> QED
        BY <2>1, <3>1, <3>2 DEF OutputInv, Unfinished, Invoking
    <2> QED
      BY <2>2, <2>3
  <1>9. CASE ActivateTorn \/ UNCHANGED vars
    <2>1. UNCHANGED <<record, turn, at, invoking, output, state, work>>
      BY <1>9 DEF ActivateTorn, vars
    <2> QED
      BY <2>1 DEF OutputInv, Unfinished, Invoking
  <1> QED
    BY <1>1, <1>2, <1>3, <1>4, <1>5, <1>6, <1>7, <1>8, <1>9, StepKinds

LEMMA StartsInOrder == Init => OrderInv /\ FreshInv /\ OutputInv
  <1> SUFFICES ASSUME Init PROVE OrderInv /\ FreshInv /\ OutputInv
    OBVIOUS
  <1>1. /\ at = 0 /\ output = None /\ state.dataset = None
        /\ \A t \in WorkTurns, s \in Steps : record[t][s] = "none" /\ saved[t][s] = None
    BY DEF Init, StepsInit, Nothing
  <1>2. turn \in WorkTurns
    BY BoundsAssumption DEF Init, WorkTurns
  <1> QED
    BY <1>1, <1>2, GraphFacts DEF OrderInv, Ordered, Reached, FreshInv, SavedFresh, HeldFresh, OutputInv

\* Types, the order of the stages and the settling of the turns, together.
LEMMA Orderly == Spec => [](TypeOK /\ InvokingAt /\ SettledInv /\ OrderInv)
  <1>1. Init => SettledInv
    BY GraphFacts DEF Init, StepsInit, SettledInv, FilesAgree, ProcessAgrees, Judged
  <1>2. TypeOK /\ InvokingAt /\ SettledInv /\ [Next]_vars => SettledInv'
    BY SettledStep
  <1>3. TypeOK /\ InvokingAt /\ OrderInv /\ [Next]_vars => OrderInv'
    BY OrderStep
  <1> QED
    BY <1>1, <1>2, <1>3, StartsInOrder, Typed, PTL DEF Spec

\* Where only the last activation is started again, the published dataset is the
\* one of state.json, unless a commit was cut off between writing the two; that
\* commit then stays recorded as in flight, whatever later turns do.
THEOREM PublishedIsStated ==
    ASSUME Resume = "last"
    PROVE  Spec => []OutputAgrees
  <1>1. TypeOK /\ InvokingAt /\ SettledInv /\ OrderInv /\ FreshInv /\ [Next]_vars => FreshInv'
    BY FreshStep
  <1>2. TypeOK /\ InvokingAt /\ SettledInv /\ OrderInv /\ FreshInv /\ OutputInv /\ [Next]_vars
          => OutputInv'
    BY OutputStep
  <1>3. OutputInv => OutputAgrees
    BY DEF OutputInv, Unfinished, OutputAgrees
  <1> QED
    BY <1>1, <1>2, <1>3, StartsInOrder, Orderly, PTL DEF Spec

-----------------------------------------------------------------------------
(* What a turn commits.  A proposal keeps and adds rows with respect to the*)
(* state it was validated with, which is held, and saved, with it; the     *)
(* order of the stages and FreshInv make that the state it replaces.       *)

Grows(w) ==
    w.verified = TRUE =>
        /\ \A row \in Content(w.state.dataset) : row.key \in w.judged => row \in Content(w.proposal)
        /\ ~(Content(w.proposal) \subseteq Content(w.state.dataset))

ProposalInv ==
    /\ at \in 1 .. 4 /\ (at = 4 /\ invoking => phase # "save") => Grows(work)
    /\ \A t \in WorkTurns, s \in {"primary", "diagnose", "alternate"} :
         saved[t][s] # None => Grows(saved[t][s])

\* validate: of finitely many rows, more than those that had to be kept.
LEMMA ValidatedGrows ==
    ASSUME NEW proposal \in Outputs, proposal # None, Validates(proposal)
    PROVE  /\ \A row \in Content(work.state.dataset) : row.key \in source => row \in proposal
           /\ ~(proposal \subseteq Content(work.state.dataset))
  <1> DEFINE kept == {row \in Content(work.state.dataset) : Verifiable(row)}
  <1>1. /\ \A row \in proposal : Verifiable(row)
        /\ kept \subseteq proposal /\ Cardinality(proposal) > Cardinality(kept)
    BY DEF Validates
  <1>2. Cardinality(proposal) \in Nat
    BY OutputsAssumption, FS_CardinalityType
  <1>3. ASSUME proposal \subseteq Content(work.state.dataset) PROVE FALSE
    <2>1. proposal = kept
      BY <1>1, <1>3
    <2> QED
      BY <1>1, <1>2, <2>1
  <1> QED
    BY <1>1, <1>3 DEF Verifiable

LEMMA ProposalWhenOccupied ==
    ASSUME TypeOK, InvokingAt, SettledInv, ProposalInv,
           NEW exit \in {"zero", "three", "other"}, NEW printed \in Outputs, Occupy(exit, printed)
    PROVE  ProposalInv'
  <1>1. /\ invoking /\ phase = "spent" /\ UNCHANGED <<saved, at, invoking>> /\ work \in Results
    BY Places DEF Occupy, steps
  <1>2. at \in {1, 2, 3}
    BY <1>1, GraphFacts DEF SettledInv, ProcessAgrees, InvokingAt
  <1>3. CASE Failure(exit, printed) # "none" \/ ~Validates(printed)
    <2>1. /\ work'.verified = work.verified /\ work'.state = work.state
          /\ work'.judged = work.judged /\ work'.proposal = work.proposal
      BY <1>1, <1>3 DEF Occupy, Fail, Results
    <2> QED
      BY <1>1, <1>2, <2>1 DEF ProposalInv, Grows
  <1>4. CASE Failure(exit, printed) = "none" /\ Validates(printed)
    <2>1. printed # None
      BY <1>4 DEF Failure
    <2>2. work'.state = work.state /\ work'.judged = source /\ work'.proposal = printed
      BY <1>1, <1>4 DEF Occupy, Results
    <2>3. Content(printed) = printed
      BY <2>1 DEF Content
    <2> QED
      BY <1>1, <1>2, <1>4, <2>1, <2>2, <2>3, ValidatedGrows DEF ProposalInv, Grows
  <1> QED
    BY <1>3, <1>4

LEMMA ProposalStep ==
    ASSUME TypeOK, InvokingAt, SettledInv, ProposalInv, [Next]_vars
    PROVE  ProposalInv'
  <1> USE DEF memory, files, ghosts, steps
  <1>0. at \in 0 .. 7 /\ turn \in WorkTurns /\ work \in Results
    BY Places
  <1>1. ASSUME NEW t \in WorkTurns, NEW given \in Sources, Activate(t, given)
        PROVE  ProposalInv'
    <2>1. work'.verified = FALSE /\ saved' = saved
      BY <1>1 DEF Activate, Nothing
    <2> QED
      BY <2>1 DEF ProposalInv, Grows
  <1>2. CASE Walk
    <2>1. /\ at \in 1 .. 6 /\ ~invoking /\ saved' = saved /\ phase' = "enter" /\ at' \in {at, at + 1}
          /\ work' = IF saved[turn][WorkGraph[at]] = None THEN work ELSE saved[turn][WorkGraph[at]]
      BY <1>2, GraphFacts DEF Walk, PassOver, Dispatch, Reaching, RestoreStage
    <2>2. at \in 1 .. 3 => WorkGraph[at] \in {"primary", "diagnose", "alternate"}
      BY DEF WorkGraph
    <2>3. at = 4 /\ at' = at => work' = work
      <3>1. at = 4 /\ at' = at => record[turn][WorkGraph[at]] = "none"
        BY <1>2 DEF Walk, PassOver, Dispatch, Reaching
      <3> QED
        BY <1>0, <2>1, <3>1, GraphFacts DEF SettledInv, FilesAgree
    <2>4. at \in 1 .. 3 => Grows(work')
      BY <1>0, <2>1, <2>2 DEF ProposalInv
    <2> QED
      BY <2>1, <2>3, <2>4 DEF ProposalInv, Grows
  <1>3. ASSUME NEW exit \in {"zero", "three", "other"}, NEW printed \in Outputs,
               Occupy(exit, printed)
        PROVE  ProposalInv'
    BY <1>3, ProposalWhenOccupied
  <1>4. CASE AttemptRefused \/ ContextFails
    <2>1. UNCHANGED <<at, invoking, saved>>
      BY <1>4 DEF AttemptRefused, ContextFails
    <2>2. at \notin {4}
      BY <1>4, Places DEF AttemptRefused, ContextFails, Attempting, SettledInv, ProcessAgrees
    <2>3. /\ work'.verified = work.verified /\ work'.state = work.state
          /\ work'.judged = work.judged /\ work'.proposal = work.proposal
      BY <1>0, <1>4 DEF AttemptRefused, ContextFails, Fail, Results
    <2> QED
      BY <2>1, <2>2, <2>3 DEF ProposalInv, Grows
  <1>5. CASE Spend \/ Idle \/ CommitStore \/ CommitOutput \/ RecordReturn
    <2>1. UNCHANGED <<at, invoking, saved, work>> /\ invoking /\ phase # "save"
      BY <1>5 DEF Spend, Idle, CommitStore, CommitOutput, RecordReturn, Attempting, Committing, Invoking
    <2> QED
      BY <2>1 DEF ProposalInv, Grows
  <1>6. CASE CommitState \/ Contain
    <2>1. UNCHANGED <<at, invoking, saved>> /\ invoking /\ at \in {4, 5} /\ phase' = "save"
      BY <1>6, Places DEF CommitState, Contain, Committing
    <2> QED
      BY <2>1 DEF ProposalInv
  <1>7. CASE Verify
    <2>1. /\ at \in 1 .. 6 /\ invoking /\ phase = "save"
          /\ saved' = [saved EXCEPT ![turn][WorkGraph[at]] = work]
          /\ at' = 0 \/ (at' = at + 1 /\ work' = work)
      BY <1>7, GraphFacts DEF Verify, InvokingAt, Advance, Gone, Leave
    <2>2. WorkGraph[at] \in Steps /\ (WorkGraph[at] \in {"primary", "diagnose", "alternate"} => at \in 1 .. 3)
      BY <2>1, GraphFacts DEF WorkGraph
    <2>3. at \in 1 .. 3 => Grows(work)
      BY <2>1 DEF ProposalInv
    <2>4. \A t \in WorkTurns, s \in Steps :
            saved'[t][s] = IF t = turn /\ s = WorkGraph[at] THEN work ELSE saved[t][s]
      BY <2>1, <2>2, Places
    <2>5. {"primary", "diagnose", "alternate"} \subseteq Steps
      BY GraphFacts
    <2>6. ASSUME NEW t \in WorkTurns, NEW s \in {"primary", "diagnose", "alternate"}, saved'[t][s] # None
          PROVE  Grows(saved'[t][s])
      <3>1. CASE t = turn /\ s = WorkGraph[at]
        BY <2>2, <2>3, <2>4, <2>5, <3>1
      <3>2. CASE ~(t = turn /\ s = WorkGraph[at])
        BY <2>4, <2>5, <2>6, <3>2 DEF ProposalInv
      <3> QED
        BY <3>1, <3>2
    <2>7. at' \in 1 .. 4 /\ (at' = 4 /\ invoking' => phase' # "save") => Grows(work')
      BY <2>1, <2>3
    <2> QED
      BY <2>6, <2>7 DEF ProposalInv, Grows
  <1>8. CASE Exit \/ Finish \/ CommitTorn
    <2>1. at' = 0 /\ saved' = saved
      BY <1>8, GoneLeaves
    <2> QED
      BY <2>1 DEF ProposalInv, Grows
  <1>9. CASE ActivateTorn \/ UNCHANGED vars
    <2>1. UNCHANGED <<at, invoking, phase, saved, work>>
      BY <1>9 DEF ActivateTorn, vars
    <2> QED
      BY <2>1 DEF ProposalInv, Grows
  <1> QED
    BY <1>1, <1>2, <1>3, <1>4, <1>5, <1>6, <1>7, <1>8, <1>9 DEF Next, Invoke

\* Only a commit changes the dataset of the state.
LEMMA OnlyCommitsChange ==
    ASSUME TypeOK, InvokingAt, FreshInv, [Next]_vars, state'.dataset # state.dataset
    PROVE  CommitState
  <1>1. CASE Quietly
    BY <1>1, QuietMoves
  <1>2. CASE Contain
    BY <1>2, FreshWhenContaining
  <1>3. CASE \/ \E t \in WorkTurns, given \in Sources : Activate(t, given)
             \/ Walk \/ Verify \/ Exit \/ Finish \/ CommitTorn \/ ActivateTorn \/ UNCHANGED vars
    BY <1>3 DEF Activate, Walk, Verify, Exit, Finish, CommitTorn, ActivateTorn, vars, files
  <1> QED
    BY <1>1, <1>2, <1>3, StepKinds

\* Where only the last activation is started again, what a turn commits keeps
\* every row that the files its proposal was judged by still name, and has a new
\* one, however many processes it took and whichever stages they restored.
THEOREM RowsAreKept ==
    ASSUME Resume = "last"
    PROVE  Spec => RowsKept
  <1> DEFINE Keeps ==
        state'.dataset # state.dataset =>
          /\ \A row \in Content(state.dataset) :
                row.key \in work.judged => row \in Content(state'.dataset)
          /\ ~(Content(state'.dataset) \subseteq Content(state.dataset))
  <1>1. Init => ProposalInv
    BY GraphFacts DEF Init, StepsInit, ProposalInv
  <1>2. TypeOK /\ InvokingAt /\ SettledInv /\ ProposalInv /\ [Next]_vars => ProposalInv'
    BY ProposalStep
  <1>3. TypeOK /\ InvokingAt /\ SettledInv /\ OrderInv /\ FreshInv /\ [Next]_vars => FreshInv'
    BY FreshStep
  <1>4. TypeOK /\ InvokingAt /\ SettledInv /\ OrderInv /\ FreshInv /\ ProposalInv /\ [Next]_vars
          => [Keeps]_vars
    <2> SUFFICES ASSUME TypeOK, InvokingAt, SettledInv, OrderInv, FreshInv, ProposalInv, [Next]_vars,
                        state'.dataset # state.dataset
                 PROVE  Keeps
      OBVIOUS
    <2>1. CommitState
      BY OnlyCommitsChange
    <2>2. /\ invoking /\ at = 4 /\ phase = "written" /\ work.verified = TRUE
          /\ state'.dataset = work.proposal
      BY <2>1, FreshWhenCommitting
    <2>3. Grows(work) /\ work.state.dataset = state.dataset
      BY <2>2 DEF ProposalInv, FreshInv, HeldFresh
    <2> QED
      BY <2>2, <2>3 DEF Grows
  <1> QED
    BY <1>1, <1>2, <1>3, <1>4, StartsInOrder, Orderly, PTL DEF Spec, RowsKept

\* The comment of contain, that it "preserves the dataset", is true of every
\* directory where only the last activation is started again.
THEOREM ContainmentPreserves ==
    ASSUME Resume = "last"
    PROVE  Spec => ContainPreserves
  <1>1. TypeOK /\ InvokingAt /\ SettledInv /\ OrderInv /\ FreshInv /\ [Next]_vars => FreshInv'
    BY FreshStep
  <1>2. TypeOK /\ InvokingAt /\ SettledInv /\ OrderInv /\ FreshInv /\ [Next]_vars
          => [Invoking("contain") => state'.dataset = state.dataset]_vars
    <2> SUFFICES ASSUME TypeOK, InvokingAt, SettledInv, OrderInv, FreshInv, [Next]_vars,
                        Invoking("contain"), state'.dataset # state.dataset
                 PROVE  FALSE
      OBVIOUS
    <2>1. at = 4
      BY OnlyCommitsChange, FreshWhenCommitting
    <2> QED
      BY <2>1, Places
  <1> QED
    BY <1>1, <1>2, StartsInOrder, Orderly, PTL DEF Spec, ContainPreserves

===============================================================================
