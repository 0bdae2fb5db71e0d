-------------------------- MODULE PlanningTurnProofs --------------------------
(***************************************************************************)
(* Theorems about PlanningTurn for every mandate, whatever a planner       *)
(* offers, however often the turn is restarted, and whoever else changes   *)
(* the ledger.                                                             *)
(***************************************************************************)
EXTENDS PlanningTurn, TLAPS

steps == <<record, at, invoking, runs>>

\* The journal's state of the i-th step.
Rec(i) == record[1][PlanningGraph[i]]

LEMMA GraphFacts ==
    /\ Len(PlanningGraph) = 7
    /\ \A i \in 1 .. 7 : PlanningGraph[i] \in Steps
    /\ \A i, j \in 1 .. 7 : PlanningGraph[i] = PlanningGraph[j] => i = j
    /\ \A s \in Steps : \E i \in 1 .. 7 : s = PlanningGraph[i]
  BY DEF PlanningGraph, Steps

LEMMA Places ==
    /\ Invoking("resolve") <=> invoking /\ at = 1
    /\ Invoking("propose") <=> invoking /\ at = 2
    /\ Invoking("validate") <=> invoking /\ at = 3
    /\ Invoking("renew") <=> invoking /\ at = 4
    /\ Invoking("confirm") <=> invoking /\ at = 5
    /\ Invoking("contain") <=> invoking /\ at = 6
    /\ Invoking("record") <=> invoking /\ at = 7
  <1>1. /\ PlanningGraph[1] = "resolve" /\ PlanningGraph[2] = "propose" /\ PlanningGraph[3] = "validate"
        /\ PlanningGraph[4] = "renew" /\ PlanningGraph[5] = "confirm" /\ PlanningGraph[6] = "contain"
        /\ PlanningGraph[7] = "record" /\ Len(PlanningGraph) = 7
    BY DEF PlanningGraph
  <1> QED
    BY <1>1, GraphFacts DEF Invoking

-----------------------------------------------------------------------------
(* The journal keeps the order of the stages: no step leaves a trace before *)
(* all earlier ones are verified, and a process is behind its own.         *)

OrderInv ==
    /\ StepsTypeOK
    /\ \A i, j \in 1 .. 7 : i < j /\ Rec(j) # "none" => Rec(i) = "verified"
    /\ \A i \in 1 .. 7 : i < at => Rec(i) = "verified"
    /\ invoking => at \in 1 .. 7 /\ Rec(at) = "held"

\* Every step takes the step machine along one of its own moves, or leaves it.
LEMMA StepMoves ==
    ASSUME [Next]_vars, invoking => at \in 1 .. 7
    PROVE  \/ Activate /\ Start(1)
           \/ PassOver \/ Refuse \/ Dispatch \/ Leave
           \/ invoking /\ at \in 1 .. 7 /\ Advance
           \/ UNCHANGED steps
  <1>1. CASE Activate \/ Walk \/ Exit \/ Finish
    BY <1>1 DEF Activate, Walk, Exit, Finish
  <1>2. CASE Resolve \/ ProposeDone \/ Validate \/ RenewDone \/ ConfirmWithoutReading
             \/ ConfirmUnreadable \/ ConfirmRead \/ Contain \/ RecordDone
    BY <1>2 DEF Resolve, ProposeDone, Validate, RenewDone, ConfirmWithoutReading, ConfirmUnreadable,
       ConfirmRead, Contain, RecordDone, Invoking
  <1>3. CASE ProposePlan \/ ProposeNothing \/ RenewAnswered \/ RenewKilled \/ RecordReturn
             \/ Tick \/ Elsewhere \/ Straggle \/ UNCHANGED vars
    BY <1>3 DEF ProposePlan, ProposeNothing, Attempt, RenewAnswered, RenewKilled, RecordReturn,
       Tick, Elsewhere, Straggle, vars, steps
  <1> QED
    BY <1>1, <1>2, <1>3 DEF Next, Stage

LEMMA OrderInit == Init => OrderInv
  <1> SUFFICES ASSUME Init PROVE OrderInv
    OBVIOUS
  <1>1. at \in 0 .. Len(PlanningGraph) + 1 /\ runs \in 0 .. MaxRuns /\ at = 0 /\ invoking = FALSE
    BY BoundsAssumption, GraphFacts DEF Init, StepsInit
  <1>2. record = [t \in {1} |-> [s \in Steps |-> "none"]]
    BY DEF Init, StepsInit
  <1>3. \A i \in 1 .. 7 : Rec(i) = "none"
    BY <1>2, GraphFacts DEF Rec
  <1>4. StepsTypeOK
    <2>1. record \in [{1} -> [Steps -> {"none", "held", "verified"}]]
      BY <1>2
    <2>2. invoking \in BOOLEAN
      BY <1>1, Zenon
    <2> QED
      BY <1>1, <2>1, <2>2 DEF StepsTypeOK
  <1> QED
    BY <1>1, <1>3, <1>4 DEF OrderInv

LEMMA OrderStep ==
    ASSUME OrderInv, [Next]_vars
    PROVE  OrderInv'
  <1> USE GraphFacts, BoundsAssumption
  <1>0. /\ record \in [{1} -> [Steps -> {"none", "held", "verified"}]]
        /\ at \in 0 .. 8 /\ runs \in 0 .. MaxRuns /\ invoking \in BOOLEAN
        /\ invoking => at \in 1 .. 7
    BY DEF OrderInv, StepsTypeOK
  <1>1. CASE Start(1)
    BY <1>0, <1>1 DEF Start, OrderInv, StepsTypeOK, Rec
  <1>2. CASE PassOver
    <2>1. Rec(at) = "verified" /\ at \in 1 .. 7 /\ at' = at + 1 /\ invoking' = FALSE
          /\ UNCHANGED <<record, runs>>
      BY <1>0, <1>2 DEF PassOver, Reaching, Rec
    <2>2. invoking' \in BOOLEAN
      BY <2>1, Zenon
    <2> QED
      BY <1>0, <2>1, <2>2 DEF OrderInv, StepsTypeOK, Rec
  <1>3. CASE Refuse \/ Leave
    <2>1. at' = 0 /\ invoking' = FALSE /\ UNCHANGED <<record, runs>>
      <3>1. CASE Refuse
        BY <1>0, <3>1 DEF Refuse, Reaching
      <3>2. CASE Leave
        BY <3>2 DEF Leave
      <3> QED
        BY <1>3, <3>1, <3>2
    <2>2. invoking' \in BOOLEAN
      BY <2>1, Zenon
    <2> QED
      BY <1>0, <2>1, <2>2 DEF OrderInv, StepsTypeOK, Rec
  <1>4. ASSUME NEW s \in {"held", "verified"},
               at \in 1 .. 7, Rec(at) # "verified",
               record' = [record EXCEPT ![1][PlanningGraph[at]] = s],
               UNCHANGED runs, invoking' \in BOOLEAN,
               \/ at' = at /\ invoking' /\ s = "held"
               \/ at' = at + 1 /\ ~invoking' /\ s = "verified"
        PROVE  OrderInv'
    <2>1. record' \in [{1} -> [Steps -> {"none", "held", "verified"}]]
      BY <1>0, <1>4
    <2>2. Rec(at)' = record'[1][PlanningGraph[at']]
      BY DEF Rec
    <2>3. \A i \in 1 .. 7 : record'[1][PlanningGraph[i]] = IF i = at THEN s ELSE Rec(i)
      BY <1>0, <1>4 DEF Rec
    <2>4. \A i \in 1 .. 7 : i < at => Rec(i) = "verified"
      BY DEF OrderInv
    <2>5. \A j \in 1 .. 7 : j > at => Rec(j) = "none"
      BY <1>0, <1>4 DEF OrderInv, Rec
    <2>6. \A i, j \in 1 .. 7 : i < j /\ record'[1][PlanningGraph[j]] # "none"
            => record'[1][PlanningGraph[i]] = "verified"
      BY <1>4, <2>3, <2>4, <2>5 DEF OrderInv
    <2>7. \A i \in 1 .. 7 : i < at' => record'[1][PlanningGraph[i]] = "verified"
      BY <1>4, <2>3, <2>4
    <2>8. invoking' => at' \in 1 .. 7 /\ record'[1][PlanningGraph[at']] = "held"
      BY <1>4, <2>3
    <2> QED
      BY <1>0, <1>4, <2>1, <2>6, <2>7, <2>8 DEF OrderInv, StepsTypeOK, Rec
  <1>5. CASE Dispatch
    BY <1>4, <1>5 DEF Dispatch, Reaching, Rec
  <1>6. CASE invoking /\ at \in 1 .. 7 /\ Advance
    BY <1>4, <1>6 DEF Advance, OrderInv
  <1>7. CASE UNCHANGED steps
    BY <1>7 DEF steps, OrderInv, StepsTypeOK, Rec
  <1> QED
    BY <1>0, <1>1, <1>2, <1>3, <1>5, <1>6, <1>7, StepMoves

-----------------------------------------------------------------------------
(* Type correctness. *)

Ledgers == [covered : Nat, review : Nat, active : BOOLEAN]

\* TypeOK without the step machine.
DataTypeOK ==
    /\ planner \in Planners
    /\ outcome \in Outcomes \cup {"none"}
    /\ context \in Contexts \cup {None}
    /\ plan \in Plans \cup {None}
    /\ frozen \in BOOLEAN
    /\ attempts \in Seq(Answers) /\ Len(attempts) <= Budget
    /\ command \in {"none", "accepted", "error"}
    /\ renewed \in BOOLEAN
    /\ decision \in BOOLEAN
    /\ answer \in Returns \cup {None}
    /\ now \in 0 .. Horizon
    /\ ledger \in Ledgers
    /\ pending \in Plans \cup {None}
    /\ landed \in Nat /\ killed \in BOOLEAN
    /\ said \in Seq(Answers)

LEMMA TypeParts == StepsTypeOK /\ DataTypeOK => TypeOK
  BY DEF TypeOK, DataTypeOK, Ledgers

LEMMA ExtendedTypes ==
    ASSUME ledger \in Ledgers, NEW p \in Plans
    PROVE  Extended(p) \in Ledgers
  BY DEF Extended, Ledgers, Plans

LEMMA NoAttempts ==
    /\ <<>> \in Seq(Answers)
    /\ Len(<<>>) <= Budget
  BY MandateAssumption

LEMMA DataInit == Init => DataTypeOK
  <1> SUFFICES ASSUME Init PROVE DataTypeOK
    OBVIOUS
  <1>1. now \in 0 .. Horizon /\ ledger \in Ledgers
    BY MandateAssumption, BoundsAssumption DEF Init, Ledgers
  <1>2. attempts \in Seq(Answers) /\ Len(attempts) <= Budget
    BY NoAttempts DEF Init
  <1>3. landed \in Nat /\ said \in Seq(Answers) /\ planner \in Planners
    BY NoAttempts DEF Init
  <1>4. {frozen, renewed, decision, killed} \subseteq BOOLEAN /\ ~frozen
    BY Zenon DEF Init
  <1> QED
    BY <1>1, <1>2, <1>3, <1>4 DEF Init, DataTypeOK

\* What is frozen is a plan, and only validate freezes.
FrozenInv == frozen => plan # None /\ at \notin 1 .. 3

LEMMA FrozenStep ==
    ASSUME OrderInv, FrozenInv, [Next]_vars
    PROVE  FrozenInv'
  <1> USE DEF memory, files, outside
  <1>0. at \in 0 .. 8 /\ (invoking => at \in 1 .. 7)
    BY GraphFacts DEF OrderInv, StepsTypeOK
  <1>1. CASE Activate
    BY <1>1 DEF Activate, FrozenInv
  <1>2. CASE Validate
    <2>1. at = 3 /\ at' = 4 /\ ~frozen
      BY <1>2, Places DEF Validate, Advance, FrozenInv
    <2>2. CASE outcome # "none" \/ plan = None
      BY <1>2, <2>1, <2>2 DEF Validate, FrozenInv
    <2>3. CASE ~(outcome # "none" \/ plan = None)
      <3>1. UNCHANGED plan \/ UNCHANGED frozen
        BY <1>2, <2>3 DEF Validate
      <3>2. frozen' => plan' # None
        BY <2>1, <2>3, <3>1, Zenon
      <3> QED
        BY <2>1, <3>2 DEF FrozenInv
    <2> QED
      BY <2>2, <2>3
  <1>3. CASE ProposePlan \/ ProposeNothing
    <2>1. at = 2 /\ ~frozen /\ UNCHANGED frozen
      BY <1>3, Places DEF ProposePlan, ProposeNothing, Attempt, FrozenInv
    <2> QED
      BY <2>1 DEF FrozenInv
  <1>4. CASE Walk \/ Exit \/ Finish
    <2>1. (at' = 0 \/ at' = at \/ (at' = at + 1 /\ at \in 1 .. 7)) /\ UNCHANGED <<frozen, plan>>
      BY <1>4, GraphFacts DEF Walk, Exit, Finish, PassOver, Refuse, Dispatch, Leave, Reaching
    <2> QED
      BY <1>0, <2>1 DEF FrozenInv
  <1>5. CASE Resolve \/ ProposeDone \/ RenewDone \/ ConfirmWithoutReading \/ ConfirmUnreadable
             \/ ConfirmRead \/ Contain \/ RecordDone
    <2>1. at' = at + 1 /\ UNCHANGED <<frozen, plan>> /\ at \in 1 .. 7
      BY <1>0, <1>5, Places DEF Resolve, ProposeDone, RenewDone, ConfirmWithoutReading, ConfirmUnreadable,
         ConfirmRead, Contain, RecordDone, Advance
    <2> QED
      BY <2>1 DEF FrozenInv
  <1>6. CASE RenewAnswered \/ RenewKilled \/ RecordReturn \/ Tick \/ Elsewhere \/ Straggle \/ UNCHANGED vars
    <2>1. UNCHANGED <<at, frozen, plan>>
      BY <1>6 DEF RenewAnswered, RenewKilled, RecordReturn, Tick, Elsewhere, Straggle, vars
    <2> QED
      BY <2>1 DEF FrozenInv
  <1> QED
    BY <1>1, <1>2, <1>3, <1>4, <1>5, <1>6 DEF Next, Stage

LEMMA DataStep ==
    ASSUME DataTypeOK, FrozenInv, [Next]_vars
    PROVE  DataTypeOK'
  <1> USE MandateAssumption DEF memory, files, outside
  <1>1. CASE Activate
    <2>1. attempts' \in Seq(Answers) /\ Len(attempts') <= Budget
      BY <1>1, NoAttempts DEF Activate
    <2>2. {frozen', renewed'} \subseteq BOOLEAN /\ ~frozen'
      BY <1>1, Zenon DEF Activate
    <2>3. /\ UNCHANGED <<planner, decision, answer, now, ledger, pending, landed, killed, said>>
          /\ outcome' = "none" /\ context' = None /\ plan' = None /\ command' = "none"
      BY <1>1 DEF Activate
    <2> QED
      BY <2>1, <2>2, <2>3 DEF DataTypeOK
  <1>2. CASE Walk \/ Exit \/ Finish \/ ProposeDone \/ RenewDone \/ RecordDone \/ UNCHANGED vars
    BY <1>2 DEF Walk, Exit, Finish, ProposeDone, RenewDone, RecordDone, vars, DataTypeOK
  <1>3. CASE Resolve
    <2>1. [before |-> ledger.covered, now |-> now] \in Contexts
      BY BoundsAssumption DEF DataTypeOK, Ledgers, Contexts
    <2> QED
      BY <1>3, <2>1 DEF Resolve, DataTypeOK, Outcomes
  <1>4. CASE ProposePlan \/ ProposeNothing
    <2>1. PICK event \in Answers :
            Attempt(event) /\ (plan' = plan \/ plan' \in Proposals)
      BY <1>4 DEF ProposePlan, ProposeNothing, Answers
    <2>2. attempts' \in Seq(Answers) /\ Len(attempts') <= Budget
      BY <2>1 DEF Attempt, MayPropose, DataTypeOK
    <2>3. Proposals \subseteq Plans
      <3>1. ASSUME context # None PROVE PeriodPlan \in Plans
        <4>1. context.before \in Nat /\ context.now \in Nat
          BY <3>1 DEF DataTypeOK, Contexts
        <4>2. (IF context.before < context.now THEN context.now ELSE context.before) \in Nat
          BY <4>1
        <4> QED
          BY <4>1, <4>2 DEF PeriodPlan, Plans
      <3> QED
        BY <3>1, OffersAssumption DEF Proposals
    <2> QED
      BY <2>1, <2>2, <2>3 DEF Attempt, DataTypeOK
  <1>5. CASE Validate
    BY <1>5 DEF Validate, DataTypeOK
  <1>6. CASE RenewAnswered \/ RenewKilled
    <2>1. ledger' \in Ledgers /\ landed' \in Nat
      <3>1. plan \in Plans
        BY <1>6 DEF RenewAnswered, RenewKilled, MayRenew, DataTypeOK, FrozenInv
      <3> QED
        BY <1>6, <3>1, ExtendedTypes DEF RenewAnswered, RenewKilled, DataTypeOK
    <2>2. CASE RenewAnswered
      BY <2>1, <2>2 DEF RenewAnswered, DataTypeOK
    <2>3. CASE RenewKilled
      <3>1. killed' \in BOOLEAN
        BY <2>3, Zenon DEF RenewKilled
      <3> QED
        BY <2>1, <2>3, <3>1 DEF RenewKilled, DataTypeOK
    <2> QED
      BY <1>6, <2>2, <2>3
  <1>7. CASE ConfirmWithoutReading \/ ConfirmUnreadable
    BY <1>7 DEF ConfirmWithoutReading, ConfirmUnreadable, DataTypeOK, Outcomes
  <1>8. CASE ConfirmRead
    <2>1. PICK clear \in BOOLEAN :
            /\ renewed' = Shows(clear)
            /\ outcome' = IF Shows(clear) THEN "verified"
                          ELSE IF command # "error" THEN "uncertain" ELSE "failed"
      BY <1>8 DEF ConfirmRead
    <2>2. renewed' \in BOOLEAN
      BY <2>1 DEF Shows
    <2> QED
      BY <1>8, <2>1, <2>2 DEF ConfirmRead, DataTypeOK, Outcomes
  <1>9. CASE Contain
    <2>1. decision' \in BOOLEAN
      BY <1>9, Zenon DEF Contain
    <2> QED
      BY <1>9, <2>1 DEF Contain, DataTypeOK
  <1>10. CASE RecordReturn
    BY <1>10 DEF RecordReturn, DataTypeOK, Returns
  <1>11. CASE Tick
    BY <1>11, BoundsAssumption DEF Tick, DataTypeOK
  <1>12. CASE Elsewhere
    <2>1. ledger' \in Ledgers
      <3>1. CASE ledger' = [ledger EXCEPT !.active = FALSE]
        BY <3>1 DEF DataTypeOK, Ledgers
      <3>2. ASSUME NEW through \in 0 .. Horizon + Period, NEW review \in 0 .. Horizon + Period,
                   ledger' = Extended([from |-> 0, through |-> through, review |-> review, faithful |-> TRUE])
            PROVE  ledger' \in Ledgers
        <4>1. through \in Nat /\ review \in Nat
          BY BoundsAssumption
        <4>2. ledger' = [ledger EXCEPT !.covered = through, !.review = review]
          BY <3>2 DEF Extended
        <4> QED
          BY <4>1, <4>2 DEF DataTypeOK, Ledgers
      <3> QED
        BY <1>12, <3>1, <3>2 DEF Elsewhere
    <2> QED
      BY <1>12, <2>1 DEF Elsewhere, DataTypeOK
  <1>13. CASE Straggle
    BY <1>13, ExtendedTypes DEF Straggle, DataTypeOK
  <1> QED
    BY <1>1, <1>2, <1>3, <1>4, <1>5, <1>6, <1>7, <1>8, <1>9, <1>10, <1>11, <1>12, <1>13 DEF Next, Stage

\* Types and the order of the journal hold throughout.
Base == OrderInv /\ DataTypeOK /\ FrozenInv

LEMMA Based == Spec => []Base
  <1>1. Init => Base
    BY OrderInit, DataInit DEF Base, Init, FrozenInv
  <1>2. Base /\ [Next]_vars => Base'
    BY OrderStep, DataStep, FrozenStep DEF Base
  <1> QED
    BY <1>1, <1>2, PTL DEF Spec

\* No restart and no change of the ledger brings a variable out of its type.
THEOREM TypeCorrect == Spec => []TypeOK
  <1>1. Base => TypeOK
    BY TypeParts DEF Base, OrderInv
  <1> QED
    BY <1>1, Based, PTL

-----------------------------------------------------------------------------
(* What every step does to the step machine, seen from outside.            *)

LEMMA Machine ==
    ASSUME OrderInv, [Next]_vars
    PROVE  /\ at \in 0 .. 8 /\ (invoking => at \in 1 .. 7)
           /\ \A i \in 1 .. 7 : Rec(i)' = "none" => Rec(i) = "none"
           /\ invoking' => at' = at /\ (invoking \/ Rec(at) = "none")
           /\ at' = 1 => at = 1 \/ Activate
           /\ at' = 2 => at \in {1, 2}
           /\ at' = 2 /\ at = 2 => (invoking => invoking')
  <1>0. /\ at \in 0 .. 8 /\ (invoking => at \in 1 .. 7)
        /\ record \in [{1} -> [Steps -> {"none", "held", "verified"}]]
    BY GraphFacts DEF OrderInv, StepsTypeOK
  <1>1. CASE Activate /\ Start(1)
    BY <1>0, <1>1 DEF Start, Rec
  <1>2. CASE PassOver \/ Refuse
    BY <1>0, <1>2, GraphFacts DEF PassOver, Refuse, Reaching, Rec
  <1>3. CASE Leave \/ UNCHANGED steps
    BY <1>0, <1>3 DEF Leave, steps, Rec
  <1>4. CASE Dispatch
    BY <1>0, <1>4, GraphFacts DEF Dispatch, Reaching, Rec
  <1>5. CASE invoking /\ at \in 1 .. 7 /\ Advance
    BY <1>0, <1>5, GraphFacts DEF Advance, Rec
  <1> QED
    BY <1>0, <1>1, <1>2, <1>3, <1>4, <1>5, StepMoves

\* The steps that change neither memory nor files nor what is outside.
Quiet == Walk \/ Exit \/ Finish \/ ProposeDone \/ RenewDone \/ RecordDone \/ UNCHANGED vars

LEMMA QuietKeeps ==
    ASSUME Quiet
    PROVE  UNCHANGED <<planner, memory, files, outside, said>>
  BY DEF Quiet, Walk, Exit, Finish, ProposeDone, RenewDone, RecordDone, vars

Confirm == ConfirmWithoutReading \/ ConfirmUnreadable \/ ConfirmRead

\* The steps, grouped by what they change.
LEMMA Kinds ==
    ASSUME [Next]_vars
    PROVE  \/ Quiet \/ Activate \/ Resolve \/ ProposePlan \/ ProposeNothing \/ Validate
           \/ RenewAnswered \/ RenewKilled \/ Confirm \/ Contain \/ RecordReturn
           \/ Tick \/ Elsewhere \/ Straggle
  BY DEF Next, Stage, Quiet, Confirm

-----------------------------------------------------------------------------
(* What the planners said: attempts record it, because propose is invoked  *)
(* once, by one process.  Every other process has no attempts.             *)

BudgetInv ==
    /\ Len(said) <= Budget
    /\ Rec(2) = "none" => said = <<>>
    /\ invoking /\ at = 2 => said = attempts
    /\ at = 1 \/ (at = 2 /\ ~invoking) => attempts = <<>>
    /\ attempts # <<>> => attempts = said

LEMMA BudgetStep ==
    ASSUME Base, BudgetInv, [Next]_vars
    PROVE  BudgetInv'
  <1> USE DEF memory, files, outside
  <1>0. OrderInv /\ DataTypeOK /\ Budget \in 1 .. 2
    BY MandateAssumption DEF Base
  <1>1. CASE Activate
    <2>1. at' = 1 /\ attempts' = <<>> /\ UNCHANGED said /\ ~invoking'
      <3>1. at = 0 /\ at' = 1 /\ UNCHANGED invoking /\ ~invoking
        <4>1. at = 0 /\ at' = 1 /\ invoking' = invoking
          BY <1>1 DEF Activate, Start
        <4>2. ~invoking
          BY <1>0, <4>1, Machine
        <4> QED
          BY <4>1, <4>2
      <3> QED
        BY <1>1, <3>1 DEF Activate
    <2> QED
      BY <1>0, <2>1, Machine DEF BudgetInv
  <1>2. CASE ProposePlan \/ ProposeNothing
    <2>1. PICK event \in Answers : Attempt(event)
      BY <1>2 DEF ProposePlan, ProposeNothing, Answers
    <2>2. at = 2 /\ invoking /\ Len(attempts) < Budget /\ said' = Append(said, event)
          /\ attempts' = Append(attempts, event) /\ UNCHANGED <<record, at, invoking>>
      BY <2>1, Places DEF Attempt, MayPropose
    <2>3. said = attempts /\ said' = attempts'
      BY <2>2 DEF BudgetInv
    <2>4. Len(said') <= Budget
      BY <1>0, <2>2, <2>3 DEF DataTypeOK
    <2>5. Rec(2)' # "none"
      BY <2>2 DEF OrderInv, Base, Rec
    <2> QED
      BY <2>2, <2>3, <2>4, <2>5 DEF BudgetInv
  <1>3. CASE UNCHANGED <<attempts, said>> /\ ~Activate
    BY <1>0, <1>3, Machine DEF BudgetInv
  <1>4. ASSUME \/ Resolve \/ Validate \/ RenewAnswered \/ RenewKilled \/ Confirm \/ Contain
               \/ RecordReturn \/ Tick \/ Elsewhere \/ Straggle
        PROVE  UNCHANGED <<attempts, said>>
    BY <1>4 DEF Resolve, Validate, RenewAnswered, RenewKilled, Confirm, ConfirmWithoutReading,
       ConfirmUnreadable, ConfirmRead, Contain, RecordReturn, Tick, Elsewhere, Straggle
  <1> QED
    BY <1>1, <1>2, <1>3, <1>4, Kinds, QuietKeeps

LEMMA Budgeted == Spec => []BudgetInv
  <1>1. Init => BudgetInv
    BY MandateAssumption DEF Init, StepsInit, BudgetInv
  <1>2. Base /\ BudgetInv /\ [Next]_vars => BudgetInv'
    BY BudgetStep
  <1> QED
    BY <1>1, <1>2, Based, PTL DEF Spec

\* No more planners are invoked for an activation than its mandate allows,
\* however often the turn dies and is started again.
THEOREM BudgetIsKept == Spec => []BudgetKept
  <1>1. BudgetInv => BudgetKept
    BY DEF BudgetInv, BudgetKept
  <1> QED
    BY <1>1, Budgeted, PTL

-----------------------------------------------------------------------------
(* What lands in the ledger.  Before a process is in the stage renew, no   *)
(* renewal of this turn has landed or is on its way; nothing lands after a *)
(* command was answered with an error and was not killed.                  *)

NothingLands == landed = 0 /\ pending = None

LandInv ==
    /\ Rec(4) = "none" => NothingLands /\ ~killed
    /\ invoking /\ at = 4 /\ command = "none" => NothingLands
    /\ pending # None => killed
    /\ command = "error" /\ ~killed => landed = 0

\* The ledger's coverage and the clock only grow.
LEMMA LedgerGrows ==
    ASSUME Base, [Next]_vars
    PROVE  ledger'.covered >= ledger.covered /\ now' >= now
  <1> USE DEF memory, files, outside
  <1>0. ledger \in Ledgers /\ ledger.covered \in Nat /\ now \in Nat
    BY BoundsAssumption DEF Base, DataTypeOK, Ledgers
  <1>1. ASSUME NEW p, Accepts(p), ledger' = Extended(p)
        PROVE  ledger'.covered >= ledger.covered
    <2>1. ledger'.covered = p.through /\ p.through > ledger.covered
      BY <1>0, <1>1 DEF Accepts, Extended, Ledgers
    <2>2. ledger' \in Ledgers /\ ledger'.covered \in Nat
      BY DataStep DEF Base, DataTypeOK, Ledgers
    <2> QED
      BY <1>0, <2>1, <2>2
  <1>2. CASE Tick
    BY <1>0, <1>2 DEF Tick
  <1>3. CASE Elsewhere
    <2>1. UNCHANGED now
      BY <1>3 DEF Elsewhere
    <2>2. CASE ledger' = [ledger EXCEPT !.active = FALSE]
      BY <1>0, <2>1, <2>2 DEF Ledgers
    <2>3. CASE \E p : Accepts(p) /\ ledger' = Extended(p)
      BY <1>0, <1>1, <2>1, <2>3
    <2> QED
      BY <1>3, <2>2, <2>3 DEF Elsewhere
  <1>4. CASE Straggle \/ RenewAnswered \/ RenewKilled
    BY <1>0, <1>1, <1>4 DEF Straggle, RenewAnswered, RenewKilled
  <1>5. ASSUME \/ Activate \/ Resolve \/ ProposePlan \/ ProposeNothing \/ Validate
               \/ Confirm \/ Contain \/ RecordReturn
        PROVE  UNCHANGED <<ledger, now>>
    BY <1>5 DEF Activate, Resolve, ProposePlan, ProposeNothing, Attempt, Validate, Confirm,
       ConfirmWithoutReading, ConfirmUnreadable, ConfirmRead, Contain, RecordReturn
  <1> QED
    BY <1>0, <1>2, <1>3, <1>4, <1>5, Kinds, QuietKeeps

\* The steps by which something may land.
Renewing == RenewAnswered \/ RenewKilled

LEMMA RenewingFacts ==
    ASSUME Base, Renewing
    PROVE  /\ invoking /\ at = 4 /\ Rec(4) = "held" /\ frozen /\ outcome = "none" /\ command = "none"
           /\ plan \in Plans /\ command' # "none"
           /\ \A j \in {6, 7} : Rec(j) = "none"
           /\ UNCHANGED <<record, at, invoking, outcome, context, plan, frozen, attempts, decision, answer, now, said, planner>>
  <1>1. /\ invoking /\ at = 4 /\ frozen /\ outcome = "none" /\ command = "none" /\ command' # "none"
        /\ UNCHANGED <<record, at, invoking, outcome, context, plan, frozen, attempts, decision, answer, now, said, planner>>
    BY Places DEF Renewing, RenewAnswered, RenewKilled, MayRenew, files
  <1>2. Rec(4) = "held"
    BY <1>1 DEF Base, OrderInv
  <1>3. \A j \in {6, 7} : Rec(j) = "none"
    BY <1>2 DEF Base, OrderInv
  <1> QED
    BY <1>1, <1>2, <1>3 DEF Base, DataTypeOK, FrozenInv

LEMMA Landing ==
    ASSUME [Next]_vars
    PROVE  Renewing \/ (Straggle /\ pending # None) \/ UNCHANGED <<landed, pending, killed>>
  BY Kinds, QuietKeeps DEF Renewing, Activate, Resolve, ProposePlan, ProposeNothing, Attempt, Validate,
     Confirm, ConfirmWithoutReading, ConfirmUnreadable, ConfirmRead, Contain, RecordReturn,
     Tick, Elsewhere, Straggle, outside

LEMMA LandStep ==
    ASSUME Base, LandInv, [Next]_vars
    PROVE  LandInv'
  <1> USE DEF memory, files, outside, NothingLands
  <1>0. OrderInv
    BY DEF Base
  <1>1. CASE Renewing
    <2>1. Rec(4)' # "none" /\ command' # "none" /\ NothingLands
      BY <1>1, RenewingFacts DEF Rec, LandInv
    <2>2. command' = "error" => killed' \/ landed' = 0
      BY <1>1, <2>1 DEF Renewing, RenewAnswered, RenewKilled
    <2>3. pending' # None => killed'
      BY <1>1, <2>1 DEF Renewing, RenewAnswered, RenewKilled
    <2> QED
      BY <2>1, <2>2, <2>3 DEF LandInv
  <1>2. CASE Straggle /\ pending # None
    <2>1. pending' = None /\ killed /\ UNCHANGED <<record, at, invoking, command, killed>>
      BY <1>2 DEF Straggle, LandInv
    <2>2. Rec(4) # "none" /\ ~(invoking /\ at = 4 /\ command = "none")
      BY <1>2 DEF LandInv
    <2> QED
      BY <2>1, <2>2 DEF LandInv, Rec
  <1>3. CASE UNCHANGED <<landed, pending, killed>> /\ ~Renewing
    <2>1. command' = command \/ Activate
      BY <1>3, Kinds, QuietKeeps DEF Renewing, Resolve, ProposePlan, ProposeNothing, Attempt, Validate,
         Confirm, ConfirmWithoutReading, ConfirmUnreadable, ConfirmRead, Contain, RecordReturn,
         Tick, Elsewhere, Straggle
    <2>2. Activate => command' = "none" /\ at' = 1
      BY DEF Activate, Start
    <2>3. invoking' /\ at' = 4 /\ command' = "none" =>
            Rec(4) = "none" \/ (invoking /\ at = 4 /\ command = "none")
      BY <1>0, <2>1, <2>2, Machine
    <2>4. Rec(4)' = "none" => Rec(4) = "none"
      BY <1>0, Machine
    <2> QED
      BY <1>3, <2>1, <2>2, <2>3, <2>4 DEF LandInv
  <1> QED
    BY <1>1, <1>2, <1>3, Landing

LEMMA Landed == Spec => []LandInv
  <1>1. Init => LandInv
    BY DEF Init, StepsInit, LandInv, NothingLands
  <1>2. Base /\ LandInv /\ [Next]_vars => LandInv'
    BY LandStep
  <1> QED
    BY <1>1, <1>2, Based, PTL DEF Spec

-----------------------------------------------------------------------------
(* What the turn returns.  The outcome is decided once, at resolve or at   *)
(* confirm, and from then on nothing lands that would make it untrue.      *)

OutcomeInv ==
    /\ outcome = "contained" => NothingLands
    /\ outcome = "failed" /\ frozen /\ ~killed => landed = 0
    /\ outcome = "verified" => frozen /\ ledger.covered >= plan.through
    /\ answer # None =>
        /\ Rec(7) # "none"
        /\ answer.outcome = "contained" => NothingLands
        /\ answer.outcome = "failed" /\ answer.plan # None /\ ~killed => landed = 0
        /\ answer.outcome = "verified" =>
             answer.plan \in Plans /\ ledger.covered >= answer.plan.through

LEMMA OutcomeStep ==
    ASSUME Base, LandInv, OutcomeInv, [Next]_vars
    PROVE  OutcomeInv'
  <1> USE DEF memory, files, outside, NothingLands
  <1>0. OrderInv /\ DataTypeOK /\ ledger.covered \in Nat /\ ledger'.covered \in Nat
        /\ ledger'.covered >= ledger.covered
    BY LedgerGrows, DataStep DEF Base, DataTypeOK, Ledgers
  <1>a. frozen => plan \in Plans /\ plan.through \in Nat
    BY DEF Base, DataTypeOK, FrozenInv, Plans
  <1>b. Rec(7)' = "none" => Rec(7) = "none"
    BY <1>0, Machine
  \* What holds of an answer keeps holding.
  <1>c. ASSUME answer' = answer, answer # None
        PROVE  /\ Rec(7)' # "none"
               /\ answer.outcome = "contained" => NothingLands'
               /\ answer.outcome = "failed" /\ answer.plan # None /\ ~killed' => landed' = 0
               /\ answer.outcome = "verified" =>
                    answer.plan \in Plans /\ ledger'.covered >= answer.plan.through
    <2>1. Rec(7)' # "none" /\ ~Renewing
      BY <1>b, <1>c, RenewingFacts DEF OutcomeInv
    <2>2. CASE Straggle /\ pending # None
      <3>1. killed /\ UNCHANGED killed
        BY <2>2 DEF LandInv, Straggle
      <3>2. answer.outcome # "contained"
        BY <1>c, <2>2 DEF OutcomeInv
      <3>3. answer.outcome = "verified" => answer.plan \in Plans /\ ledger.covered >= answer.plan.through
        BY <1>c DEF OutcomeInv
      <3> QED
        BY <1>0, <2>1, <3>1, <3>2, <3>3 DEF Plans
    <2>3. CASE UNCHANGED <<landed, pending, killed>>
      <3>1. answer.outcome = "verified" => answer.plan \in Plans /\ ledger.covered >= answer.plan.through
        BY <1>c DEF OutcomeInv
      <3>2. answer.outcome = "verified" => answer.plan \in Plans /\ ledger'.covered >= answer.plan.through
        BY <1>0, <3>1 DEF Plans
      <3> QED
        BY <1>c, <2>1, <2>3, <3>2 DEF OutcomeInv
    <2> QED
      BY <2>1, <2>2, <2>3, Landing
  <1>d. answer' = answer => (OutcomeInv' <=>
          /\ outcome' = "contained" => NothingLands'
          /\ outcome' = "failed" /\ frozen' /\ ~killed' => landed' = 0
          /\ outcome' = "verified" => frozen' /\ ledger'.covered >= plan'.through)
    BY <1>c DEF OutcomeInv
  <1>1. CASE Renewing
    BY <1>1, <1>d, RenewingFacts
  <1>2. CASE Straggle
    <2>1. UNCHANGED <<answer, outcome, frozen, plan, killed>> /\ pending # None /\ killed
      BY <1>2 DEF Straggle, LandInv
    <2>2. outcome' = "verified" => frozen /\ ledger'.covered >= plan.through
      BY <1>0, <1>a, <2>1 DEF OutcomeInv
    <2> QED
      BY <1>d, <2>1, <2>2 DEF OutcomeInv
  <1>3. CASE Activate
    BY <1>3, <1>d DEF Activate
  <1>4. CASE Resolve
    <2>1. Rec(4) = "none" /\ UNCHANGED <<answer, frozen, plan, landed, pending, killed, ledger>>
          /\ outcome' \in {outcome, "contained"}
      BY <1>0, <1>4, Places DEF Resolve, OrderInv
    <2>2. NothingLands
      BY <2>1 DEF LandInv
    <2> QED
      BY <1>d, <2>1, <2>2 DEF OutcomeInv
  <1>5. CASE ProposePlan \/ ProposeNothing \/ Validate
    <2>1. UNCHANGED <<answer, outcome, landed, pending, killed, ledger>>
          /\ (outcome # "none" => UNCHANGED <<frozen, plan>>)
      BY <1>5 DEF ProposePlan, ProposeNothing, Attempt, MayPropose, Validate
    <2> QED
      BY <1>d, <2>1 DEF OutcomeInv
  <1>6. CASE ConfirmWithoutReading \/ ConfirmUnreadable
    <2>1. /\ UNCHANGED <<answer, frozen, plan, landed, pending, killed>>
          /\ outcome' = outcome \/ outcome' = "uncertain" \/ (outcome' = "failed" /\ ~frozen)
          /\ outcome' = outcome => outcome = "contained" \/ ~frozen \/ outcome = "uncertain"
      BY <1>6 DEF ConfirmWithoutReading, ConfirmUnreadable
    <2> QED
      BY <1>d, <2>1 DEF OutcomeInv
  <1>7. CASE ConfirmRead
    <2>1. PICK clear \in BOOLEAN :
            outcome' = IF Shows(clear) THEN "verified"
                       ELSE IF command # "error" THEN "uncertain" ELSE "failed"
      BY <1>7 DEF ConfirmRead
    <2>2. UNCHANGED <<answer, frozen, plan, landed, pending, killed, ledger>> /\ frozen
      BY <1>7 DEF ConfirmRead
    <2>3. outcome' = "verified" => ledger.covered = plan.through
      BY <2>1 DEF Shows
    <2>4. outcome' = "failed" /\ ~killed => landed = 0
      BY <2>1 DEF LandInv
    <2>5. outcome' # "contained"
      BY <2>1
    <2> QED
      BY <1>0, <1>d, <2>2, <2>3, <2>4, <2>5
  <1>8. CASE RecordReturn
    <2>1. /\ answer' = [outcome |-> outcome, plan |-> IF frozen THEN plan ELSE None]
          /\ UNCHANGED <<record, outcome, frozen, plan, landed, pending, killed, ledger>>
          /\ invoking /\ at = 7
      BY <1>8, Places DEF RecordReturn
    <2>2. Rec(7)' # "none"
      BY <1>0, <2>1 DEF OrderInv, Rec
    <2>3. /\ answer'.outcome = outcome
          /\ answer'.plan = IF frozen THEN plan ELSE None
      BY <2>1
    <2> QED
      BY <1>a, <2>1, <2>2, <2>3 DEF OutcomeInv
  <1>9. ASSUME Contain \/ Tick \/ Elsewhere \/ Quiet
        PROVE  OutcomeInv'
    <2>1. UNCHANGED <<answer, outcome, frozen, plan, landed, pending, killed>>
      BY <1>9, QuietKeeps DEF Contain, Tick, Elsewhere
    <2>2. outcome' = "verified" => frozen /\ ledger'.covered >= plan.through
      BY <1>0, <1>a, <2>1 DEF OutcomeInv
    <2> QED
      BY <1>d, <2>1, <2>2 DEF OutcomeInv
  <1> QED
    BY <1>1, <1>2, <1>3, <1>4, <1>5, <1>6, <1>7, <1>8, <1>9, Kinds DEF Renewing, Confirm

LEMMA OutcomesHold == Spec => []OutcomeInv
  <1>1. Init => OutcomeInv
    BY DEF Init, OutcomeInv
  <1>2. Base /\ LandInv /\ OutcomeInv /\ [Next]_vars => OutcomeInv'
    BY OutcomeStep
  <1> QED
    BY <1>1, <1>2, Based, Landed, PTL DEF Spec

\* A return that says verified names coverage that the ledger has, and keeps,
\* whatever the command said and whoever else renews.
THEOREM VerifiedStaysCovered == Spec => []VerifiedIsCovered
  <1>1. OutcomeInv => VerifiedIsCovered
    BY DEF OutcomeInv, VerifiedIsCovered
  <1> QED
    BY <1>1, OutcomesHold, PTL

\* A return that says contained, or that says failed of a plan it kept and whose
\* command was not killed, stands on a ledger this turn has not changed.
THEOREM FailedStaysUnrenewed == Spec => []FailedIsUnrenewed
  <1>1. OutcomeInv => FailedIsUnrenewed
    BY DEF OutcomeInv, FailedIsUnrenewed, NothingLands
  <1> QED
    BY <1>1, OutcomesHold, PTL

-----------------------------------------------------------------------------
(* The Direction decision.  A process that saw every route refused has no  *)
(* plan, so nothing has landed and nothing can.                            *)

AllRefused == said # <<>> /\ \A i \in DOMAIN said : said[i] = "refused"

RefusedInv ==
    /\ plan # None => \E i \in 1 .. Len(attempts) : attempts[i] = "plan"
    /\ RoutesRefused => NothingLands
    /\ decision => NothingLands /\ AllRefused /\ ~frozen /\ Rec(6) # "none"

LEMMA RefusedStep ==
    ASSUME Base, LandInv, BudgetInv, RefusedInv, [Next]_vars
    PROVE  RefusedInv'
  <1> USE DEF memory, files, outside, NothingLands
  <1>0. OrderInv /\ attempts \in Seq(Answers)
    BY DEF Base, DataTypeOK
  <1>a. Rec(6)' = "none" => Rec(6) = "none"
    BY <1>0, Machine
  \* Where nothing lands, what is known of a refused turn keeps holding.
  <1>b. ASSUME UNCHANGED <<landed, pending>>, UNCHANGED said,
               UNCHANGED <<attempts, decision>>, plan' \in {plan, None},
               decision => (frozen' => frozen)
        PROVE  RefusedInv'
    BY <1>a, <1>b DEF RefusedInv, RoutesRefused, AllRefused
  <1>1. CASE Renewing
    <2>1. frozen /\ plan # None
      BY <1>1, RenewingFacts DEF Base, FrozenInv
    <2>2. ~RoutesRefused /\ ~decision
      BY <2>1 DEF RefusedInv, RoutesRefused
    <2>3. UNCHANGED <<attempts, decision, plan>>
      BY <1>1, RenewingFacts
    <2> QED
      BY <2>2, <2>3 DEF RefusedInv, RoutesRefused
  <1>2. CASE Straggle
    <2>1. UNCHANGED <<attempts, decision, plan>> /\ pending # None
      BY <1>2 DEF Straggle
    <2>2. ~RoutesRefused /\ ~decision
      BY <2>1 DEF RefusedInv
    <2> QED
      BY <2>1, <2>2 DEF RefusedInv, RoutesRefused
  <1>3. CASE Activate
    <2>1. /\ plan' = None /\ attempts' = <<>> /\ ~frozen'
          /\ UNCHANGED <<decision, landed, pending, said>>
      BY <1>3 DEF Activate
    <2> QED
      BY <1>a, <2>1 DEF RefusedInv, RoutesRefused, AllRefused
  <1>4. CASE ProposePlan \/ ProposeNothing
    <2>1. PICK event \in Answers :
            Attempt(event) /\ (event = "plan" \/ plan' = plan)
      BY <1>4 DEF ProposePlan, ProposeNothing, Answers
    <2>2. /\ invoking /\ at = 2 /\ attempts' = Append(attempts, event)
          /\ UNCHANGED <<record, frozen, decision, landed, pending>>
      BY <2>1, Places DEF Attempt
    <2>3. Rec(4) = "none" /\ Rec(6) = "none" /\ Rec(2) = "held"
      BY <1>0, <2>2 DEF OrderInv
    <2>4. NothingLands /\ ~decision
      BY <1>0, <2>2, <2>3 DEF LandInv, RefusedInv
    <2>5. plan' # None => \E i \in 1 .. Len(attempts') : attempts'[i] = "plan"
      <3>1. Len(attempts') = Len(attempts) + 1 /\ attempts'[Len(attempts) + 1] = event
            /\ Len(attempts) \in Nat /\ \A i \in 1 .. Len(attempts) : attempts'[i] = attempts[i]
        BY <1>0, <2>2
      <3>2. CASE event = "plan"
        BY <3>1, <3>2
      <3>3. CASE plan' = plan
        BY <3>1, <3>3 DEF RefusedInv
      <3> QED
        BY <2>1, <3>2, <3>3
    <2> QED
      BY <2>2, <2>4, <2>5 DEF RefusedInv
  <1>5. CASE Validate
    <2>1. invoking /\ at = 3 /\ UNCHANGED <<attempts, decision, landed, pending, said>>
          /\ plan' \in {plan, None}
      BY <1>5, Places DEF Validate
    <2>2. Rec(6) = "none"
      BY <1>0, <2>1 DEF OrderInv
    <2>3. ~decision
      BY <2>2 DEF RefusedInv
    <2> QED
      BY <1>b, <2>1, <2>3
  <1>6. CASE Contain
    <2>1. /\ invoking /\ at = 6
          /\ decision' => decision \/ RoutesRefused
          /\ UNCHANGED <<attempts, plan, frozen, landed, pending, said>>
      BY <1>6, Places DEF Contain
    <2>2. Rec(6)' # "none"
      BY <1>0, <1>a, <2>1 DEF OrderInv
    <2>3. RoutesRefused => NothingLands /\ ~frozen
      BY DEF RefusedInv, RoutesRefused, Base, FrozenInv
    <2>4. RoutesRefused => AllRefused
      BY <1>0 DEF BudgetInv, RoutesRefused, AllRefused
    <2>5. decision' => NothingLands /\ AllRefused /\ ~frozen
      BY <2>1, <2>3, <2>4 DEF RefusedInv
    <2> QED
      BY <2>1, <2>2, <2>5 DEF RefusedInv, RoutesRefused, AllRefused
  <1>7. ASSUME Resolve \/ Confirm \/ RecordReturn \/ Tick \/ Elsewhere \/ Quiet
        PROVE  RefusedInv'
    <2>1. UNCHANGED <<attempts, plan, frozen, decision, landed, pending, said>>
      BY <1>7, QuietKeeps DEF Resolve, Confirm, ConfirmWithoutReading, ConfirmUnreadable, ConfirmRead,
         RecordReturn, Tick, Elsewhere
    <2> QED
      BY <1>b, <2>1
  <1> QED
    BY <1>1, <1>2, <1>3, <1>4, <1>5, <1>6, <1>7, Kinds DEF Renewing

\* A decision that reports every route refused is true, over all restarts: some
\* planner was invoked, every one that was answered with a refusal, and no
\* renewal of this turn is in the ledger.
THEOREM DecisionStaysTrue == Spec => []DecisionIsTrue
  <1>1. Init => RefusedInv
    BY DEF Init, RefusedInv, RoutesRefused
  <1>2. Base /\ LandInv /\ BudgetInv /\ RefusedInv /\ [Next]_vars => RefusedInv'
    BY RefusedStep
  <1>3. RefusedInv => DecisionIsTrue
    BY DEF RefusedInv, DecisionIsTrue, NothingLands, AllRefused
  <1> QED
    BY <1>1, <1>2, <1>3, Based, Landed, Budgeted, PTL DEF Spec

-----------------------------------------------------------------------------
(* How far the period planner extends.  It starts from a reading that the  *)
(* ledger and the clock have only moved on from.                           *)

Near(p, covered, clock) == p.through <= covered + Period \/ p.through <= clock + Period

NearInv ==
    planner = "period" =>
        /\ context # None => context.before <= ledger.covered /\ context.now <= now
        /\ plan # None => Near(plan, ledger.covered, now)
        /\ pending # None => Near(pending, ledger.covered, now)

LEMMA NearStep ==
    ASSUME Base, NearInv, [Next]_vars
    PROVE  NearInv'
  <1> USE DEF memory, files, outside
  <1>0. /\ ledger.covered \in Nat /\ ledger'.covered \in Nat /\ ledger'.covered >= ledger.covered
        /\ now \in Nat /\ now' \in Nat /\ now' >= now /\ Period \in Nat /\ ReviewAfter \in Nat
        /\ planner' = planner
        /\ context \in Contexts \cup {None} /\ plan \in Plans \cup {None} /\ pending \in Plans \cup {None}
    <2>1. planner' = planner
      BY Kinds, QuietKeeps DEF Activate, Resolve, ProposePlan, ProposeNothing, Attempt, Validate,
         RenewAnswered, RenewKilled, Confirm, ConfirmWithoutReading, ConfirmUnreadable, ConfirmRead,
         Contain, RecordReturn, Tick, Elsewhere, Straggle
    <2>2. DataTypeOK /\ DataTypeOK'
      BY DataStep DEF Base
    <2> QED
      BY <2>1, <2>2, LedgerGrows, MandateAssumption, BoundsAssumption DEF DataTypeOK, Ledgers
  <1>1. \A p \in Plans : Near(p, ledger.covered, now) => Near(p, ledger'.covered, now')
    BY <1>0 DEF Near, Plans
  <1>2. CASE planner # "period"
    BY <1>0, <1>2 DEF NearInv
  <1> SUFFICES ASSUME planner = "period"
               PROVE  /\ context' # None => context'.before <= ledger'.covered /\ context'.now <= now'
                      /\ plan' # None => Near(plan', ledger'.covered, now')
                      /\ pending' # None => Near(pending', ledger'.covered, now')
    BY <1>0, <1>2 DEF NearInv
  <1>3. /\ context # None => context.before <= ledger'.covered /\ context.now <= now'
        /\ plan # None => Near(plan, ledger'.covered, now')
        /\ pending # None => Near(pending, ledger'.covered, now')
    BY <1>0, <1>1 DEF NearInv, Contexts
  <1>4. CASE Activate
    BY <1>3, <1>4 DEF Activate
  <1>5. CASE Resolve
    <2>1. UNCHANGED <<plan, pending, ledger, now>>
          /\ (context' = context \/ context' = [before |-> ledger.covered, now |-> now])
      BY <1>5 DEF Resolve
    <2> QED
      BY <1>0, <1>3, <2>1
  <1>6. CASE ProposePlan \/ ProposeNothing
    <2>1. UNCHANGED <<context, pending, ledger, now>> /\ (plan' = plan \/ plan' \in Proposals)
      BY <1>6 DEF ProposePlan, ProposeNothing, Attempt
    <2>2. ASSUME context # None PROVE Near(PeriodPlan, ledger.covered, now)
      <3>1. context.before \in Nat /\ context.now \in Nat
            /\ context.before <= ledger.covered /\ context.now <= now
        BY <1>0, <2>2 DEF NearInv, Contexts
      <3>2. PeriodPlan.through = (IF context.before < context.now THEN context.now ELSE context.before) + Period
        BY DEF PeriodPlan
      <3> QED
        BY <1>0, <3>1, <3>2 DEF Near
    <2> QED
      BY <1>3, <2>1, <2>2 DEF Proposals
  <1>7. CASE RenewKilled
    BY <1>3, <1>7 DEF RenewKilled
  <1>8. CASE Validate \/ RenewAnswered \/ Straggle
    <2>1. UNCHANGED context /\ plan' \in {plan, None} /\ pending' \in {pending, None}
      BY <1>8 DEF Validate, RenewAnswered, Straggle
    <2> QED
      BY <1>3, <2>1
  <1>9. ASSUME Confirm \/ Contain \/ RecordReturn \/ Tick \/ Elsewhere \/ Quiet
        PROVE  UNCHANGED <<context, plan, pending>>
    BY <1>9, QuietKeeps DEF Confirm, ConfirmWithoutReading, ConfirmUnreadable, ConfirmRead, Contain,
       RecordReturn, Tick, Elsewhere
  <1> QED
    BY <1>3, <1>4, <1>5, <1>6, <1>7, <1>8, <1>9, Kinds

\* A renewal by the period planner covers at most one period more than was
\* covered, or than the clock, at the instant it lands.
THEOREM ExtensionIsMandated == Spec => ExtendsByMandate
  <1>1. Init => NearInv
    BY DEF Init, NearInv
  <1>2. Base /\ NearInv /\ [Next]_vars => NearInv'
    BY NearStep
  <1>3. Base /\ NearInv /\ [Next]_vars =>
          [landed' > landed /\ planner = "period" =>
             \/ ledger'.covered <= ledger.covered + Period
             \/ ledger'.covered <= now + Period]_vars
    <2> SUFFICES ASSUME Base, NearInv, [Next]_vars, landed' > landed, planner = "period"
                 PROVE  ledger'.covered <= ledger.covered + Period \/ ledger'.covered <= now + Period
      OBVIOUS
    <2>0. landed \in Nat /\ ledger \in Ledgers
      BY DEF Base, DataTypeOK
    <2>1. CASE Renewing
      <3>1. ledger' = Extended(plan) /\ plan # None
        <4>1. landed' # landed
          BY <2>0
        <4>2. plan # None
          BY <2>1, RenewingFacts DEF Base, FrozenInv
        <4>3. CASE RenewAnswered
          BY <4>1, <4>2, <4>3 DEF RenewAnswered
        <4>4. CASE RenewKilled
          BY <4>1, <4>2, <4>4 DEF RenewKilled
        <4> QED
          BY <2>1, <4>2, <4>3, <4>4 DEF Renewing
      <3> QED
        BY <2>0, <3>1 DEF NearInv, Near, Extended, Ledgers
    <2>2. CASE Straggle /\ pending # None
      <3>1. ledger' = Extended(pending)
        BY <2>0, <2>2 DEF Straggle
      <3> QED
        BY <2>0, <2>2, <3>1 DEF NearInv, Near, Extended, Ledgers
    <2>3. CASE UNCHANGED <<landed, pending, killed>>
      BY <2>0, <2>3
    <2> QED
      BY <2>1, <2>2, <2>3, Landing
  <1> QED
    BY <1>1, <1>2, <1>3, Based, PTL DEF Spec, ExtendsByMandate

===============================================================================
