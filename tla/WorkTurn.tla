------------------------------- MODULE WorkTurn -------------------------------
(***************************************************************************)
(* The traceability responsibility (internal/institution/work.go,          *)
(* occupants.go, cmd/institution-turn): one directory holds its durable    *)
(* state over many turns.  A turn has an occupant propose a dataset, at    *)
(* most twice, and commits it or contains the turn.  A restarted turn      *)
(* reloads the result of each stage it already executed.                   *)
(*                                                                         *)
(* A dataset is a set of rows [key, text]: key stands for the case and the *)
(* test a row names, text for its rationale.  A row is verifiable while    *)
(* the sources name its key.                                               *)
(***************************************************************************)
EXTENDS Naturals, Sequences, FiniteSets

CONSTANTS
    Keys, Texts,    \* what rows are made of
    Sources,        \* which keys the supplied files may name: sets of keys
    Outputs,        \* what a route may print: finite datasets; None is what decodes to none
    Budgets,        \* maxInvocations of the mandate
    Resume,         \* which turn may be started again: "last" or "any"
    TurnCount,      \* bound: how many activations there are
    MaxRuns,        \* bound: how often the command is started
    None            \* no dataset

Rows == [key : Keys, text : Texts]
Datasets == SUBSET Rows

\* Mandate.Validate
ASSUME BudgetsAssumption == Budgets \subseteq 1 .. 2
ASSUME SourcesAssumption == Sources \subseteq SUBSET Keys
ASSUME OutputsAssumption == Outputs \subseteq {None} \cup {d \in Datasets : IsFiniteSet(d)}
ASSUME BoundsAssumption ==
    Resume \in {"last", "any"} /\ TurnCount \in Nat \ {0} /\ MaxRuns \in Nat

VARIABLES
    record, turn, at, invoking, runs,   \* see TurnSteps
    phase,      \* where the process is within the Invoke
    source,     \* the files this process was given
    work,       \* what of Work a stage file holds
    attempted,  \* Attempted
    budget,     \* MaxInvocations
    store,      \* objects of the content store: "absent", "torn", "whole"
    output,     \* conformance-map.json
    state,      \* state.json
    attempts,   \* <turn>.attempts.json
    saved,      \* <turn>.<capability>.stage.json
    returned,   \* <turn>.return.json exists
    occupied,   \* how many routes a turn has run, over all processes
    settled     \* what a turn has written to state.json

WorkGraph == <<"primary", "diagnose", "alternate", "commit", "contain", "record">>
WorkTurns == 1 .. TurnCount

INSTANCE TurnSteps WITH Graph <- WorkGraph, Turns <- WorkTurns

memory == <<work, attempted, source, budget>>
files == <<store, output, state, attempts, saved, returned>>
ghosts == <<occupied, settled>>
vars == <<record, turn, at, invoking, runs, phase, memory, files, ghosts>>

Dataset(d) == <<"dataset", d>>
Assets == <<"assets", {}>>              \* what main stores at every start
Authority == <<"authority", {}>>        \* what BuildContext stores for every context
Objects == {Assets, Authority} \cup {Dataset(d) : d \in Datasets}

WorkStates ==
    [period : Nat, dataset : {None} \cup Datasets, unresolved : BOOLEAN, decision : BOOLEAN]

\* judged: the files the proposal was validated against.
Results ==
    [verified : BOOLEAN, state : WorkStates, proposal : {None} \cup Datasets,
     fails : Seq({"refused", "error"}), judged : SUBSET Keys]

ASSUME NoneAssumption == (\A d \in Datasets : d # None) /\ None \notin Results

Phases == {"enter", "spent", "stored", "written", "save"}

TypeOK ==
    /\ StepsTypeOK
    /\ phase \in Phases
    /\ source \in SUBSET Keys
    /\ work \in Results
    /\ attempted \in 0 .. 2
    /\ budget \in Budgets
    /\ store \in [Objects -> {"absent", "torn", "whole"}]
    /\ output \in {None} \cup Datasets
    /\ state \in WorkStates
    /\ attempts \in [WorkTurns -> 0 .. 2]
    /\ saved \in [WorkTurns -> [Steps -> {None} \cup Results]]
    /\ returned \in SUBSET WorkTurns
    /\ occupied \in [WorkTurns -> Nat]
    /\ settled \in [WorkTurns -> SUBSET {"committed", "contained"}]

Nothing ==
    [verified |-> FALSE, proposal |-> None, fails |-> <<>>, judged |-> {},
     state |-> [period |-> 0, dataset |-> None, unresolved |-> FALSE, decision |-> FALSE]]

Init ==
    /\ StepsInit /\ turn = 1
    /\ phase = "enter" /\ source = {} /\ work = Nothing /\ attempted = 0
    /\ budget \in Budgets
    /\ store = [o \in Objects |-> "absent"]
    /\ output = None /\ state = Nothing.state
    /\ attempts = [t \in WorkTurns |-> 0]
    /\ saved = [t \in WorkTurns |-> [s \in Steps |-> None]]
    /\ returned = {}
    /\ occupied = [t \in WorkTurns |-> 0]
    /\ settled = [t \in WorkTurns |-> {}]

-----------------------------------------------------------------------------
(* The content store and the occupant: what their callers see. *)

\* Mutant: an object that exists is taken to be whole.
PutTrusting(object) == store' = [store EXCEPT ![object] = IF @ = "absent" THEN "whole" ELSE @]

\* CAS.Put returns without an error: the object was created, written and
\* closed, or it exists and Get finds it intact.
Put(object) ==
    /\ store[object] # "torn"
    /\ store' = [store EXCEPT ![object] = "whole"]

\* The object is created and not written: a failed write, or a crash.
Tear(object) ==
    /\ store[object] = "absent"
    /\ store' = [store EXCEPT ![object] = "torn"]

\* CommandIntelligence: exit 3 is a refusal whatever was printed; any other
\* failure, too long an output and one that is not one proposal are errors.
Failure(exit, printed) ==
    IF exit = "three" THEN "refused"
    ELSE IF exit = "other" \/ printed = None THEN "error"
    ELSE "none"

\* The rows of a dataset that may not exist yet.
Content(dataset) == IF dataset = None THEN {} ELSE dataset

\* verifiable
Verifiable(row) == row.key \in source

\* Mutant: rows are counted, and not compared with the rows there were.
ValidatesCounting(proposal) ==
    /\ \A r1, r2 \in proposal : r1.key = r2.key => r1 = r2
    /\ \A row \in proposal : Verifiable(row)
    /\ Cardinality(proposal) > Cardinality({row \in Content(work.state.dataset) : Verifiable(row)})

\* validate: no row twice, every row verifiable, every old row that still is
\* verifiable kept unchanged, and at least one row new.
Validates(proposal) ==
    LET kept == {row \in Content(work.state.dataset) : Verifiable(row)}
    IN  /\ \A r1, r2 \in proposal : r1.key = r2.key => r1 = r2
        /\ \A row \in proposal : Verifiable(row)
        /\ kept \subseteq proposal
        /\ Cardinality(proposal) > Cardinality(kept)

\* routesRefused
RoutesRefused ==
    /\ work.fails # <<>>
    /\ \A i \in 1 .. Len(work.fails) : work.fails[i] = "refused"

-----------------------------------------------------------------------------
(* The command. *)

Resumable(t) ==
    /\ t \notin returned
    /\ Resume = "last" =>
        \A later \in WorkTurns : later > t => record[later]["primary"] = "none"

\* main stores its assets and loads the state and the spent budget, then starts.
Activate(t, given) ==
    /\ Resumable(t)
    /\ Put(Assets)
    /\ Start(t)
    /\ phase' = "enter"
    /\ source' = given
    /\ work' = [Nothing EXCEPT !.state = state]
    /\ attempted' = attempts[t]
    /\ UNCHANGED <<budget, output, state, attempts, saved, returned, ghosts>>

\* It dies while it stores them.
ActivateTorn ==
    /\ at = 0 /\ runs < MaxRuns
    /\ Tear(Assets)
    /\ runs' = runs + 1
    /\ UNCHANGED <<record, turn, at, invoking, phase, memory, output, state, attempts, saved, returned, ghosts>>

\* Mutant: a stage without a result is restored to nothing.
RestoreStageBlindly == work' = saved[turn][WorkGraph[at]]

\* Mutant: whether the work was verified is not part of a stage's result.
RestoreStageUnverified ==
    LET found == saved[turn][WorkGraph[at]]
    IN  work' = IF found = None THEN work ELSE [found EXCEPT !.verified = FALSE]

RestoreStage ==
    LET found == saved[turn][WorkGraph[at]]
    IN  work' = IF found = None THEN work ELSE found

\* Each iteration of the loop restores the stage before it executes the step.
Walk ==
    /\ PassOver \/ Dispatch
    /\ RestoreStage
    /\ phase' = "enter"
    /\ UNCHANGED <<attempted, source, budget, files, ghosts>>

\* The process ends, and its memory with it.
Gone ==
    /\ Leave
    /\ phase' = "enter" /\ work' = Nothing /\ attempted' = 0 /\ source' = {}
    /\ UNCHANGED budget

\* A step in flight, a crash, an error of a stage, its file or the journal; or
\* the end.
Exit == Gone /\ UNCHANGED <<files, ghosts>>

-----------------------------------------------------------------------------
(* The stages. *)

Attempting ==
    \/ Invoking("primary")
    \/ Invoking("alternate") /\ ~work.verified

Fail(reason) == work' = [work EXCEPT !.fails = Append(@, reason)]

steps == <<record, turn, at, invoking, runs>>

\* Mutant: the spent invocation is counted in memory only.
SpendUnrecorded ==
    /\ Attempting /\ phase = "enter"
    /\ attempted < budget
    /\ attempted' = attempted + 1
    /\ phase' = "spent"
    /\ UNCHANGED <<steps, work, source, budget, files, ghosts>>

\* attempt: one invocation is spent, on disk too, before the route runs.
Spend ==
    /\ Attempting /\ phase = "enter"
    /\ attempted < budget
    /\ attempted' = attempted + 1
    /\ attempts' = [attempts EXCEPT ![turn] = attempted + 1]
    /\ phase' = "spent"
    /\ UNCHANGED <<steps, work, source, budget, store, output, state, saved, returned, ghosts>>

\* attempt fails before it runs a route: the budget is exhausted, the mandate
\* expired, or the budget could not be written (it is spent in memory then).
AttemptRefused ==
    /\ Attempting /\ phase = "enter"
    /\ attempted' \in {attempted} \cup (IF attempted < budget THEN {attempted + 1} ELSE {})
    /\ Fail("error")
    /\ phase' = "save"
    /\ UNCHANGED <<steps, source, budget, files, ghosts>>

\* BuildContext and Compile: an object of the context is torn, is torn now, or
\* the mandate does not fit into its own budget.
ContextFails ==
    /\ invoking /\ phase = "spent"
    /\ Tear(Authority) \/ UNCHANGED store
    /\ Fail("error")
    /\ phase' = "save"
    /\ UNCHANGED <<steps, attempted, source, budget, output, state, attempts, saved, returned, ghosts>>

\* The route runs on the context, and what it proposes is validated.
Occupy(exit, printed) ==
    /\ invoking /\ phase = "spent"
    /\ Put(Authority)
    /\ occupied' = [occupied EXCEPT ![turn] = @ + 1]
    /\ IF Failure(exit, printed) # "none" THEN Fail(Failure(exit, printed))
       ELSE IF ~Validates(printed) THEN Fail("error")
       ELSE work' = [work EXCEPT !.verified = TRUE, !.proposal = printed, !.judged = source]
    /\ phase' = "save"
    /\ UNCHANGED <<steps, attempted, source, budget, output, state, attempts, saved, returned, settled>>

\* A stage with nothing to do: diagnose only adds an event, the others return.
Idle ==
    /\ phase = "enter"
    /\ \/ Invoking("diagnose")
       \/ (Invoking("alternate") \/ Invoking("contain")) /\ work.verified
       \/ Invoking("commit") /\ ~work.verified
    /\ phase' = "save"
    /\ UNCHANGED <<steps, memory, files, ghosts>>

Committing == Invoking("commit") /\ work.verified

CommitStore ==
    /\ Committing /\ phase = "enter"
    /\ Put(Dataset(work.proposal))
    /\ phase' = "stored"
    /\ UNCHANGED <<steps, memory, output, state, attempts, saved, returned, ghosts>>

\* The write of the object fails or the process dies in it: both end the turn.
CommitTorn ==
    /\ Committing /\ phase = "enter"
    /\ Tear(Dataset(work.proposal))
    /\ Gone
    /\ UNCHANGED <<output, state, attempts, saved, returned, ghosts>>

CommitOutput ==
    /\ Committing /\ phase = "stored"
    /\ output' = work.proposal
    /\ phase' = "written"
    /\ UNCHANGED <<steps, memory, store, state, attempts, saved, returned, ghosts>>

CommitState ==
    /\ Committing /\ phase = "written"
    /\ state' = [Nothing.state EXCEPT !.period = work.state.period + 1, !.dataset = work.proposal]
    /\ work' = [work EXCEPT !.state = state']
    /\ settled' = [settled EXCEPT ![turn] = @ \cup {"committed"}]
    /\ phase' = "save"
    /\ UNCHANGED <<steps, attempted, source, budget, store, output, attempts, saved, returned, occupied>>

\* Mutant: containment starts a new state, as a commit does.
ContainAfresh ==
    /\ Invoking("contain") /\ ~work.verified /\ phase = "enter"
    /\ state' = [Nothing.state EXCEPT !.period = work.state.period, !.unresolved = TRUE, !.decision = RoutesRefused]
    /\ work' = [work EXCEPT !.state = state']
    /\ settled' = [settled EXCEPT ![turn] = @ \cup {"contained"}]
    /\ phase' = "save"
    /\ UNCHANGED <<steps, attempted, source, budget, store, output, attempts, saved, returned, occupied>>

\* contain: the state this process holds, marked; a Direction decision only if
\* every failed attempt was a refusal.
Contain ==
    /\ Invoking("contain") /\ ~work.verified /\ phase = "enter"
    /\ state' = [work.state EXCEPT !.unresolved = TRUE, !.decision = RoutesRefused]
    /\ work' = [work EXCEPT !.state = state']
    /\ settled' = [settled EXCEPT ![turn] = @ \cup {"contained"}]
    /\ phase' = "save"
    /\ UNCHANGED <<steps, attempted, source, budget, store, output, attempts, saved, returned, occupied>>

RecordReturn ==
    /\ Invoking("record") /\ phase = "enter"
    /\ returned' = returned \cup {turn}
    /\ phase' = "save"
    /\ UNCHANGED <<steps, memory, store, output, state, attempts, saved, ghosts>>

\* Verify compares the files with what commit or contain left in memory.
Matches ==
    /\ Committing =>
        output = work.state.dataset /\ state.dataset = work.state.dataset /\ state.period = work.state.period
    /\ Invoking("contain") /\ ~work.verified => state.unresolved

\* The stage file is written, then Verify reads back; a process that dies in
\* between leaves a step in flight, as one that dies before.
Verify ==
    /\ invoking /\ phase = "save"
    /\ saved' = [saved EXCEPT ![turn][WorkGraph[at]] = work]
    /\ IF Matches THEN Advance /\ phase' = "enter" /\ UNCHANGED memory ELSE Gone
    /\ UNCHANGED <<store, output, state, attempts, returned, ghosts>>

Finish ==
    /\ Finished
    /\ Exit

-----------------------------------------------------------------------------
Invoke ==
    \/ Spend \/ AttemptRefused \/ ContextFails
    \/ \E exit \in {"zero", "three", "other"}, printed \in Outputs : Occupy(exit, printed)
    \/ Idle \/ CommitStore \/ CommitTorn \/ CommitOutput \/ CommitState
    \/ Contain \/ RecordReturn \/ Verify

Next ==
    \/ \E t \in WorkTurns, given \in Sources : Activate(t, given)
    \/ ActivateTorn \/ Walk \/ Invoke \/ Exit \/ Finish

Spec == Init /\ [][Next]_vars

-----------------------------------------------------------------------------
(* Properties. *)

\* No more routes run for a turn than its mandate has invocations, over any
\* number of processes that work on it (attempt, LoadWork).
BudgetKept == \A t \in WorkTurns : occupied[t] <= budget

\* The dataset that state.json names can be read back: no crash, whenever it
\* comes, leaves a state whose content was never written (commit, CAS.Put).
DatasetReadable == state.dataset # None => store[Dataset(state.dataset)] = "whole"

\* A turn commits or is contained, never both, and one that has returned has
\* done one of the two; what a restarted process reloads decides which (Invoke).
SettledOnce ==
    \A t \in WorkTurns :
        /\ settled[t] # {"committed", "contained"}
        /\ t \in returned => settled[t] # {}

\* The published dataset is the one of the state, unless some turn died or
\* failed between writing the two, and then its commit is recorded as unfinished.
OutputAgrees ==
    output = state.dataset \/ \E t \in WorkTurns : record[t]["commit"] = "held"

\* What a turn commits keeps every row of the dataset it replaces that the files
\* its proposal was judged by still name, and has a row that was not there.
RowsKept ==
    [][state'.dataset # state.dataset =>
        /\ \A row \in Content(state.dataset) :
              row.key \in work.judged => row \in Content(state'.dataset)
        /\ ~(Content(state'.dataset) \subseteq Content(state.dataset))]_vars

\* The comment of contain: it "preserves the dataset" (work.go:474).
ContainPreserves ==
    [][Invoking("contain") => state'.dataset = state.dataset]_vars
=============================================================================
