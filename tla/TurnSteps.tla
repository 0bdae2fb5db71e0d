------------------------------ MODULE TurnSteps ------------------------------
(***************************************************************************)
(* What the three turn commands (cmd/institution-turn, cmd/planning-turn,  *)
(* cmd/census-turn) share: one process at a time holds the lock of the     *)
(* activation's directory, and executes the steps of a graph in order      *)
(* through the executor, stopping at the first error.                      *)
(*                                                                         *)
(* EffectExecutor models the executor itself; a turn can tell three        *)
(* journal states apart.  "none": nothing recorded, or planned; the step   *)
(* is executed.  "verified": the step is passed over, without an Invoke.   *)
(* "held": anything else, from authorized to failed; the turn stops, now   *)
(* and whenever it is started again.                                       *)
(***************************************************************************)
EXTENDS Naturals, Sequences

CONSTANTS
    Graph,      \* the steps of the workflow, in order
    Turns,      \* the activations that share the directory
    MaxRuns     \* bound: how often the command is started

VARIABLES
    record,     \* the journal's state of each step of each turn
    turn,       \* the turn the command works on, or worked on last
    at,         \* the step the process is at; 0 when no process runs
    invoking,   \* whether it is inside the Invoke of that step
    runs        \* how often the command was started

stepVars == <<record, turn, at, invoking, runs>>

Steps == {Graph[i] : i \in 1 .. Len(Graph)}

StepsTypeOK ==
    /\ record \in [Turns -> [Steps -> {"none", "held", "verified"}]]
    /\ turn \in Turns
    /\ at \in 0 .. Len(Graph) + 1
    /\ invoking \in BOOLEAN
    /\ runs \in 0 .. MaxRuns

StepsInit ==
    /\ record = [t \in Turns |-> [s \in Steps |-> "none"]]
    /\ turn \in Turns
    /\ at = 0
    /\ invoking = FALSE
    /\ runs = 0

\* The command is started for a turn and takes the lock.
Start(t) ==
    /\ at = 0
    /\ runs < MaxRuns
    /\ turn' = t
    /\ at' = 1
    /\ runs' = runs + 1
    /\ UNCHANGED <<record, invoking>>

Reaching(state) ==
    /\ at \in 1 .. Len(Graph)
    /\ ~invoking
    /\ record[turn][Graph[at]] = state

\* ExecuteStep returns the verified record: the stage is not invoked.
PassOver ==
    /\ Reaching("verified")
    /\ at' = at + 1
    /\ UNCHANGED <<record, turn, invoking, runs>>

\* ExecuteStep refuses a step that is in flight or failed; the command exits.
Refuse ==
    /\ Reaching("held")
    /\ at' = 0
    /\ UNCHANGED <<record, turn, invoking, runs>>

\* The step is authorized and its dispatch recorded, then Invoke is called.
Dispatch ==
    /\ Reaching("none")
    /\ record' = [record EXCEPT ![turn][Graph[at]] = "held"]
    /\ invoking' = TRUE
    /\ UNCHANGED <<turn, at, runs>>

Invoking(stage) ==
    /\ at \in 1 .. Len(Graph)
    /\ invoking
    /\ Graph[at] = stage

\* Invoke and Verify succeeded: the step is verified, the next one follows.
Advance ==
    /\ record' = [record EXCEPT ![turn][Graph[at]] = "verified"]
    /\ at' = at + 1
    /\ invoking' = FALSE
    /\ UNCHANGED <<turn, runs>>

\* The process is gone: it exited, an Invoke or a Verify failed, or it crashed.
Leave ==
    /\ at # 0
    /\ at' = 0
    /\ invoking' = FALSE
    /\ UNCHANGED <<record, turn, runs>>

Finished == at = Len(Graph) + 1
=============================================================================
