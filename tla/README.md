# Verification of Continuity

TLA+ models of `powerfarm-continuity`, TLC runs that check them on small
instances, and TLAPS proofs of the properties that matter most for instances of
any size. Paths below are relative to the repository.

- [The system](#the-system): inventory, interactions, hazards
- [The modules](#the-modules): what models what, and what is abstracted
- [The runs](#the-runs): what is checked, with which bounds, and why they suffice
- [What is proved](#what-is-proved)
- [What the code does not do](#what-the-code-does-not-do): six disagreements
- [What is not modelled](#what-is-not-modelled) and [the plan](#the-plan)

`PROJECT.json` maps each definition to the lines it models and lists the runs,
the mutants, the hazards and the theorems.

## The system

Continuity executes plans whose steps have effects that cannot be taken back,
and never claims more about an effect than is known. Its parts:

| Part | State it keeps | Operations | What makes it correct |
| --- | --- | --- | --- |
| **Effect lifecycle** `internal/effects` | none: a transition table over seven states | `Next`, `Recover` | losing an acknowledgement is not failing; a verdict ends the life of an effect |
| **Effect journal** `internal/journal` | SQLite tables `effects`, `effect_events` | `Create`, `Get`, `Transition`, `Events` | one winner per transition; the events retell the state |
| **Effect executor** `internal/runtime/executor.go` | the step it is at; everything else is in the journal | `ExecuteStep` | an effect is sent at most once over crashes and concurrent processes; its record is ahead of it; verdicts rest on facts |
| **Admission** `internal/compiler`, `policy/continuity.rego`, `internal/policy` | none: a bundle is compiled once | `Compile`, `Decide` | nothing unrepeatable runs on policy alone |
| **Heartime ingress** `internal/ingress` | per occurrence `delivery.json`, `started.json`, `outcome.json`, `reported.json`, the index `parents/`; goroutines, requests | HTTP delivery, sweep, route execution, return, return review | every activation is run at most once, answered truthfully, and answered in the end |
| **Work turn** `internal/institution/work.go`, `occupants.go` | per directory `state.json`, the published dataset; per turn its stage, attempt and return files | six stages behind the executor | a restarted turn reuses results, its budget is not refunded, a turn settles once, no row that still holds is lost |
| **Planning turn** `internal/institution/planning.go` | the plan in memory, an external ledger, decision and return files | resolve, propose, validate, renew, confirm, contain, record | what it returns is true of the ledger, whatever its command said |
| **Census turn** `internal/institution/census.go`, `cohort.go` | the sweep in memory, stage files, return and decision | resolve, probe, record, reconcile | a verified return stands on a preserved record of what was seen; absence is never guessed |
| **Semantic change** `internal/semanticchange` | the live tree, one candidate directory, snapshots in memory | stage, verify, accept | a change is applied whole or not at all, and it is the one that was reviewed |
| **Semantic graph** `internal/semanticgraph` | none | `Build`, `Compare`, `Neighborhood` | a graph has both ends of its edges; a view misses nothing within reach |
| **Act graph** `internal/actgraph` | six files of one directory | `Project`, `Write`, `VerifyProjection`, `BuildContext` | a context carries the receipts and evidence of what it shows |
| **Content store** `internal/institution/context.go` | objects by digest, atomically replaced files | `Put`, `Get`, `AtomicJSON`, `BuildContext` | an object that is named has its content |
| LogLine receipts, event bus, engine catalog, chat | none of their own | derive, print, publish | pure functions or pure I/O |

**Interactions.** A turn command (`cmd/institution-turn` and its siblings)
compiles a bundle and calls `ExecuteStep` for each step in order, stopping at the
first error. The executor records each transition in the journal, asks an
authorizer (the OPA client, or the mandate of the turn), and reaches the world
through a `Dispatcher`. Turn commands are themselves *routes* of the ingress: it
starts them with a delivery on standard input and reads their exit. Heartime,
the ledger of obligations, is outside: it delivers occurrences and accepts
returns, and it sends a *return review* for an occurrence it has had no return
for. The three turns differ in what a restart remembers: the work turn reloads
the result of each stage it passes over, the planning and census turns start with
an empty memory and pass over the stages that filled it. The change commands do
not use the executor: they read and write one tree and one candidate directory
without a lock, next to an editor and to each other, and take graphs from
`internal/semanticgraph`; the graph command projects such a graph into acts.

**What is hard.** The executor holds no lock from authorization to verdict, and
`Transition` reads before the transaction that compares: correctness rests on
what each state accepts. The ingress has requests, goroutines and child
processes on the same five files; it promises to act once *and* to answer
eventually, over crashes at any instruction; and a review makes one occurrence
write the record of another. The turns hand results from stage to stage over
crashes, over other turns of the same directory, and over ledgers and registries
that change meanwhile and whose commands may be killed before or after they take
effect. An acceptance edits a tree others edit. `PROJECT.json` lists 40 hazards
at their lines, with the property that covers each, or what is planned for it.

## The modules

| Module | Models |
| --- | --- |
| `EffectCertainty` | the abstract promise: an effect crosses the boundary at most once, and is judged once, on facts |
| `EffectExecutor` | executor, journal, lifecycle, admission and authorizers; implements `EffectCertainty` |
| `HeartimeIngress` | the ingress process, its files, its goroutines, its routes, and what the ledger has accepted |
| `TurnSteps` | what the three turn commands share: the lock, the graph, and what a turn sees of the journal |
| `PlanningTurn`, `WorkTurn`, `CensusTurn` | the three turns, each an instance of `TurnSteps` with its stages, files and surroundings |
| `SemanticGraph`, `ActGraph` | graph, difference, neighbourhood; projection, verification and context |
| `SemanticChange` | the staging, acceptance and graph commands over one tree; extends the two graph modules |
| `MC...` | the small instances |
| `EffectExecutorProofs`, `HeartimeIngressProofs`, `PlanningTurnProofs`, `WorkTurnProofs`, `CensusTurnProofs`, `SemanticChangeProofs` | the theorems about each state machine |
| `HeartimeAnswerProofs` | what the answers of the ingress are worth; extends `HeartimeIngressProofs` |
| `SemanticGraphProofs` | the theorems about graphs, views and acts, for every tree |

### EffectExecutor

Any number of executor processes run one compiled plan over one journal. `state`
and `log` are the two tables. `pc[p]` is the line of `ExecuteStep` a process
stands at, and each journal or world access is one action: `Get`, `Create`,
`Reget`, `Decide`, `ReadState` and `CommitTransition` (the two halves of
`Transition`), `Invoke`, `Outcome`, `Verify`. `Accepts` and `Leads` are the
table of `effects.Next`. `Found` is the switch of `ExecuteStep` with its
fall-through for `authorized`. A profile has an effect class, an authorization
mode, the class of its verifier, and the authorizer of the executor; the initial
states are the bundles `Compile` admits.

Kept, though they look like detail: any error of `Get` is taken for an absent
row, the error of the second `Get` is dropped, the error of the last
`Transition` is dropped, and the state read by `Transition` may be stale when
its transaction compares it.

Assumed of the outside: a dispatcher acknowledges only after the effect has
settled, and the verifying capability observes the truth or fails. An effect
whose call returned an error may still settle, either way, at any later time.
Process crashes, SQLite errors and authorizer errors are faults, at most
`MaxFaults` in a behaviour; a lost acknowledgement is not counted as a fault and
is always possible. The turn commands take a lock on their state directory, so
two live processes on one journal are more than they permit; the executor
itself has no lock, and it is what is modelled.

### HeartimeIngress

One ingress process serves any set of occurrences. The five `files` are
durable; `mode`, `served`, `request`, `place`, `lane`, `hand` vanish with the
process; `route`, `exit` and `ledger` are outside of it, so a route outlives an
ingress that crashed (`Orphan`).

- *Handler.* `Deliver` creates `delivery.json` and `WriteDelivery` fills it:
  two calls, between which others see an empty file. `IndexReview`, then
  `Acknowledge`. A repeat with the same bytes changes nothing but a log line.
- *Sweep.* `BeginSweep` lists what owes something (`Owed`, `PhaseOf`) and queues
  it by handoff, or by its own identity if its delivery cannot be read *at that
  moment*. `Turn` lets one occurrence of a lane work at a time. `Advance` is the
  switch of `advance`, `Load` what follows it.
- *Route.* `Start` makes the intent durable, `Invoke`, `Finish`; `Classify` is
  the reading of an exit. An occurrence that was started and has no outcome is
  interrupted and uncertain.
- *Return.* `Resolve` replaces `outcome.json`, `Report` or `ReportFails` is up to
  three attempts, the latter also when Heartime accepted and the answer was
  lost, or when it already has a return and takes this one for a conflicting one
  (`report.go:25-28`); `MarkReported`.
- *Review.* `Count`, `Ask`, `AskPhase`: the parent is unknown (and is resolved
  and returned in its own name), returned, owed, or unfinished. `hand[o].of` is
  the occurrence a goroutine deals with, itself or that parent.
- *Process.* `StartProcess` reads a configuration, the first sweep runs before
  `Listen`, `Stop` cancels the context, `Exit`, `Crash`.

Abstracted: a resolution is its outcome and the occurrence whose advance
produced it (results are addressed by digest, so two differing results differ);
a sweep lists the directory in one step; the attempts of one report are one
step; authentication and the validation of a delivery happen before any state
exists. Disk errors, crashes, stops and lost reports are faults, bounded by
`MaxFaults`. Reviews may review reviews.

### TurnSteps

A turn command takes the lock of its directory (`Start`), executes the steps of
its graph in order and stops at the first error. Of the seven states of the
journal a turn can tell three apart: `none` (the step is dispatched and invoked),
`verified` (it is passed over, without an Invoke), `held` (in flight or failed:
every attempt stops here). `EffectExecutor` is where that is checked and proved;
the order of the steps and the single Invoke per step are what the turns take
from it. `Leave` is any end of the process: an error of a stage or of the
journal, and a crash, leave the step `held` alike.

### PlanningTurn

One activation, its process memory (`memory`), two files, and the ledger with
its clock. Every stage is an action of its name; `propose` is one action per
iteration of its loop. `Activate` clears the memory, so a restart that passes
over stages has no context, no plan and an outcome `"none"`.

- *Ledger.* Heartime's rules for a renewal are `Accepts`; others renew or retire
  the obligation at any time (`Elsewhere`). The renew command may be killed at
  its timeout (`RenewKilled`): its renewal landed, lands later (`Straggle`), or
  never does.
- *Confirm* reads the ledger back, or cannot. `Shows(clear)` has the whole-ledger
  condition of `Renewed` as a free Boolean: other obligations may be uncovered.
- *Proposals.* `PeriodPlan` is the arithmetic of `PeriodPlanner`; a command may
  return any plan of `Offers`. `Sound` is `Plan.Validate`; where the period
  begins is compared with nothing, as in the code.

Abstracted: seconds are naturals; identifiers and digests of a plan are
`faithful`; the mandate's named Direction boundary is there.

### WorkTurn

A directory over several turns. `state`, `output`, `attempts`, `saved` and
`returned` are files, `store` the objects; `phase` is where a process stands
between two writes of one stage, so `commit` is `CommitStore`, `CommitOutput`,
`CommitState`. `RestoreStage` reloads what a stage left, at every iteration of
the command's loop, the state of the turn included. `Occupy` runs a route with
any exit and any output of `Outputs`, and validates what it printed against the
files this process was given. `Put` and `Tear` are the content store: an object
is created and then written, and one that stays torn makes every later `Put` of
the same bytes fail, in a context or in a commit.

A dataset is a set of rows `[key, text]`; a row can be verified while the files
name its key. `Resume` says which turns are started again: the last one only, or
any that has not returned.

### CensusTurn

One activation. The Registry and the place are read by different stages and
change between and after them (`Change`). `Record` lets Antenna run what it
received completely or not, preserve it or something else, and answer with any
receipt and any digest, of this payload or of `AnotherPayload`, or not at all;
the census keeps what it was told. Before the turn Antenna has already preserved
a run of another sweep. `VerifyRecord` is the retrieval, by that receipt and
digest; the ghost `named` is the digest of the last answer. `ClassifyInventory`,
`Class`, `Reconcile`, `Attention` are the pure functions. Members have an order,
because of two that are looked for under one name the first takes the directory.
`Open` says whether Antenna runs a post that names no contract, which is what a
restarted census without a cohort sends. Antenna's digest of a payload is the
payload.

### SemanticGraph, ActGraph, SemanticChange

A file is a sequence of tokens; a token declares a function and calls others.
Some of the files the scanner does not read are workflow documents, which the
domain projection reads: a document with tokens compiles to a bundle with a step
for each. `Build` is the scan with its unresolved symbols and this projection,
`Compare` the difference, for which two steps of a bundle are never equal
(`sameNode`: their attributes are structs, which `deepEqual` does not compare),
`Neighborhoods` the views `Neighborhood` may cut (all of them: where the limit
cuts, its order depends on names). `Project` and `BuildContext` have receipts
and evidence identified by their content.

`SemanticChange` runs any commands at once, each a process that does one
read of a directory or one write of a file per step: `StageBegin`, `StageCopy`,
`StageWrite` (the three files that are read again); `AcceptBegin` (the token is
compared), `AcceptLoad` (the directory is read again), `AcceptRestage`,
`AcceptSnapshot`, `AcceptApply` (one change a step), `AcceptRestore`,
`AcceptRecord`; `GraphBegin`, `GraphWrite` (six files in their order). Failed
writes are faults; a file whose write broke off cannot be read, like a missing
one, except that a file of lines that broke off at the end of a line reads as the
lines it has (`kept`, any set of `Cuts`): the error of the last flush is dropped,
so the command may even go on to the next file.
`overlap` and `mixed` are ghosts that remember whether graph commands were at
work beside each other or one stopped between its index and its manifest. `Edit`
is the editor. `Applicable` and `Mutated` are the three kinds of changes.

Abstracted: one package, with functions, calls and workflow documents; the copy of
a tree is one step; a candidate's graph is what `Build` says of its tree, although
the code has the candidate's own scanner build it (`go run`). `change-accept` reads
the candidate directory twice before `Accept` reads it again (`main.go:290, 293`);
`AcceptBegin` is both readings, and what is staged between them or after them is
found by `AcceptLoad` alike. `Neighborhood` clamps depth and limit
(`query.go:34-45`): the queries are the clamped ones. `graph-context` reads the
directory in one step; what it would read in the middle of a live command is what
it reads after a kill there.

## The runs

Every property of a passing run has a mutant: a definition changed the way a
plausible bug would change it, under which the run finds the property violated.

| Run | Instance | Shows |
| --- | --- | --- |
| `executor` | 2 processes, 2 steps, 7 profiles (2 of which the compiler must refuse), 2 faults; 149,881 states | at most one send, write-ahead, truthful verdicts, order, admission, one owner, the event log, the refinement, and progress |
| `ingress` | one activation and one review of it, a configuration that serves it or not, routes that succeed or cannot start, 2 faults; 175,150 states | one activation, truthful and final outcomes, returns backed by records, the review bound, and that everything recorded is answered |
| `planning` | both planners, five plans a command may return (in order, late, too long, reviewed too late, unfaithful), budget 2, one restart, killed ledger commands, one tick; 152,712 states | returns true of the ledger, the budget, the Direction decision, extension by the mandate, termination |
| `work` | 2 turns, 3 starts, files that name one key or both, four outputs, both budgets, a crash or error at every write; 2,041,716 states | one settlement, the budget, readable and agreeing files, no row lost |
| `census` | 3 members of whom two share a name, 3 directories, one change of Registry or place, an Antenna that may name another digest, 3 starts; 1,904,000 states | returns that are earned, classes that are honest |
| `change` | 2 processes, 3 commands, 3 proposals, one edit, one failed write, kills, files cut at the end of a line; stagings and acceptances beside each other, or graph commands beside each other; 202,525 states | atomic acceptance, accepted is reviewed, contexts are of one graph |
| `executor_resume`, `executor_retry` | 1 process, 1 step | the first two disagreements below |
| `ingress_owed`, `ingress_lanes`, `ingress_torn` | 3, 2 and 1 occurrences | the next three |
| `work_stale` | 2 turns, any of which may be started again | the sixth |

**Bounds.** Two processes suffice for every race of the executor: the journal
is compared per effect, and `Ownership` (below) is proved for any number. Two
steps give an earlier and a later one. Two faults allow a crash of each process,
or a crash during the recovery from one. In the ingress the interesting
interference is between an occurrence and *one* review that deals with it; two
faults allow a crash after a lost return, or two crashes around a start.
`ReviewBound = 1` makes containment and uncertainty both reachable from one
review (`n >= 1` always contains; `ingress_owed` has the bound 2, where both
outcomes occur). `RouteExits` has an exit that is mapped by the configuration and
one that is not; the others run through the same code. The inductive invariants
of the ingress were also checked with three occurrences, one of them a review of
a review (2.5 million states), before they were proved.

A turn that is started twice crosses every pair of stages a crash can separate,
because a `held` step stops each later process: a third start meets nothing new
of one turn, and `work` has three because two turns share a directory. `planning`
has coverage that has ended, ends now or lasts (`0 .. Period`), and one tick is
enough for a renewal decided before and landing after a boundary. `work` has an
output that drops a row, one that rewrites it, and one that cannot be decoded;
two keys, so that one row can be retired while the other stays. `census` has a
name shared by two members and one that is shared by none. In `change` each
proposal differs in what may go wrong: P1 changes one file twice and deletes
another, P2 adds a file and has an edit no graph sees, P3 does not do what it
promises; three commands are two stagings and an acceptance, or two acceptances
after one, or three graph commands: two that overlap and one that ends by itself
after them. `Sessions` keeps graph commands apart from the others, because they
write only the graph directory, which the others never read, and changes only the
file that declares a function meanwhile. Stagings and acceptances start on a tree
with a workflow document, so that every diff has the step of a bundle in it; graph
commands start on one without. `Cuts` lets receipts and evidence break off where
the edges begin, and links where they begin or where those of the edges do; among
what that leaves side by side are directories that verify and are served without
links, or without receipts of edges. The processes are interchangeable (`SYMMETRY`).

**Fairness.** `EffectExecutor!FairSpec`: a running process takes its next step.
Nobody is assumed to start a turn, so `Progress` speaks of processes that are
running, and of behaviours without faults: the point is that the loser of every
race stops and the winner does not. `RetryingSpec` adds that a stopped turn is
started again, which is what `cmd/institution-turn` says will happen; it is used
only by the two violation runs, so that what they show is not for want of trying.
`HeartimeIngress!FairSpec`: the process is started when it is down (`ops/launchd`
keeps it alive), its ticker starts sweep after sweep, its goroutines and requests run,
and a started route ends (the route has a time bound). Deliveries are not fair,
and neither are faults; after the last fault Heartime accepts a first return. A
later one that differs it may refuse for good, so `Answered` asks for a return at
Heartime and not for `reported.json`.

`PlanningTurn!FairSpec`: a process that runs keeps running (its stages are loops
without waiting; the ledger and planner commands have timeouts) until it ends or
is ended. It is not assumed to be started.

Deadlock is checked in the runs of the executor and the ingress. The turn and
change runs say `CHECK_DEADLOCK FALSE`: a command that has returned is not
started again, and the bounds on starts, edits and faults run out.

## What is proved

Every safety invariant and every action property of the passing runs, for every
value of the constants, subject to the named assumptions of the modules: numbers
are naturals, depths and limits within the clamps; profiles, exits, plans and texts come from their types; the outputs
of a work turn are finite; a review does not ask about itself; proposals pass
`ValidateProposal`; no two Go files have one path; `None`, `Absent` and the like
are none of the values they stand for the lack of. Two components need one more,
stated in their theorems: `~Open` for the census, and `Resume = "last"` for the
three theorems of the work turn about older turns.

**Executor.** Type correctness first. The heart is `Ownership`: whoever is past
the authorization of an effect and not yet done with it (`Owns`) is alone, and
may rely on the state its last transition wrote (`Held`), although no lock is
held and other processes may be about to commit. It is inductive because the
only event that makes an owner is `authorize`, accepted only from `planned`, and
every non-owner's pending transition is an `authorize` that the comparison will
refuse. From it: `DispatchedAtMostOnce`, `WriteAhead`, `OneOwner`. `Evidence`
says for every record, and for every process about to write one, what the world
must look like; from it `FailureCertain` and `VerificationReal`. `InOrder` and
`Admitted` give `OrderedSteps` and `PolicyNeverAlone`. `JournalIsAPath` needs
only the comparison in the transaction. `ExecutorKeepsPromise` is the refinement
of `EffectCertainty`, step by step, from `Ownership` and `Evidence`.

**Ingress.** `Control` says what a goroutine may rely on about what it holds;
with `TypeOK` it is inductive. `StartAhead` and `ReturnAhead` strengthen the two
write-ahead orders and give `StartWriteAhead` and `ReturnsRecorded`.
`Undisturbed` is the argument why a review cannot disturb an activation although
it looks for the parent's delivery first and writes the parent's outcome later,
while deliveries arrive: an occurrence on its way to an outcome of its own
(`Busy`) was delivered and has none, no review deals with it, and one cannot
begin to, because the review would have found the delivery; conversely it cannot
become busy while a review deals with it, because it is not in this sweep, or is
in it only to be returned. From these: `RunsOnce` (a route is started at most
once, never after an answer) and `OwnOutcomeKept` (an outcome an occurrence
earned itself is final, in the file, in the mark and at Heartime). The theorems
hold for any number of occurrences and reviews, chains and cycles of reviews
included. `Warranted` (`HeartimeAnswerProofs`) gives every value a goroutine is
about to record, and every value on record, a warrant: the exit of the route, the
recorded start, a route that never ran, a return at Heartime, or enough indexed
reviews. `WarrantStays` is why it suffices: nothing that happens later takes one
away. Hence `OutcomesEarned`, `ReviewsTruthful` and `ContainmentLate`.

**Planning turn.** First the journal keeps the order of the stages (`OrderInv`):
a step that was reached has only verified ones before it, so a step is invoked
once over all restarts. `BudgetInv` ties the budget in memory to the planner
invocations there were. `LandInv` says that nothing lands before the renew stage,
and that a command that ended in an error without having been killed has landed
nothing; `OutcomeInv` reads each outcome in those terms, and gives
`FailedStaysUnrenewed` and, with coverage that never shrinks, `VerifiedStaysCovered`.
`RefusedInv` ties the attempts a process remembers to what planners said over all
processes, and gives `DecisionStaysTrue`: a decision means that each of them was
refused. `NearInv` bounds a period plan by the
context it was made from, and the context by a ledger and a clock that only grow;
hence `ExtensionIsMandated`, although the plan lands later than it was made.

**Work turn.** `BudgetInv`: the count on disk is ahead of the routes that ran, and
the count in memory is the one on disk or ahead of it. `ReadableInv`: no file, no
stage result and no memory names a dataset as committed before its object is whole, and
a whole object stays so. `SettledInv` is about what a restarted process finds:
memory, stage files, journal and `state.json` agree on whether the turn was
verified, and the saved result of the commit stage decides it for the stages after
it, whichever process gets there. From these `BudgetIsKept`, `DatasetIsReadable`
and `TurnsSettleOnce`, for either `Resume`: restarting old turns endangers the
state (`work_stale`), not the settlement. Where only the last turn is started
again, `FreshInv` adds that the state such a turn works on, in memory or in its
stage files, has the dataset of `state.json`, and so: what is published is what is stated
(`PublishedIsStated`), a commit keeps the rows its files bear out (`RowsAreKept`),
and containment preserves the dataset (`ContainmentPreserves`), the very property
that `work_stale` refutes for `Resume = "any"`.

**Census.** `FreshInv`: a process that has a cohort, or was contained, resolved it
itself and is the first to come to the steps ahead; so what it holds is what was
observed, and what it verifies by is what Antenna named (`BoundInv`, `RecordInv`),
and what a step has not been
dispatched for has not happened (`BlankInv`). From them `ReturnsAreEarned`: a verified return
stands on a completed run with the digest Antenna named. That this is a run of what
was reconciled holds only if Antenna named no other payload, because nothing in the
code compares the two.
`ClassesStayHonest` adds lemmas about the pure functions for every cohort and
every place: a member whose name nobody shares is present exactly when its directory
is, exactly the directories nobody is looked for under are unrecognized, and no
single observation yields absence or prohibition without its grounds. Both assume
that Antenna refuses a post without a contract (`~Open`); the notes below say
what happens when it does not.

**Graphs and acts.** Statements about every tree and every graph, which the change
loop uses. `ViewsAreNear`: a breadth-first search that stops at a limit has, at
every depth, either the whole ball or exactly as many nodes as the limit
(`Reaching`); the view cut from it is a graph with both ends of its edges.
`CompareTells`: a diff leaves out nothing in which two graphs differ, and shows
nothing else but the steps of bundles that both have. `VerifiedIsOneGraph`:
receipts and evidence name the graph they were made of, so a root, receipts,
evidence and links of different graphs, or parts of them, never verify together;
links that are whole need all receipts, and those all evidence; the index is in none
of these conditions. `ContextEvidenced` and `ContextSupports`: with its graph's index
a view gets evidence for each receipt it gets, and if the receipts are all there
the receipt and the ends of everything it shows, and the root link if the links
are whole. `EndsAreNodes`: `Build` adds a node for both ends of each edge
it adds, whatever the tree calls.

**Semantic change.** `Typed` says what each process has in hand at each step.
`Reviewing` follows the token through the two readings of the candidate directory:
until the directory is staged into it holds the proposal that was compared, and
from the second reading on the process does (`AcceptsTheReviewed`). `Rollback` is
the argument for `AcceptsWholeOrNot`: undisturbed, the tree of an acceptance after n
changes is the nth of `ApplyChanges`; its snapshots hold what each path named held
at first, once; and on the way back each path has been put back, or is still named
by a snapshot to come. Both hold a process only against its own steps, because
whoever else writes the tree or the directory marks it as disturbed or restaged
(`OthersKept`). What was shown is a diff that tells of every difference
(`CompareTells`). `Paired` is for the graph directory: a command that began alone has
written what it has in hand, and unless files mix the index and the manifest are
of one graph or their writer is between the two. Neither needs to know what other
commands left behind, which is why one that ends by itself repairs everything. With
the theorems about acts it gives `ContextServesOneGraph`.

**Only model-checked**: `Progress`, `Answered` and `Ends`, because liveness under
fairness and ENABLED are out of the prover's reach. What recursive functions
compute (`Reached`, `Ball`, `ApplyChanges`, `SnapshotsOf`) is proved by
induction over sets of numbers (`Inductive`, `Recursion` in
`SemanticGraphProofs`), because the library's induction theorems take an operator
as parameter, which no prover here can instantiate; no module declares a
RECURSIVE operator.

## What the code does not do

Six places where a run refutes what the repository says of itself:

1. `executor_resume`: an effect whose process died between its authorize and its
   dispatch transition stays `authorized`; every restarted turn fails on it,
   because it records `authorize` again (`executor.go:88`).
2. `executor_retry`: `ARCHITECTURE.md` gives observe and idempotent effects the
   recovery "retry"; the executor refuses every uncertain effect, and
   `effects.Recover` has no caller.
3. `ingress_owed`: a second account of an unknown parent replaces `outcome.json`
   while the first one's `reported.json` stands; if its return fails it is never
   returned, because `reported.json` is looked at first (`store.go:213`).
4. `ingress_lanes`: a delivery that is being written while a sweep lists it gets
   a lane of its own, and its route may run beside another of the same handoff
   (`receiver.go:235`).
5. `ingress_torn`: a crash between creating and writing `delivery.json` makes
   every identical repeat an integrity failure (`store.go:120`).

6. `work_stale`: containment "preserves the dataset" (`work.go:474`), but a turn
   that stopped before its containment and is started again after a later turn
   has committed contains the state of its stage file, and writes it over the
   newer `state.json`.

The first five err on the side of not acting, or of acting twice at once on
*different* occurrences; the sixth loses a commit.

Noted while modelling, without a run, because nothing in the repository says
otherwise or because the property states the exception:

- *Planning.* `Plan.Validate` never ties `coverageFrom` to the coverage or the
  clock, so only the period planner is kept to a period at a time
  (`ExtendsByMandate`). A turn restarted after its renewal was verified has no
  plan and returns `failed` (`planning.go:553`); restarted after `confirm` it
  records an empty outcome. `Renewed` asks that no obligation of the whole ledger
  be uncovered. A killed renewal may land after it was called failed.
- *Work.* An object left torn by a crash is an error of every later `Put` of the
  same bytes (`context.go:119`): of the assets it blocks every start. A crash
  between the published dataset and `state.json` leaves the former ahead
  (`OutputAgrees`). A commit after a restart is not validated against the files
  the restarted process was given (`RowsKept` says: those it was judged by).
- *Census.* With `Open`, a sweep that was contained and killed can, started again,
  post observations of nothing and return them as verified with an empty cohort.
  Of two members with one directory name the second is reported expected-absent
  although its directory is there.
  The digest that the record is verified by is the one Antenna answered
  (`census.go:356`), compared with nothing: another run's receipt and digest verify.
  `docs/INSTITUTIONAL-TURNS.md:65` asks for a "completed run preserving the exact
  payload digest"; the comment at `census.go:401` says "recorded", and
  `ReturnIsEarned` states what is left.
- *Semantic change.* A diff shows every step of every bundle that base and candidate
  share as changed, although nothing about it did (`diff.go:146`), because its
  attributes are structs; the same holds of a placement with a selector, and of a
  task or a verification without arguments (`AcceptedIsReviewed` states it of steps). Between the comparison of the token (`main.go:297`) and the
  load of the candidate (`change.go:144`) another proposal may be staged, and is
  accepted under the token. A kill, or an error in writing the acceptance, leaves
  the tree changed without one. A rollback overwrites what others wrote since the
  snapshots. Edits no graph shows pass the comparison of graphs, so an unpinned
  replacement of that kind can be applied twice.
- *Acts.* `index.json` is verified by nobody (`project.go:304`): two graph commands
  at one time, or one that stops between its index and its manifest, can leave an
  index of another graph, and contexts are then served without receipts for what
  they show, until a graph command ends by itself. Nothing counts
  lines: files cut at the end of one, after a kill or a full disk, may verify, and
  contexts are then served without links, or without receipts of edges and nodes
  (`write.go:83-154`, whose last flush may fail unseen).
  `docs/SEMANTIC_GRAPH.md` says a context comes with its receipts and provenance;
  `ContextIsWhole` states the exceptions.

## What is not modelled

- `effects.Recover` (never called) and the workflow and contract parsing of the
  compiler.
- Two ingress processes on one directory: `-once` is for draining a directory
  after an incident (`docs/HEARTIME-INGRESS.md`), and nothing in the code keeps a
  server from running beside it.
- Which objects `Compile` selects for the budget of a context: a pure function
  of its inputs whose result no stage reads back.
- Type and import nodes, capabilities and tasks, and the effect and engine nodes of
  the semantic graph.
- Receipts and canonical JSON: pure functions over unbounded text. The bus, the
  engine catalog, the chat and the smoke test: thin I/O without durable state.

## The plan

1. An abstract `ReturnPromise` that `HeartimeIngress` implements: activated at most
   once, answered by its own outcome or accounted for by a review; with the
   refinement proved from `Undisturbed` and `Warranted`.
2. A bound for containment from the other side: how many lost index entries delay
   it by how many reviews.
3. An ingress and a work turn composed: a route that outlives its ingress holds
   the lock of its directory.
4. Two ingress processes on one directory.
