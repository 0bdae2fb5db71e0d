----------------------------- MODULE PlanningTurn -----------------------------
(***************************************************************************)
(* The planning turn (internal/institution/planning.go,                    *)
(* cmd/planning-turn): it reads what the Heartime ledger covers, has the   *)
(* next period proposed, validates the plan, asks the ledger to renew, and *)
(* reads the ledger back to decide what it returns.                        *)
(*                                                                         *)
(* Everything the stages hand to each other is in the memory of one        *)
(* process; a restarted one passes over the verified stages and has none   *)
(* of it.  Time is a counter of seconds.  The ledger is another program:   *)
(* what is known of it is what the account shows and the rules a renewal   *)
(* must meet.                                                              *)
(***************************************************************************)
EXTENDS Naturals, Sequences

CONSTANTS
    Period,         \* periodSeconds of the mandate
    ReviewAfter,    \* planningReviewAfterSeconds
    Budget,         \* maxInvocations
    Planners,       \* who may occupy the turn: "period", "command"
    Offers,         \* the plans a command may return
    CommandsDie,    \* whether a ledger command may be killed at its timeout
    Horizon,        \* bound: the clock stops here
    MaxRuns,        \* bound: how often the command is started
    None            \* no context, no plan, no return

\* Mandate.ValidatePlanning
ASSUME MandateAssumption ==
    /\ Period \in Nat /\ ReviewAfter \in Nat /\ Budget \in 1 .. 2
    /\ 1 <= ReviewAfter /\ ReviewAfter < Period
ASSUME PlannersAssumption == Planners \subseteq {"period", "command"}
ASSUME BoundsAssumption == CommandsDie \in BOOLEAN /\ Horizon \in Nat /\ MaxRuns \in Nat

Contexts == [before : Nat, now : Nat]

\* "faithful": the plan names its activation and states its own period.
Plans == [from : Nat, through : Nat, review : Nat, faithful : BOOLEAN]

\* What a planner says: a plan, no for want of credential, quota or budget, or
\* it fails.
Answers == {"plan", "refused", "failed"}

Outcomes == {"verified", "failed", "uncertain", "contained"}
Returns == [outcome : Outcomes \cup {"none"}, plan : Plans \cup {None}]

ASSUME OffersAssumption == Offers \subseteq Plans
ASSUME NoneAssumption == None \notin Contexts \cup Plans \cup Returns

VARIABLES
    record, at, invoking, runs,         \* see TurnSteps
    planner,    \* who occupies the turn
    outcome, context, plan, frozen,     \* Outcome, Context, Plan, PlanRef # ""
    attempts,   \* the events of stage "propose": "plan", "refused", "failed"
    command,    \* what the renew command said: "none", "accepted", "error"
    renewed,    \* Renewed
    decision,   \* direction-decision.json exists
    answer,     \* planning-return.json
    now,        \* the clock
    ledger,     \* coverage and next planning review of the contract
    pending,    \* a renewal a killed command has left behind
    landed,     \* how many renewals of this turn the ledger accepted
    said,       \* what each planner invoked for the activation answered, over all processes
    killed      \* whether a renew command ended without the ledger's word

memory == <<outcome, context, plan, frozen, attempts, command, renewed>>
files == <<decision, answer>>
outside == <<now, ledger, pending, landed, killed>>
vars == <<record, at, invoking, runs, planner, memory, files, outside, said>>

\* planning.workflow.json
PlanningGraph == <<"resolve", "propose", "validate", "renew", "confirm", "contain", "record">>

\* The directory belongs to one activation.
INSTANCE TurnSteps WITH Graph <- PlanningGraph, Turns <- {1}, turn <- 1

TypeOK ==
    /\ StepsTypeOK
    /\ planner \in Planners
    /\ outcome \in Outcomes \cup {"none"}
    /\ context \in Contexts \cup {None}
    /\ plan \in Plans \cup {None}
    /\ frozen \in BOOLEAN
    /\ attempts \in Seq(Answers) /\ Len(attempts) <= Budget
    /\ command \in {"none", "accepted", "error"}
    /\ renewed \in BOOLEAN
    /\ decision \in BOOLEAN
    /\ answer \in Returns \cup {None}
    /\ now \in 0 .. Horizon
    /\ ledger \in [covered : Nat, review : Nat, active : BOOLEAN]
    /\ pending \in Plans \cup {None}
    /\ landed \in Nat /\ killed \in BOOLEAN
    /\ said \in Seq(Answers)

Init ==
    /\ StepsInit
    /\ planner \in Planners
    /\ outcome = "none" /\ context = None /\ plan = None /\ frozen = FALSE
    /\ attempts = <<>> /\ command = "none" /\ renewed = FALSE
    /\ decision = FALSE /\ answer = None
    /\ now = 0
    /\ ledger \in [covered : 0 .. Period, review : {0}, active : BOOLEAN]
    /\ pending = None /\ landed = 0 /\ killed = FALSE /\ said = <<>>

-----------------------------------------------------------------------------
(* The ledger. *)

\* Heartime's own rules for a planning return, as docs/PLANNING-RENEWAL.md
\* and Plan.Validate repeat them.
Accepts(p) ==
    /\ ledger.active
    /\ p.through > ledger.covered
    /\ now < p.review /\ p.review < p.through

Extended(p) == [ledger EXCEPT !.covered = p.through, !.review = p.review]

Tick ==
    /\ now < Horizon
    /\ now' = now + 1
    /\ UNCHANGED <<record, at, invoking, runs, planner, memory, files, ledger, pending, landed, killed, said>>

\* The obligation is retired, or renewed by somebody else.
Elsewhere ==
    /\ \/ ledger.active /\ ledger' = [ledger EXCEPT !.active = FALSE]
       \/ \E through, review \in 0 .. Horizon + Period :
            LET p == [from |-> 0, through |-> through, review |-> review, faithful |-> TRUE]
            IN  Accepts(p) /\ ledger' = Extended(p)
    /\ UNCHANGED <<record, at, invoking, runs, planner, memory, files, now, pending, landed, killed, said>>

\* What a killed command left behind reaches the ledger after all, or never.
Straggle ==
    /\ pending # None
    /\ pending' = None
    /\ \/ /\ Accepts(pending)
          /\ ledger' = Extended(pending)
          /\ landed' = landed + 1
       \/ UNCHANGED <<ledger, landed>>
    /\ UNCHANGED <<record, at, invoking, runs, planner, memory, files, now, killed, said>>

-----------------------------------------------------------------------------
(* The command. *)

\* It refuses an activation that has a return; what the stages hand on is new.
Activate ==
    /\ answer = None
    /\ Start(1)
    /\ outcome' = "none" /\ context' = None /\ plan' = None /\ frozen' = FALSE
    /\ attempts' = <<>> /\ command' = "none" /\ renewed' = FALSE
    /\ UNCHANGED <<planner, files, outside, said>>

\* Mutant: a step in flight is invoked again.
WalkRetrying ==
    /\ \/ PassOver
       \/ Dispatch
       \/ Reaching("held") /\ invoking' = TRUE /\ UNCHANGED <<record, at, runs>>
    /\ UNCHANGED <<planner, memory, files, outside, said>>

Walk ==
    /\ PassOver \/ Refuse \/ Dispatch
    /\ UNCHANGED <<planner, memory, files, outside, said>>

\* A crash, or an error of a stage, of its file or of the journal; or the end.
Exit ==
    /\ Leave
    /\ UNCHANGED <<planner, memory, files, outside, said>>

\* resolve: without active coverage there is nothing to plan for.
Resolve ==
    /\ Invoking("resolve")
    /\ IF ledger.active
       THEN context' = [before |-> ledger.covered, now |-> now] /\ UNCHANGED outcome
       ELSE outcome' = "contained" /\ UNCHANGED context
    /\ Advance
    /\ UNCHANGED <<planner, plan, frozen, attempts, command, renewed, files, outside, said>>

\* Mutant: the new period begins at its review if that is later.
PeriodPlanLate ==
    LET review == context.now + ReviewAfter
        from == IF context.before < review THEN review ELSE context.before
    IN  [from |-> from, through |-> from + Period, review |-> review, faithful |-> TRUE]

\* PeriodPlanner.Propose, with what the stage resolve read.
PeriodPlan ==
    LET from == IF context.before < context.now THEN context.now ELSE context.before
    IN  [from |-> from, through |-> from + Period,
         review |-> context.now + ReviewAfter, faithful |-> TRUE]

Proposals ==
    IF planner = "command" THEN Offers
    ELSE IF context = None THEN {} ELSE {PeriodPlan}

\* Mutant: one attempt too many.
MayProposeOnceMore ==
    /\ outcome = "none"
    /\ Len(attempts) <= Budget
    /\ \A i \in 1 .. Len(attempts) : attempts[i] = "failed"

\* One more iteration of the loop in propose, unless it is over.
MayPropose ==
    /\ outcome = "none"
    /\ Len(attempts) < Budget
    /\ \A i \in 1 .. Len(attempts) : attempts[i] = "failed"

\* Mutant: an attempt that failed is not counted.
AttemptUncounted(event) ==
    /\ Invoking("propose")
    /\ MayPropose
    /\ attempts' = IF event = "failed" THEN attempts ELSE Append(attempts, event)
    /\ UNCHANGED <<record, at, invoking, runs, planner, outcome, context, frozen, command, renewed, files, outside, said>>

Attempt(event) ==
    /\ Invoking("propose")
    /\ MayPropose
    /\ attempts' = Append(attempts, event)
    /\ said' = Append(said, event)
    /\ UNCHANGED <<record, at, invoking, runs, planner, outcome, context, frozen, command, renewed, files, outside>>

ProposePlan ==
    \E p \in Proposals : Attempt("plan") /\ plan' = p

\* The period planner fails only on a context it cannot read.
ProposeNothing ==
    \E event \in {"refused", "failed"} :
        /\ planner = "period" => event = "failed" /\ context = None
        /\ Attempt(event)
        /\ UNCHANGED plan

ProposeDone ==
    /\ Invoking("propose")
    /\ ~MayPropose
    /\ Advance
    /\ UNCHANGED <<planner, memory, files, outside, said>>

\* Plan.Validate: the plan's own period is bounded, and it extends what
\* resolve saw.  Where the period begins is not compared with anything.
Sound(p) ==
    /\ context # None
    /\ p.faithful
    /\ p.through > context.before /\ p.through > now
    /\ now < p.review /\ p.review < p.through
    /\ p.from < p.through /\ p.through <= p.from + Period

\* validate freezes a sound plan, unless the store fails, and drops any other.
Validate ==
    /\ Invoking("validate")
    /\ IF outcome # "none" \/ plan = None
       THEN UNCHANGED <<plan, frozen>>
       ELSE \/ Sound(plan) /\ frozen' = TRUE /\ UNCHANGED plan
            \/ plan' = None /\ UNCHANGED frozen
    /\ Advance
    /\ UNCHANGED <<planner, outcome, context, attempts, command, renewed, files, outside, said>>

MayRenew == outcome = "none" /\ frozen

\* The ledger's answer arrives.
RenewAnswered ==
    /\ Invoking("renew") /\ MayRenew /\ command = "none"
    /\ IF Accepts(plan)
       THEN ledger' = Extended(plan) /\ landed' = landed + 1 /\ command' = "accepted"
       ELSE command' = "error" /\ UNCHANGED <<ledger, landed>>
    /\ UNCHANGED <<record, at, invoking, runs, planner, outcome, context, plan, frozen, attempts, renewed, files, now, pending, killed, said>>

\* The command is killed: the renewal took effect, may still, or never will.
RenewKilled ==
    /\ CommandsDie
    /\ Invoking("renew") /\ MayRenew /\ command = "none"
    /\ command' = "error"
    /\ killed' = TRUE
    /\ \/ Accepts(plan) /\ ledger' = Extended(plan) /\ landed' = landed + 1 /\ UNCHANGED pending
       \/ pending' = plan /\ UNCHANGED <<ledger, landed>>
       \/ UNCHANGED <<ledger, landed, pending>>
    /\ UNCHANGED <<record, at, invoking, runs, planner, outcome, context, plan, frozen, attempts, renewed, files, now, said>>

RenewDone ==
    /\ Invoking("renew")
    /\ MayRenew => command # "none"
    /\ Advance
    /\ UNCHANGED <<planner, memory, files, outside, said>>

\* Mutant: coverage that has not ended is taken for the new one.
ShowsAnyCoverage(clear) ==
    /\ clear
    /\ ledger.covered > now /\ ledger.active

\* What confirm looks for in the ledger's account; "clear": no obligation at
\* all, this or another, is listed as uncovered.
Shows(clear) ==
    /\ clear
    /\ ledger.covered > now /\ ledger.covered = plan.through
    /\ ledger.active /\ ledger.review = plan.review

ConfirmWithoutReading ==
    /\ Invoking("confirm")
    /\ outcome = "contained" \/ ~frozen
    /\ outcome' = IF outcome = "contained" THEN outcome ELSE "failed"
    /\ Advance
    /\ UNCHANGED <<planner, context, plan, frozen, attempts, command, renewed, files, outside, said>>

ConfirmUnreadable ==
    /\ Invoking("confirm")
    /\ outcome # "contained" /\ frozen
    /\ outcome' = "uncertain"
    /\ Advance
    /\ UNCHANGED <<planner, context, plan, frozen, attempts, command, renewed, files, outside, said>>

\* Mutant: what the ledger does not show, it has refused.
ConfirmReadStrictly ==
    /\ Invoking("confirm")
    /\ outcome # "contained" /\ frozen
    /\ \E clear \in BOOLEAN :
        /\ renewed' = Shows(clear)
        /\ outcome' = IF Shows(clear) THEN "verified" ELSE "failed"
    /\ Advance
    /\ UNCHANGED <<planner, context, plan, frozen, attempts, command, files, outside, said>>

ConfirmRead ==
    /\ Invoking("confirm")
    /\ outcome # "contained" /\ frozen
    /\ \E clear \in BOOLEAN :
        /\ renewed' = Shows(clear)
        /\ outcome' = IF Shows(clear) THEN "verified"
                      ELSE IF command # "error" THEN "uncertain" ELSE "failed"
    /\ Advance
    /\ UNCHANGED <<planner, context, plan, frozen, attempts, command, files, outside, said>>

\* Mutant: a route that failed technically counts as refused.
RoutesRefusedUnchecked == attempts # <<>>

\* routesRefused
RoutesRefused ==
    /\ attempts # <<>>
    /\ \A i \in 1 .. Len(attempts) : attempts[i] = "refused"

\* contain records the condition; it never changes the outcome.
Contain ==
    /\ Invoking("contain")
    /\ decision' = (decision \/ (~renewed /\ outcome # "contained" /\ RoutesRefused))
    /\ Advance
    /\ UNCHANGED <<planner, memory, answer, outside, said>>

RecordReturn ==
    /\ Invoking("record")
    /\ answer = None
    /\ answer' = [outcome |-> outcome, plan |-> IF frozen THEN plan ELSE None]
    /\ UNCHANGED <<record, at, invoking, runs, planner, memory, decision, outside, said>>

RecordDone ==
    /\ Invoking("record")
    /\ answer # None
    /\ Advance
    /\ UNCHANGED <<planner, memory, files, outside, said>>

\* run prints the outcome and returns.
Finish ==
    /\ Finished
    /\ Exit

-----------------------------------------------------------------------------
Stage ==
    \/ Resolve \/ ProposePlan \/ ProposeNothing \/ ProposeDone \/ Validate
    \/ RenewAnswered \/ RenewKilled \/ RenewDone
    \/ ConfirmWithoutReading \/ ConfirmUnreadable \/ ConfirmRead
    \/ Contain \/ RecordReturn \/ RecordDone \/ Finish

Next == Activate \/ Walk \/ Stage \/ Exit \/ Tick \/ Elsewhere \/ Straggle

Spec == Init /\ [][Next]_vars

\* A process that is running keeps running until it ends or is ended.
FairSpec == Spec /\ WF_vars(Walk \/ Stage)

-----------------------------------------------------------------------------
(* Properties. *)

\* A return that says verified names coverage the ledger has, and it keeps it:
\* whatever the command said, whoever else renews, however often the turn was
\* restarted (confirm).
VerifiedIsCovered ==
    answer # None /\ answer.outcome = "verified" => ledger.covered >= answer.plan.through

\* A return that says failed invokes the fallback because "no renewal took
\* effect and the ledger is unchanged" (planning.go:49).  That holds of a turn
\* that kept its plan, unless its ledger command was killed; a restarted one has
\* no plan and says failed of a ledger its predecessor renewed (planning.go:554).
\* contained always means that nothing was renewed.
FailedIsUnrenewed ==
    answer # None =>
        /\ answer.outcome = "contained" => landed = 0
        /\ answer.outcome = "failed" /\ answer.plan # None /\ ~killed => landed = 0

\* The mandate's invocation budget holds for the activation, over all the
\* processes that work on it (propose).
BudgetKept == Len(said) <= Budget

\* A Direction decision tells a human that every planning route was refused and
\* that no period was renewed (planning.go:610-619).  Both are so, restarts
\* included: a planner was invoked for this activation, every one of them, by
\* whichever process, was refused, and nothing has landed (routesRefused).
DecisionIsTrue ==
    decision =>
        /\ said # <<>> /\ \A i \in DOMAIN said : said[i] = "refused"
        /\ landed = 0

\* The period planner's renewals never cover more than the mandate's period
\* beyond what was covered, or beyond now, at the instant they land, although
\* they were decided on an earlier reading (PeriodPlanner.Propose).
ExtendsByMandate ==
    [][landed' > landed /\ planner = "period" =>
        \/ ledger'.covered <= ledger.covered + Period
        \/ ledger'.covered <= now + Period]_vars

\* A command that runs comes to an end: every loop of its stages is bounded.
Ends == at # 0 ~> at = 0
=============================================================================
