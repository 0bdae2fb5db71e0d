--------------------------- MODULE EffectExecutor ---------------------------
(***************************************************************************)
(* The effect executor (internal/runtime), the durable journal it records  *)
(* in (internal/journal), the certainty lifecycle both obey                *)
(* (internal/effects), and the admission rules of the compiler and of the  *)
(* authorizers that decide which steps may reach it.                       *)
(*                                                                         *)
(* Several executor processes may run the same compiled plan, on purpose   *)
(* or because one was restarted.  They share only the SQLite journal and   *)
(* the outside world.  A journal transition is two steps, because the      *)
(* state is read before the transaction that compares and replaces it.     *)
(***************************************************************************)
EXTENDS Naturals, Sequences

CONSTANTS
    Executors,      \* executor processes
    StepCount,      \* steps of the compiled plan
    Catalog,        \* capability profiles on disk, good and bad
    MaxFaults       \* bound on crashes, journal errors and authorizer errors

ASSUME StepCountAssumption == StepCount \in Nat \ {0}
ASSUME MaxFaultsAssumption == MaxFaults \in Nat

Steps == 1 .. StepCount

Classes == {"observe", "idempotent", "reconcilable", "at_most_once", "irreversible"}
Modes == {"automatic", "approval", "policy"}

\* A profile: its effect class, its authorization mode, the class of the
\* capability that verifies it ("none" when it declares no verification), and
\* the authorizer the executor was built with.
Profiles == [class     : Classes,
             mode      : Modes,
             verify    : Classes \cup {"none"},
             authority : {"opa", "mandate"}]

ASSUME CatalogAssumption == Catalog \subseteq Profiles

-----------------------------------------------------------------------------
(* The certainty lifecycle of internal/effects/effects.go.                 *)

States == {"planned", "authorized", "dispatched", "acknowledged",
           "verified", "uncertain", "failed"}

Events == {"authorize", "dispatch", "acknowledge", "verify_match",
           "lose_certainty", "fail"}

\* Mutant: a lost acknowledgement no longer leads anywhere.
AcceptsNoLoss ==
    [st \in States |->
        CASE st = "planned"      -> {"authorize"}
          [] st = "authorized"   -> {"dispatch"}
          [] st = "dispatched"   -> {"acknowledge", "verify_match", "fail"}
          [] st = "acknowledged" -> {"verify_match", "lose_certainty", "fail"}
          [] st = "uncertain"    -> {"verify_match", "fail"}
          [] OTHER               -> {}]

\* The events each state accepts; every other event is an invalid transition.
Accepts ==
    [st \in States |->
        CASE st = "planned"      -> {"authorize"}
          [] st = "authorized"   -> {"dispatch"}
          [] st = "dispatched"   -> {"acknowledge", "lose_certainty", "verify_match", "fail"}
          [] st = "acknowledged" -> {"verify_match", "lose_certainty", "fail"}
          [] st = "uncertain"    -> {"verify_match", "fail"}
          [] OTHER               -> {}]

\* Each event leads to one state, wherever it is accepted.
Leads ==
    [ev \in Events |->
        CASE ev = "authorize"      -> "authorized"
          [] ev = "dispatch"       -> "dispatched"
          [] ev = "acknowledge"    -> "acknowledged"
          [] ev = "verify_match"   -> "verified"
          [] ev = "lose_certainty" -> "uncertain"
          [] ev = "fail"           -> "failed"]

-----------------------------------------------------------------------------
(* Admission: what compiler.Compile lets into a bundle, and what the OPA   *)
(* policy document answers for a step of it.                               *)

Unrepeatable == {"at_most_once", "irreversible"}

\* Mutant: the compiler forgets that such effects need an authority.
AdmissibleAutomatic(c) ==
    /\ c.class = "reconcilable" => c.verify # "none"
    /\ c.class = "observe" => c.verify = "none"
    /\ c.verify \in {"none", "observe"}

\* Whether a profile passes validateCapability and Compile's observer check.
Admissible(c) ==
    /\ c.class = "reconcilable" => c.verify # "none"
    /\ c.class = "observe" => c.verify = "none"
    /\ c.class \in Unrepeatable => c.mode # "automatic"
    /\ c.verify \in {"none", "observe"}

\* The policy's answer: allowed, and no approval required.
PolicyAllows(c) ==
    /\ c.mode = "automatic" \/ (c.mode = "policy" /\ c.class \notin Unrepeatable)
    /\ c.mode # "approval"
    /\ c.class \notin Unrepeatable

\* The decisions authorize can return without an error.  The mandate of a turn
\* can lapse at any moment, so a mandate may refuse what it granted before.
Decisions(c) ==
    CASE c.mode = "automatic" -> {TRUE}
      [] c.mode = "approval"  -> {FALSE}
      [] c.mode = "policy"    -> IF c.authority = "opa" THEN {PolicyAllows(c)}
                                                        ELSE BOOLEAN

-----------------------------------------------------------------------------
VARIABLES
    profile,        \* the capability profile of each step of the bundle
    state,          \* table effects: the certainty state, "none" without a row
    log,            \* table effect_events: the transitions of each effect
    pc,             \* where each executor process stands
    at,             \* the step each process is executing
    event,          \* the event of the transition a process is recording
    seen,           \* the state that transition read
    world,          \* what became of each effect outside
    invoked,        \* how often Invoke was called for each effect
    faults          \* faults so far, of MaxFaults

journal == <<state, log>>
local == <<pc, at, event, seen>>
outside == <<world, invoked>>
vars == <<profile, journal, local, outside, faults>>

Places == {"idle", "get", "create", "reget", "decide", "read", "commit",
           "invoke", "outcome", "verify"}

Entry == [from : States, event : Events, to : States]

TypeOK ==
    /\ profile \in [Steps -> Catalog]
    /\ state \in [Steps -> States \cup {"none"}]
    /\ log \in [Steps -> Seq(Entry)]
    /\ pc \in [Executors -> Places]
    /\ at \in [Executors -> Steps]
    /\ event \in [Executors -> Events]
    /\ seen \in [Executors -> States]
    /\ world \in [Steps -> {"absent", "inflight", "applied", "lost"}]
    /\ invoked \in [Steps -> Nat]
    /\ faults \in 0 .. MaxFaults

\* A bundle holds admissible steps only; nothing was executed yet.
Init ==
    /\ profile \in [Steps -> {c \in Catalog : Admissible(c)}]
    /\ state = [s \in Steps |-> "none"]
    /\ log = [s \in Steps |-> << >>]
    /\ pc = [p \in Executors |-> "idle"]
    /\ at = [p \in Executors |-> 1]
    /\ event = [p \in Executors |-> "authorize"]
    /\ seen = [p \in Executors |-> "planned"]
    /\ world = [s \in Steps |-> "absent"]
    /\ invoked = [s \in Steps |-> 0]
    /\ faults = 0

-----------------------------------------------------------------------------
(* The control of one process.                                             *)

GoTo(p, place) == pc' = [pc EXCEPT ![p] = place] /\ UNCHANGED <<at, event, seen>>

\* ExecuteStep returns an error; the turn stops and its process exits.
Stop(p) ==
    /\ pc' = [pc EXCEPT ![p] = "idle"]
    /\ at' = [at EXCEPT ![p] = 1]
    /\ event' = [event EXCEPT ![p] = "authorize"]
    /\ seen' = [seen EXCEPT ![p] = "planned"]

\* Mutant: the turn runs past the last step of its bundle.
StepDonePastEnd(p) ==
    /\ at' = [at EXCEPT ![p] = @ + 1]
    /\ pc' = [pc EXCEPT ![p] = "get"]
    /\ event' = [event EXCEPT ![p] = "authorize"]
    /\ seen' = [seen EXCEPT ![p] = "planned"]

\* ExecuteStep returns no error: the turn goes on to its next step, or ends.
StepDone(p) ==
    IF at[p] = StepCount
    THEN Stop(p)
    ELSE /\ at' = [at EXCEPT ![p] = @ + 1]
         /\ pc' = [pc EXCEPT ![p] = "get"]
         /\ event' = [event EXCEPT ![p] = "authorize"]
         /\ seen' = [seen EXCEPT ![p] = "planned"]

\* The process is about to record an event of its current effect.
Record(p, ev) ==
    /\ pc' = [pc EXCEPT ![p] = "read"]
    /\ event' = [event EXCEPT ![p] = ev]
    /\ UNCHANGED <<at, seen>>

\* A process starts a turn, for the first time or after an earlier one ended.
Begin(p) ==
    /\ pc[p] = "idle"
    /\ GoTo(p, "get")
    /\ UNCHANGED <<profile, journal, outside, faults>>

\* Mutant: an effect left uncertain counts as done.
FoundTrusting(p) ==
    LET st == state[at[p]] IN
    \/ st \in {"dispatched", "acknowledged", "failed"} /\ Stop(p)
    \/ st \in {"verified", "uncertain"} /\ StepDone(p)
    \/ st \in {"planned", "authorized"} /\ GoTo(p, "decide")

\* What a found record means for the process (the switch of ExecuteStep).
Found(p) ==
    LET st == state[at[p]] IN
    \/ /\ st \in {"dispatched", "acknowledged", "uncertain", "failed"}
       /\ Stop(p)
    \/ /\ st = "verified"
       /\ StepDone(p)
    \/ /\ st \in {"planned", "authorized"}
       /\ GoTo(p, "decide")

Get(p) ==
    /\ pc[p] = "get"
    /\ IF state[at[p]] = "none" THEN GoTo(p, "create") ELSE Found(p)
    /\ UNCHANGED <<profile, journal, outside, faults>>

\* The INSERT fails on the primary key when another process was first.
Create(p) ==
    LET s == at[p] IN
    /\ pc[p] = "create"
    /\ \/ /\ state[s] = "none"
          /\ state' = [state EXCEPT ![s] = "planned"]
          /\ GoTo(p, "reget")
       \/ /\ state[s] # "none"
          /\ Stop(p)
          /\ UNCHANGED state
    /\ UNCHANGED <<profile, log, outside, faults>>

Reget(p) ==
    /\ pc[p] = "reget"
    /\ Found(p)
    /\ UNCHANGED <<profile, journal, outside, faults>>

Decide(p) ==
    /\ pc[p] = "decide"
    /\ \E allow \in Decisions(profile[at[p]]) :
          IF allow THEN Record(p, "authorize") ELSE Stop(p)
    /\ UNCHANGED <<profile, journal, outside, faults>>

\* Transition, first half: the state is read and the next state computed.  It
\* returns an error for an effect without a row and for an invalid transition.
ReadState(p) ==
    LET st == state[at[p]] IN
    /\ pc[p] = "read"
    /\ IF st # "none" /\ event[p] \in Accepts[st]
       THEN /\ seen' = [seen EXCEPT ![p] = st]
            /\ pc' = [pc EXCEPT ![p] = "commit"]
            /\ UNCHANGED <<at, event>>
       ELSE Stop(p)
    /\ UNCHANGED <<profile, journal, outside, faults>>

\* Mutant: the dispatch is recorded after the effect, not before it.
AfterCommitSendsFirst(p) ==
    CASE event[p] = "authorize" -> GoTo(p, "invoke")
      [] event[p] = "acknowledge" -> Record(p, "dispatch")
      [] OTHER -> Stop(p)

\* Mutant: an acknowledgement is enough for an effect nobody verifies.
AfterCommitTrusting(p) ==
    CASE event[p] = "authorize"    -> Record(p, "dispatch")
      [] event[p] = "dispatch"     -> GoTo(p, "invoke")
      [] event[p] = "acknowledge"  -> IF profile[at[p]].verify # "none" THEN GoTo(p, "verify")
                                      ELSE Record(p, "verify_match")
      [] event[p] = "verify_match" -> StepDone(p)
      [] event[p] \in {"lose_certainty", "fail"} -> Stop(p)

\* What the process does once its transition is durable.
AfterCommit(p) ==
    LET c == profile[at[p]] IN
    CASE event[p] = "authorize"    -> Record(p, "dispatch")
      [] event[p] = "dispatch"     -> GoTo(p, "invoke")
      [] event[p] = "acknowledge"  -> IF c.verify # "none" THEN GoTo(p, "verify")
                                      ELSE IF c.class = "observe"
                                           THEN Record(p, "verify_match")
                                           ELSE Stop(p)
      [] event[p] = "verify_match" -> StepDone(p)
      [] event[p] \in {"lose_certainty", "fail"} -> Stop(p)

\* Mutant: the UPDATE does not compare the state with the one that was read.
CommitBlindly(p) ==
    LET s == at[p]
        entry == [from |-> seen[p], event |-> event[p], to |-> Leads[event[p]]]
    IN
    /\ pc[p] = "commit"
    /\ state' = [state EXCEPT ![s] = entry.to]
    /\ log' = [log EXCEPT ![s] = Append(@, entry)]
    /\ AfterCommit(p)
    /\ UNCHANGED <<profile, outside, faults>>

\* Transition, second half: one transaction compares the state with the one
\* that was read, replaces it and appends the event.
CommitTransition(p) ==
    LET s == at[p]
        entry == [from |-> seen[p], event |-> event[p], to |-> Leads[event[p]]]
    IN
    /\ pc[p] = "commit"
    /\ \/ /\ state[s] = seen[p]
          /\ state' = [state EXCEPT ![s] = entry.to]
          /\ log' = [log EXCEPT ![s] = Append(@, entry)]
          /\ AfterCommit(p)
       \/ /\ state[s] # seen[p]
          /\ Stop(p)
          /\ UNCHANGED journal
    /\ UNCHANGED <<profile, outside, faults>>

-----------------------------------------------------------------------------
(* The outside world, reached through the Dispatcher.                      *)

\* Invoke is called.  The request crosses the boundary, or Sent only says that
\* it may have; or the adapter knows that nothing was sent, and the effect failed.
Invoke(p) ==
    LET s == at[p] IN
    /\ pc[p] = "invoke"
    /\ invoked' = [invoked EXCEPT ![s] = @ + 1]
    /\ \/ /\ world' = [world EXCEPT ![s] = "inflight"]
          /\ GoTo(p, "outcome")
       \/ /\ GoTo(p, "outcome")
          /\ UNCHANGED world
       \/ /\ Record(p, "fail")
          /\ UNCHANGED world
    /\ UNCHANGED <<profile, journal, faults>>

\* Mutant: an error after sending is recorded as a failure.
OutcomeFails(p) ==
    /\ pc[p] = "outcome"
    /\ \/ world[at[p]] \in {"applied", "lost"} /\ Record(p, "acknowledge")
       \/ Record(p, "fail")
    /\ UNCHANGED <<profile, journal, outside, faults>>

\* Invoke returns with Sent set.  An acknowledgement comes after the effect has
\* settled; an error, or no acknowledgement, can come at any time.
Outcome(p) ==
    /\ pc[p] = "outcome"
    /\ \/ /\ world[at[p]] \in {"applied", "lost"}
          /\ Record(p, "acknowledge")
       \/ Record(p, "lose_certainty")
    /\ UNCHANGED <<profile, journal, outside, faults>>

\* Mutant: an observation that could not be made counts as a match.
VerifyTrusting(p) ==
    /\ pc[p] = "verify"
    /\ \/ Record(p, "verify_match")
       \/ world[at[p]] # "applied" /\ Record(p, "fail")
    /\ UNCHANGED <<profile, journal, outside, faults>>

\* Verify observes the settled effect, or fails to observe it.
Verify(p) ==
    LET w == world[at[p]] IN
    /\ pc[p] = "verify"
    /\ \/ w = "applied" /\ Record(p, "verify_match")
       \/ w # "applied" /\ Record(p, "fail")
       \/ Record(p, "lose_certainty")
    /\ UNCHANGED <<profile, journal, outside, faults>>

Settle(s) ==
    /\ world[s] = "inflight"
    /\ \E w \in {"applied", "lost"} : world' = [world EXCEPT ![s] = w]
    /\ UNCHANGED <<profile, journal, local, invoked, faults>>

-----------------------------------------------------------------------------
(* Faults, at most MaxFaults of them.                                      *)

Fault == faults < MaxFaults /\ faults' = faults + 1

\* The process dies between any two of its steps.
Crash(p) ==
    /\ Fault
    /\ pc[p] # "idle"
    /\ Stop(p)
    /\ UNCHANGED <<profile, journal, outside>>

\* SQLite returns an error (another connection holds the write lock, or the
\* disk failed) and the transaction was rolled back.  ExecuteStep takes an error
\* of Get for an absent row, and one of the second Get for a planned row.
JournalError(p) ==
    /\ Fault
    /\ \/ pc[p] = "get" /\ GoTo(p, "create")
       \/ pc[p] = "reget" /\ GoTo(p, "decide")
       \/ pc[p] \in {"create", "read", "commit"} /\ Stop(p)
    /\ UNCHANGED <<profile, journal, outside>>

\* The authorizer cannot be reached.
AuthorizerError(p) ==
    /\ Fault
    /\ pc[p] = "decide"
    /\ profile[at[p]].mode = "policy"
    /\ Stop(p)
    /\ UNCHANGED <<profile, journal, outside>>

-----------------------------------------------------------------------------
\* The steps a process takes on its own while it executes a turn.
Run(p) ==
    \/ Get(p) \/ Create(p) \/ Reget(p) \/ Decide(p)
    \/ ReadState(p) \/ CommitTransition(p)
    \/ Invoke(p) \/ Outcome(p) \/ Verify(p)

Next ==
    \/ \E p \in Executors :
          \/ Begin(p) \/ Get(p) \/ Create(p) \/ Reget(p) \/ Decide(p)
          \/ ReadState(p) \/ CommitTransition(p)
          \/ Invoke(p) \/ Outcome(p) \/ Verify(p)
          \/ Crash(p) \/ JournalError(p) \/ AuthorizerError(p)
    \/ \E s \in Steps : Settle(s)

Spec == Init /\ [][Next]_vars

\* A running process keeps running.  Nobody has to start a turn.
FairSpec == Spec /\ \A p \in Executors : WF_vars(Run(p))

\* Whoever needs the plan starts it again whenever it stops.
RetryingSpec == FairSpec /\ \A p \in Executors : WF_vars(Begin(p))

-----------------------------------------------------------------------------
(* Properties.                                                             *)

\* Whatever crashes, races and restarts happen, Invoke is called at most once
\* for an effect of any class (an in-flight state is never silently replayed).
AtMostOnce == \A s \in Steps : invoked[s] <= 1

\* DISPATCHED is durable before the effect boundary is crossed, so a process
\* that dies right after crossing leaves a record that says so.
RecordedBeforeSent ==
    \A s \in Steps : invoked[s] > 0 => state[s] \notin {"none", "planned", "authorized"}

\* A failed effect never took hold of the world and never will: losing an
\* acknowledgement is not failing.
FailureIsCertain ==
    \A s \in Steps : state[s] = "failed" => world[s] \in {"absent", "lost"}

\* A verified mutation is there, whatever its dispatcher acknowledged.
VerifiedIsReal ==
    \A s \in Steps :
        state[s] = "verified" /\ profile[s].class # "observe" => world[s] = "applied"

\* The rows of effect_events retell one legal path from planned to the state of
\* the effects row, even when two processes read the same state and both commit.
LogIsAPath ==
    \A s \in Steps :
        LET l == log[s] IN
        /\ \A i \in 1 .. Len(l) :
              /\ l[i].event \in Accepts[l[i].from]
              /\ l[i].from = IF i = 1 THEN "planned" ELSE l[i - 1].to
        /\ state[s] = IF l # << >> THEN l[Len(l)].to
                      ELSE IF state[s] = "none" THEN "none" ELSE "planned"

\* No step of a plan leaves a trace before every earlier step is verified,
\* whichever processes executed which steps.
StepsInOrder ==
    \A s, t \in Steps : s < t /\ state[t] # "none" => state[s] = "verified"

\* Compiler and policy together: an effect that must not be repeated or cannot
\* be undone is never dispatched on the policy's word alone.
NeverUnattended ==
    \A s \in Steps :
        profile[s].class \in Unrepeatable /\ profile[s].authority = "opa" => invoked[s] = 0

\* Process p has passed the authorization of step s and not yet finished it.
Owns(p, s) ==
    /\ at[p] = s
    /\ \/ pc[p] \in {"invoke", "outcome", "verify"}
       \/ pc[p] \in {"read", "commit"} /\ event[p] # "authorize"

\* Two processes never both act on one effect, although no lock spans the
\* authorization, the dispatch and the observation of it.
SingleOwner ==
    \A s \in Steps : \A p, q \in Executors : Owns(p, s) /\ Owns(q, s) => p = q

\* What a process may rely on while it stands between two of its steps.
Held(p) ==
    LET s == at[p] IN
    /\ pc[p] \in {"read", "commit"} /\ event[p] = "dispatch" => state[s] = "authorized"
    /\ pc[p] \in {"read", "commit"} /\ event[p] \notin {"authorize", "dispatch"} =>
           state[s] \in {"dispatched", "acknowledged"}
    /\ pc[p] = "commit" => event[p] \in Accepts[seen[p]]
    /\ pc[p] = "invoke" => state[s] = "dispatched" /\ invoked[s] = 0
    /\ pc[p] = "outcome" => state[s] = "dispatched"
    /\ pc[p] = "verify" => state[s] = "acknowledged"

\* SingleOwner, AtMostOnce and RecordedBeforeSent with what makes them inductive.
Ownership ==
    /\ SingleOwner
    /\ \A p \in Executors : Held(p)
    /\ RecordedBeforeSent
    /\ AtMostOnce

\* What the world must look like for the record to say what it says, or for a
\* process to be about to say it.
Evidence ==
    /\ \A s \in Steps :
          /\ state[s] \in {"none", "planned", "authorized"} => world[s] = "absent"
          /\ state[s] = "acknowledged" => world[s] \in {"applied", "lost"}
          /\ state[s] = "verified" => world[s] \in {"applied", "lost"}
    /\ FailureIsCertain
    /\ VerifiedIsReal
    /\ \A p \in Executors :
          LET w == world[at[p]] IN
          /\ pc[p] = "invoke" => w = "absent"
          /\ pc[p] \in {"read", "commit"} =>
                /\ event[p] = "acknowledge" => w \in {"applied", "lost"}
                /\ event[p] = "fail" => w \in {"absent", "lost"}
                /\ event[p] = "verify_match" =>
                      w = "applied" \/ (w = "lost" /\ profile[at[p]].class = "observe")

\* StepsInOrder with what makes it inductive.
InOrder ==
    /\ StepsInOrder
    /\ \A p \in Executors, s \in Steps : s < at[p] => state[s] = "verified"

\* NeverUnattended, stage by stage: what the compiler admitted, and what no
\* process gets past Decide with.
Admitted ==
    /\ \A s \in Steps : Admissible(profile[s])
    /\ \A p \in Executors :
          pc[p] \in {"read", "commit", "invoke", "outcome", "verify"} =>
              TRUE \in Decisions(profile[at[p]])
    /\ \A s \in Steps :
          state[s] \notin {"none", "planned"} => TRUE \in Decisions(profile[s])

\* The promise of module EffectCertainty, read off the journal and the world.
Certainty == INSTANCE EffectCertainty WITH
    verdict <- [s \in Steps |-> IF state[s] \in {"verified", "uncertain", "failed"}
                                THEN state[s] ELSE "open"],
    observed <- {s \in Steps : profile[s].class = "observe"}

\* The executor implements that promise: nothing is sent twice or after a
\* verdict, and each verdict is given once, on facts.
KeepsPromise == Certainty!Spec

Permitted(s) ==
    \/ profile[s].mode = "automatic"
    \/ profile[s].mode = "policy" /\ profile[s].authority = "opa" /\ PolicyAllows(profile[s])

\* An effect has come as far as the executor can bring it.
Concluded(s) ==
    \/ state[s] \in {"verified", "uncertain", "failed"}
    \/ state[s] = "acknowledged" /\ profile[s].verify = "none"

\* Without faults, concurrent executors never leave a permitted effect half way:
\* the one that loses each race stops, and the one that wins goes on to the end.
Progress ==
    [](faults = 0) =>
        \A p \in Executors, s \in Steps :
            (pc[p] # "idle" /\ at[p] = s /\ Permitted(s)) ~> Concluded(s)

\* cmd/institution-turn says that a restarted process resumes.  An effect that
\* was authorized and never dispatched would then be taken up again.
AuthorizedResumes ==
    \A s \in Steps :
        state[s] = "authorized" /\ Permitted(s) ~> state[s] # "authorized"

\* ARCHITECTURE.md gives observe and idempotent effects the recovery "retry"
\* after an uncertain dispatch.
UncertainRetried ==
    \A s \in Steps :
        /\ state[s] = "uncertain"
        /\ profile[s].class \in {"observe", "idempotent"}
        /\ Permitted(s)
        ~> state[s] # "uncertain" \/ invoked[s] > 1
=============================================================================
