----------------------------- MODULE CensusTurn -----------------------------
(***************************************************************************)
(* The census responsibility (internal/institution/census.go, cohort.go,   *)
(* cmd/census-turn): one activation resolves the cohort of one place from  *)
(* the Registry, inventories the place, records what it saw with Antenna,  *)
(* retrieves the record and reconciles the two, or is contained when no    *)
(* authority answers.  Unlike the other turns a restarted census reloads   *)
(* nothing: the steps it passes over have left it no cohort, no            *)
(* observations and no outcome.                                            *)
(*                                                                         *)
(* An Invoke or a Verify that fails ends the process like a crash does:    *)
(* the step stays in flight.                                               *)
(***************************************************************************)
EXTENDS Naturals, Sequences, FiniteSets

CONSTANTS
    Members,            \* what the Registry may recognize, in the order it answers
    Entries,            \* the directories there may be
    NameOf,             \* the directory a member is looked for under
    Delegates,          \* whether the mandate names the human-only boundary
    Open,               \* whether Antenna runs a post that names no contract
    Receipts, Foreign,  \* Antenna's receipts; one of them is of another sweep
    Home, Away,         \* the place of the mandate, and another one
    MaxChanges,         \* bound: changes of the Registry and the place
    MaxRuns,            \* bound: how often the command is started
    None

VARIABLES
    record, turn, at, invoking, runs,   \* see TurnSteps
    phase,      \* "enter", or "save" once the Invoke has done its part
    registry,   \* the members the Registry recognizes at the place
    place,      \* the directories there
    antenna,    \* the service runs Antenna has preserved
    census,     \* the process's memory
    saved,      \* <capability>.stage.json
    answer,     \* census-return.json
    decision,   \* direction-decision.json
    delegated, changes,
    printed,    \* the outcomes the command has reported
    resolved, inventoried,  \* ghosts: the Registry and the place as they were read,
    named                   \* and the digest Antenna's answer to the record named

CensusGraph == <<"resolve", "probe", "record", "reconcile">>

INSTANCE TurnSteps WITH Graph <- CensusGraph, Turns <- {"census"}

steps == <<record, turn, at, invoking, runs>>
world == <<registry, place, changes>>
files == <<saved, answer, decision>>
ghosts == <<printed, resolved, inventoried, named>>
vars == <<steps, phase, world, antenna, census, files,
          delegated, ghosts>>

Range(s) == {s[i] : i \in DOMAIN s}
Recognized == Range(Members)

ASSUME CensusAssumption ==
    /\ Members \in Seq(Recognized)
    /\ NameOf \in [Recognized -> Entries]
    /\ \A i, j \in DOMAIN Members : Members[i] = Members[j] => i = j
    /\ Foreign \in Receipts
    /\ Delegates \subseteq BOOLEAN /\ Open \in BOOLEAN
    /\ MaxRuns \in Nat /\ MaxChanges \in Nat

-----------------------------------------------------------------------------
(* What a sweep computes. *)

Unrecognized(e) == <<"unrecognized-directory", e>>
Subject(m) == <<"member", m>>
Subjects == {Subject(m) : m \in Recognized} \cup {Unrecognized(e) : e \in Entries}

Observations ==
    [id : Subjects, place : {Home, Away}, conclusive : BOOLEAN, present : BOOLEAN,
     prohibited : BOOLEAN, rule : BOOLEAN]

Classes == {"recognized-expected", "recognized-elsewhere", "expected-absent",
            "unrecognized-present", "present-prohibited", "unknown"}

Discrepancies == [id : Subjects, class : Classes]

Seen(subject, present) ==
    [id |-> subject, place |-> Home, conclusive |-> TRUE, present |-> present,
     prohibited |-> FALSE, rule |-> FALSE]

\* Of two members looked for under one name the first takes the directory.
Taken(cohort, i) ==
    \E j \in 1 .. i - 1 : Members[j] \in cohort /\ NameOf[Members[j]] = NameOf[Members[i]]

\* Mutant: an unrecognized directory is named like a member.
ClassifyInventoryBare(cohort, entries) ==
    {Seen(Subject(Members[i]), NameOf[Members[i]] \in entries /\ ~Taken(cohort, i))
        : i \in {i \in DOMAIN Members : Members[i] \in cohort}}
    \cup {Seen(Subject(e), TRUE) : e \in entries \ {NameOf[m] : m \in cohort}}

ClassifyInventory(cohort, entries) ==
    {Seen(Subject(Members[i]), NameOf[Members[i]] \in entries /\ ~Taken(cohort, i))
        : i \in {i \in DOMAIN Members : Members[i] \in cohort}}
    \cup {Seen(Unrecognized(e), TRUE) : e \in entries \ {NameOf[m] : m \in cohort}}

\* Mutant: whatever was not seen is absent, however far the probe looked.
ClassHasty(o, recognized) ==
    CASE ~o.present -> IF recognized THEN "expected-absent" ELSE "none"
      [] o.present /\ ~o.conclusive -> "unknown"
      [] o.present /\ o.conclusive /\ o.prohibited /\ o.rule -> "present-prohibited"
      [] OTHER -> IF ~recognized THEN "unrecognized-present"
                  ELSE IF o.place # Home THEN "recognized-elsewhere"
                  ELSE "recognized-expected"

\* Nothing is said of what is neither there nor expected.
Class(o, recognized) ==
    CASE ~o.conclusive                 -> "unknown"
      [] o.conclusive /\ ~o.present    -> IF recognized THEN "expected-absent" ELSE "none"
      [] o.conclusive /\ o.present /\ o.prohibited /\ o.rule -> "present-prohibited"
      [] OTHER -> IF ~recognized THEN "unrecognized-present"
                  ELSE IF o.place # Home THEN "recognized-elsewhere"
                  ELSE "recognized-expected"

Reconcile(cohort, observed) ==
    LET expected == {Subject(m) : m \in cohort}
        classes == {[id |-> o.id, class |-> Class(o, o.id \in expected)] : o \in observed}
    IN {c \in classes : c.class # "none"}
        \cup {[id |-> s, class |-> "unknown"] : s \in expected \ {o.id : o \in observed}}

Attention(discrepancies) ==
    {[subject |-> d.id,
      salience |-> IF d.class \in {"present-prohibited", "expected-absent"} THEN 2 ELSE 1]
        : d \in {d \in discrepancies : d.class # "recognized-expected"}}

\* census-return.json
Returns ==
    [cohort : SUBSET Recognized, receipt : {None} \cup Receipts,
     discrepancies : SUBSET Discrepancies,
     cards : SUBSET [subject : Subjects, salience : {1, 2}]]

ASSUME NoneAssumption == None \notin Returns

\* Antenna's digest of a payload is the payload: the occurrence, what it bound
\* and what it saw.  AnotherPayload is anything else Antenna has preserved.
Payload(c) == <<"occurrence", c.cohort, c.observed>>
AnotherPayload == <<"another", {}, {}>>

\* Before this turn Antenna has preserved a run of another sweep.
Untouched == {[receipt |-> Foreign, status |-> "completed", digest |-> AnotherPayload]}

\* Mutant: a completed run of the receipt is enough.
receiptMatchesAny(available, receipt, digest) ==
    \E run \in available : run.receipt = receipt /\ run.status = "completed"

\* Some completed run of the receipt has preserved what the recorded digest
\* names; an answer without a digest matches nothing.
receiptMatches(available, receipt, digest) ==
    digest # None /\ \E run \in available :
        run.receipt = receipt /\ run.status = "completed" /\ run.digest = digest

-----------------------------------------------------------------------------
Forgotten ==
    [outcome |-> "none", bound |-> FALSE, cohort |-> {}, observed |-> {},
     receipt |-> None, digest |-> None, verified |-> FALSE]

Init ==
    /\ StepsInit
    /\ phase = "enter"
    /\ registry \in SUBSET Recognized
    /\ place \in SUBSET Entries
    /\ antenna = Untouched
    /\ census = Forgotten
    /\ saved = {}
    /\ answer = None
    /\ decision = FALSE
    /\ delegated \in Delegates
    /\ changes = 0
    /\ printed = {}
    /\ resolved = None /\ inventoried = None /\ named = None

contained == census.outcome = "contained"

\* main: a new process, with a Census that knows its mandate only.
Begin ==
    /\ Start("census")
    /\ census' = Forgotten
    /\ phase' = "enter"
    /\ UNCHANGED <<world, antenna, files, delegated, ghosts>>

Step ==
    /\ PassOver \/ Refuse \/ Dispatch
    /\ phase' = "enter"
    /\ UNCHANGED <<world, antenna, census, files, delegated, ghosts>>

Within(stage, now) == Invoking(stage) /\ phase = now
Done == phase' = "save" /\ UNCHANGED steps

\* resolve: the answer is valid, and is frozen.
ResolveFrozen ==
    /\ Within("resolve", "enter")
    /\ census' = [census EXCEPT !.cohort = registry, !.bound = TRUE]
    /\ resolved' = registry
    /\ Done
    /\ UNCHANGED <<world, antenna, files, delegated, printed, inventoried, named>>

\* containCohort: there is no answer, or none that is valid.
ResolveContained ==
    /\ Within("resolve", "enter")
    /\ census' = [census EXCEPT !.outcome = "contained"]
    /\ decision' = (decision \/ delegated)
    /\ Done
    /\ UNCHANGED <<world, antenna, saved, answer, delegated, ghosts>>

\* The later stages of a contained sweep do nothing.
Skip ==
    /\ \E stage \in {"probe", "record", "reconcile"} : Within(stage, "enter")
    /\ contained
    /\ Done
    /\ UNCHANGED <<world, antenna, census, files, delegated, ghosts>>

\* Probe reaches the place only when it knows its host.
Probe ==
    /\ Within("probe", "enter")
    /\ ~contained
    /\ census.bound
    /\ census' = [census EXCEPT !.observed = ClassifyInventory(census.cohort, place)]
    /\ inventoried' = place
    /\ Done
    /\ UNCHANGED <<world, antenna, files, delegated, printed, resolved, named>>

\* post: what Antenna receives, it runs, completely or not, preserving it or
\* something else; the answer is lost, or it names a receipt and a digest, those
\* of this run or others, and is kept without a look at what was posted.  A
\* restarted census that passed over resolve names no contract, and has nothing
\* to record.
Record ==
    /\ Within("record", "enter")
    /\ ~contained
    /\ census.bound \/ Open
    /\ \E receipt \in Receipts \ {Foreign}, status \in {"completed", "failed"},
          digest \in {Payload(census), AnotherPayload} :
          antenna' = antenna \cup
              {[receipt |-> receipt, status |-> status, digest |-> digest]}
    /\ \/ /\ \E receipt \in Receipts, digest \in {Payload(census), AnotherPayload, None} :
                /\ census' = [census EXCEPT !.receipt = receipt, !.digest = digest]
                /\ named' = digest
          /\ Done
       \/ Leave /\ census' = Forgotten /\ UNCHANGED <<phase, named>>
    /\ UNCHANGED <<world, files, delegated, printed, resolved, inventoried>>

Reconciled ==
    /\ Within("reconcile", "enter")
    /\ ~contained
    /\ census.verified
    /\ LET discrepancies == Reconcile(census.cohort, census.observed)
       IN answer' = [cohort |-> census.cohort, receipt |-> census.receipt,
                     discrepancies |-> discrepancies, cards |-> Attention(discrepancies)]
    /\ census' = [census EXCEPT !.outcome = "verified"]
    /\ Done
    /\ UNCHANGED <<world, antenna, saved, decision, delegated, ghosts>>

\* The stage file is written, and is all that Verify asks for, ...
SaveStage ==
    /\ invoking
    /\ phase = "save"
    /\ saved' = saved \cup {CensusGraph[at]}
    /\ IF CensusGraph[at] = "record" /\ ~contained
       THEN phase' = "verify" /\ UNCHANGED steps
       ELSE phase' = "enter" /\ Advance
    /\ UNCHANGED <<world, antenna, census, answer, decision, delegated, ghosts>>

\* ... except of a recorded observation, which is retrieved.
VerifyRecord ==
    /\ Within("record", "verify")
    /\ receiptMatches(antenna, census.receipt, census.digest)
    /\ census' = [census EXCEPT !.verified = TRUE]
    /\ phase' = "enter"
    /\ Advance
    /\ UNCHANGED <<world, antenna, files, delegated, ghosts>>

\* The command reports what its memory says and exits.
Report ==
    /\ Finished
    /\ printed' = printed \cup {census.outcome}
    /\ Leave
    /\ census' = Forgotten
    /\ UNCHANGED <<phase, world, antenna, files, delegated, resolved, inventoried, named>>

\* Its memory goes with the process.
Crash ==
    /\ Leave
    /\ census' = Forgotten
    /\ phase' = "enter"
    /\ UNCHANGED <<world, antenna, files, delegated, ghosts>>

\* The Registry and the place are others' to change.
Change ==
    /\ changes < MaxChanges
    /\ changes' = changes + 1
    /\ \/ registry' \in SUBSET Recognized \ {registry} /\ UNCHANGED place
       \/ place' \in SUBSET Entries \ {place} /\ UNCHANGED registry
    /\ UNCHANGED <<steps, phase, antenna, census, files,
                   delegated, ghosts>>

Next ==
    \/ Begin \/ Step \/ ResolveFrozen \/ ResolveContained \/ Skip \/ Probe \/ Record
    \/ Reconciled \/ SaveStage \/ VerifyRecord \/ Report \/ Crash \/ Change

Spec == Init /\ [][Next]_vars
-----------------------------------------------------------------------------
(* Properties. *)

\* Every variable has its type; what a sweep saw and returned is of the six
\* classes, about members and unrecognized directories.
TypeOK ==
    /\ StepsTypeOK
    /\ phase \in {"enter", "save", "verify"}
    /\ registry \subseteq Recognized /\ place \subseteq Entries
    /\ changes \in 0 .. MaxChanges
    /\ census.outcome \in {"none", "contained", "verified"}
    /\ census.cohort \subseteq Recognized
    /\ census.observed \subseteq Observations
    /\ census.receipt \in {None} \cup Receipts
    /\ saved \subseteq Range(CensusGraph)
    /\ answer \in {None} \cup Returns
    /\ {decision, delegated, census.verified, census.bound} \subseteq BOOLEAN
    /\ printed \subseteq {"none", "contained", "verified"}

\* A sweep that is returned as verified stands on a completed run that Antenna
\* has preserved under the returned receipt, of the payload Antenna named when it
\* took the record; unless Antenna itself named another payload there, that is the
\* cohort and the observations that were reconciled.  One that is returned as
\* contained has seen, recorded and reconciled nothing, in whatever processes
\* worked on it, and has left the Direction decision its mandate asks for
\* (census.go:355, 366, 396, 412-450, 513).
ReturnIsEarned ==
    /\ "verified" \in printed => answer # None
    /\ answer # None =>
        LET observed == ClassifyInventory(answer.cohort, inventoried)
        IN /\ [receipt |-> answer.receipt, status |-> "completed", digest |-> named] \in antenna
           /\ named # AnotherPayload =>
                named = Payload([cohort |-> answer.cohort, observed |-> observed])
           /\ answer.discrepancies = Reconcile(answer.cohort, observed)
    /\ "contained" \in printed =>
        /\ answer = None /\ inventoried = None
        /\ antenna = Untouched
        /\ decision = delegated

\* A member that shares its directory's name with no other is expected-absent
\* only if its directory was not there.
Alone(m, cohort) == \A n \in cohort \ {m} : NameOf[n] # NameOf[m]

\* Whatever one observation says, absence needs a conclusive one, prohibition a
\* rule, and no member goes unmentioned.
Cautious(cohort, o) ==
    LET discrepancies == Reconcile(cohort, {o})
    IN /\ \A d \in discrepancies :
            /\ d.class = "expected-absent" => d.id = o.id /\ o.conclusive /\ ~o.present
            /\ d.class = "present-prohibited" => d.id = o.id /\ o.present /\ o.rule
            /\ d.class = "unrecognized-present" => d.id \notin {Subject(m) : m \in cohort}
       /\ \A m \in cohort : \E d \in discrepancies : d.id = Subject(m)

ReconcilesCautiously ==
    \A cohort \in SUBSET Recognized, o \in Observations : Cautious(cohort, o)

\* The returned classes are true of the place as it was inventoried and of the
\* cohort as the Registry gave it to this occurrence, however the two have
\* changed since (census.go:200-245, cohort.go:60-65).
ClassesAreHonest ==
    answer # None =>
        /\ answer.cohort = resolved
        /\ \A m \in answer.cohort :
            LET of == {d \in answer.discrepancies : d.id = Subject(m)}
            IN /\ of # {}
               /\ Alone(m, answer.cohort) =>
                    of = {[id |-> Subject(m),
                           class |-> IF NameOf[m] \in inventoried THEN "recognized-expected"
                                     ELSE "expected-absent"]}
        /\ \A e \in Entries :
            (\E d \in answer.discrepancies : d.id = Unrecognized(e))
                <=> e \in inventoried \ {NameOf[m] : m \in resolved}
        /\ ReconcilesCautiously

=============================================================================
