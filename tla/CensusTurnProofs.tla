--------------------------- MODULE CensusTurnProofs ---------------------------
(***************************************************************************)
(* Theorems about CensusTurn for any members, directories and receipts,    *)
(* any changes of the Registry and the place, and any number of restarts.  *)
(***************************************************************************)
EXTENDS CensusTurn, TLAPS

\* The journal's state of the i-th step.
Rec(i) == record["census"][CensusGraph[i]]

LEMMA GraphFacts ==
    /\ Len(CensusGraph) = 4
    /\ \A i \in 1 .. 4 : CensusGraph[i] \in Steps
    /\ \A i, j \in 1 .. 4 : CensusGraph[i] = CensusGraph[j] => i = j
    /\ CensusGraph[1] = "resolve" /\ CensusGraph[2] = "probe"
    /\ CensusGraph[3] = "record" /\ CensusGraph[4] = "reconcile"
  BY DEF CensusGraph, Steps

LEMMA Places ==
    /\ Invoking("resolve") <=> invoking /\ at = 1
    /\ Invoking("probe") <=> invoking /\ at = 2
    /\ Invoking("record") <=> invoking /\ at = 3
    /\ Invoking("reconcile") <=> invoking /\ at = 4
  <1>1. at \in 1 .. 4 =>
          /\ CensusGraph[at] = "resolve" <=> at = 1
          /\ CensusGraph[at] = "probe" <=> at = 2
          /\ CensusGraph[at] = "record" <=> at = 3
          /\ CensusGraph[at] = "reconcile" <=> at = 4
    BY GraphFacts
  <1> QED
    BY <1>1, GraphFacts DEF Invoking

-----------------------------------------------------------------------------
(* The journal keeps the order of the stages.                              *)

OrderInv ==
    /\ StepsTypeOK
    /\ turn = "census"
    /\ \A i, j \in 1 .. 4 : i < j /\ Rec(j) # "none" => Rec(i) = "verified"
    /\ \A i \in 1 .. 4 : i < at => Rec(i) = "verified"
    /\ invoking => at \in 1 .. 4 /\ Rec(at) = "held"

\* Every step takes the step machine along one of its own moves, or leaves it.
LEMMA StepMoves ==
    ASSUME [Next]_vars, invoking => at \in 1 .. 4
    PROVE  \/ Begin /\ Start("census")
           \/ Step /\ (PassOver \/ Refuse \/ Dispatch)
           \/ Leave
           \/ (SaveStage \/ VerifyRecord) /\ invoking /\ at \in 1 .. 4 /\ Advance
           \/ UNCHANGED steps
  <1>1. CASE Begin \/ Step \/ Report \/ Crash
    BY <1>1 DEF Begin, Step, Report, Crash
  <1>2. CASE ResolveFrozen \/ ResolveContained \/ Skip \/ Probe \/ Reconciled \/ Change \/ UNCHANGED vars
    BY <1>2 DEF ResolveFrozen, ResolveContained, Skip, Probe, Reconciled, Change, Done, vars
  <1>3. CASE Record
    BY <1>3 DEF Record, Done
  <1>4. CASE SaveStage
    BY <1>4 DEF SaveStage
  <1>5. CASE VerifyRecord
    BY <1>5 DEF VerifyRecord, Within, Invoking
  <1> QED
    BY <1>1, <1>2, <1>3, <1>4, <1>5 DEF Next

LEMMA OrderInit == Init => OrderInv
  <1> SUFFICES ASSUME Init PROVE OrderInv
    OBVIOUS
  <1>1. at \in 0 .. Len(CensusGraph) + 1 /\ runs \in 0 .. MaxRuns /\ at = 0 /\ ~invoking /\ turn = "census"
    BY CensusAssumption, GraphFacts DEF Init, StepsInit
  <1>2. record = [t \in {"census"} |-> [s \in Steps |-> "none"]]
    BY DEF Init, StepsInit
  <1>3. \A i \in 1 .. 4 : Rec(i) = "none"
    BY <1>2, GraphFacts DEF Rec
  <1>4. invoking \in BOOLEAN
    BY Zenon DEF Init, StepsInit
  <1>5. record \in [{"census"} -> [Steps -> {"none", "held", "verified"}]]
    BY <1>2
  <1> QED
    BY <1>1, <1>3, <1>4, <1>5 DEF OrderInv, StepsTypeOK

LEMMA OrderStep ==
    ASSUME OrderInv, [Next]_vars
    PROVE  OrderInv'
  <1> USE GraphFacts, CensusAssumption
  <1>0. /\ record \in [{"census"} -> [Steps -> {"none", "held", "verified"}]]
        /\ at \in 0 .. 5 /\ runs \in 0 .. MaxRuns /\ invoking \in BOOLEAN /\ turn = "census"
        /\ invoking => at \in 1 .. 4
    BY DEF OrderInv, StepsTypeOK
  <1>1. CASE Start("census")
    BY <1>0, <1>1 DEF Start, OrderInv, StepsTypeOK, Rec
  <1>2. CASE PassOver
    <2>1. Rec(at) = "verified" /\ at \in 1 .. 4 /\ at' = at + 1 /\ ~invoking
          /\ UNCHANGED <<record, runs, turn, invoking>>
      BY <1>0, <1>2 DEF PassOver, Reaching, Rec
    <2>2. invoking' \in BOOLEAN
      BY <1>0, <2>1, Zenon
    <2> QED
      BY <1>0, <2>1, <2>2 DEF OrderInv, StepsTypeOK, Rec
  <1>3. CASE Refuse \/ Leave
    <2>1. at' = 0 /\ UNCHANGED <<record, runs, turn>> /\ (invoking' = FALSE \/ UNCHANGED invoking) /\ ~invoking'
      BY <1>3 DEF Refuse, Leave, Reaching
    <2>2. invoking' \in BOOLEAN
      BY <1>0, <2>1, Zenon
    <2> QED
      BY <1>0, <2>1, <2>2 DEF OrderInv, StepsTypeOK, Rec
  <1>4. ASSUME NEW s \in {"held", "verified"},
               at \in 1 .. 4, Rec(at) # "verified",
               record' = [record EXCEPT !["census"][CensusGraph[at]] = s],
               UNCHANGED <<runs, turn>>, invoking' \in BOOLEAN,
               \/ at' = at /\ invoking' /\ s = "held"
               \/ at' = at + 1 /\ ~invoking' /\ s = "verified"
        PROVE  OrderInv'
    <2>1. record' \in [{"census"} -> [Steps -> {"none", "held", "verified"}]]
      BY <1>0, <1>4
    <2>2. \A i \in 1 .. 4 : record'["census"][CensusGraph[i]] = IF i = at THEN s ELSE Rec(i)
      BY <1>0, <1>4 DEF Rec
    <2>3. \A i \in 1 .. 4 : i < at => Rec(i) = "verified"
      BY DEF OrderInv
    <2>4. \A j \in 1 .. 4 : j > at => Rec(j) = "none"
      BY <1>0, <1>4 DEF OrderInv, Rec
    <2>5. \A i, j \in 1 .. 4 : i < j /\ record'["census"][CensusGraph[j]] # "none"
            => record'["census"][CensusGraph[i]] = "verified"
      BY <1>4, <2>2, <2>3, <2>4 DEF OrderInv
    <2>6. \A i \in 1 .. 4 : i < at' => record'["census"][CensusGraph[i]] = "verified"
      BY <1>4, <2>2, <2>3
    <2>7. invoking' => at' \in 1 .. 4 /\ record'["census"][CensusGraph[at']] = "held"
      BY <1>4, <2>2
    <2> QED
      BY <1>0, <1>4, <2>1, <2>5, <2>6, <2>7 DEF OrderInv, StepsTypeOK, Rec
  <1>5. CASE Dispatch
    BY <1>0, <1>4, <1>5 DEF Dispatch, Reaching, Rec
  <1>6. CASE invoking /\ at \in 1 .. 4 /\ Advance
    BY <1>0, <1>4, <1>6 DEF Advance, OrderInv
  <1>7. CASE UNCHANGED steps
    BY <1>7 DEF steps, OrderInv, StepsTypeOK, Rec
  <1> QED
    BY <1>0, <1>1, <1>2, <1>3, <1>5, <1>6, <1>7, StepMoves

\* The journal's states are where they were.
Kept == \A i \in 1 .. 4 : Rec(i)' = Rec(i)

\* The step at hand enters the given state, the others are where they were.
Marks(s) == \A i \in 1 .. 4 : Rec(i)' = IF i = at THEN s ELSE Rec(i)

\* What each move does to the place in the graph and to the journal.
LEMMA Moves ==
    ASSUME OrderInv
    PROVE  /\ at \in 0 .. 5 /\ (invoking => at \in 1 .. 4)
           /\ Start("census") => at = 0 /\ at' = 1 /\ ~invoking' /\ Kept
           /\ PassOver => at \in 1 .. 4 /\ Rec(at) = "verified" /\ ~invoking
                          /\ at' = at + 1 /\ ~invoking' /\ Kept
           /\ Refuse \/ Leave => at' = 0 /\ ~invoking' /\ Kept
           /\ Dispatch => at \in 1 .. 4 /\ Rec(at) = "none" /\ ~invoking
                          /\ at' = at /\ invoking' /\ Marks("held")
           /\ invoking /\ Advance => at' = at + 1 /\ ~invoking' /\ Marks("verified")
           /\ UNCHANGED steps => at' = at /\ (invoking' <=> invoking) /\ Kept
  <1>0. /\ at \in 0 .. 5 /\ (invoking => at \in 1 .. 4) /\ turn = "census"
        /\ record \in [{"census"} -> [Steps -> {"none", "held", "verified"}]]
    BY GraphFacts DEF OrderInv, StepsTypeOK
  <1>1. Start("census") => at = 0 /\ at' = 1 /\ ~invoking' /\ Kept
    BY <1>0 DEF Start, Kept, Rec
  <1>2. PassOver => at \in 1 .. 4 /\ Rec(at) = "verified" /\ ~invoking
                    /\ at' = at + 1 /\ ~invoking' /\ Kept
    BY <1>0, GraphFacts DEF PassOver, Reaching, Kept, Rec
  <1>3. Refuse \/ Leave => at' = 0 /\ ~invoking' /\ Kept
    <2>1. CASE Refuse
      BY <2>1 DEF Refuse, Reaching, Kept, Rec
    <2>2. CASE Leave
      BY <2>2 DEF Leave, Kept, Rec
    <2> QED
      BY <2>1, <2>2
  <1>4. ASSUME NEW s, at \in 1 .. 4, record' = [record EXCEPT !["census"][CensusGraph[at]] = s]
        PROVE  Marks(s)
    BY <1>0, <1>4, GraphFacts DEF Marks, Rec
  <1>5. Dispatch => at \in 1 .. 4 /\ Rec(at) = "none" /\ ~invoking
                    /\ at' = at /\ invoking' /\ Marks("held")
    BY <1>0, <1>4, GraphFacts DEF Dispatch, Reaching, Rec
  <1>6. invoking /\ Advance => at' = at + 1 /\ ~invoking' /\ Marks("verified")
    BY <1>0, <1>4 DEF Advance
  <1>7. UNCHANGED steps => at' = at /\ (invoking' <=> invoking) /\ Kept
    <2>1. UNCHANGED steps => record' = record /\ at' = at
      BY DEF steps
    <2>2. UNCHANGED steps => (invoking' <=> invoking)
      <3>1. UNCHANGED steps => invoking' = invoking
        BY DEF steps
      <3> QED
        BY <3>1, Zenon
    <2>3. record' = record => Kept
      BY DEF Kept, Rec
    <2> QED
      BY <2>1, <2>2, <2>3, Zenon
  <1> QED
    BY <1>0, <1>1, <1>2, <1>3, <1>5, <1>6, <1>7, Zenon

-----------------------------------------------------------------------------
(* What a sweep computes is of the types it announces.                     *)

LEMMA MembersAre == \A i \in DOMAIN Members : Members[i] \in Recognized
  BY DEF Recognized, Range

LEMMA Sighted ==
    ASSUME NEW subject \in Subjects, NEW present \in BOOLEAN
    PROVE  Seen(subject, present) \in Observations
  BY DEF Seen, Observations

LEMMA InventoryTyped ==
    ASSUME NEW C \in SUBSET Recognized, NEW E \in SUBSET Entries
    PROVE  ClassifyInventory(C, E) \in SUBSET Observations
  <1>1. ASSUME NEW i \in DOMAIN Members
        PROVE  Seen(Subject(Members[i]), NameOf[Members[i]] \in E /\ ~Taken(C, i)) \in Observations
    <2>1. Subject(Members[i]) \in Subjects
      BY MembersAre DEF Subjects
    <2>2. (NameOf[Members[i]] \in E /\ ~Taken(C, i)) \in BOOLEAN
      OBVIOUS
    <2> QED
      BY <2>1, <2>2, Sighted
  <1>2. ASSUME NEW e \in E
        PROVE  Seen(Unrecognized(e), TRUE) \in Observations
    BY Sighted DEF Subjects
  <1> QED
    BY <1>1, <1>2 DEF ClassifyInventory

LEMMA ClassTyped ==
    ASSUME NEW o \in Observations, NEW recognized \in BOOLEAN
    PROVE  Class(o, recognized) \in Classes \cup {"none"}
  BY DEF Class, Classes, Observations

LEMMA ReconcileTyped ==
    ASSUME NEW C \in SUBSET Recognized, NEW O \in SUBSET Observations
    PROVE  Reconcile(C, O) \in SUBSET Discrepancies
  <1> DEFINE expected == {Subject(m) : m \in C}
             classes == {[id |-> o.id, class |-> Class(o, o.id \in expected)] : o \in O}
  <1>1. ASSUME NEW c \in classes, c.class # "none"
        PROVE  c \in Discrepancies
    <2>1. PICK o \in O : c = [id |-> o.id, class |-> Class(o, o.id \in expected)]
      OBVIOUS
    <2>2. Class(o, o.id \in expected) \in Classes \cup {"none"}
      <3> HIDE DEF expected
      <3>1. (o.id \in expected) \in BOOLEAN
        OBVIOUS
      <3> QED
        BY <3>1, ClassTyped
    <2>3. o.id \in Subjects
      BY DEF Observations
    <2> QED
      BY <1>1, <2>1, <2>2, <2>3 DEF Discrepancies
  <1>2. ASSUME NEW s \in expected
        PROVE  [id |-> s, class |-> "unknown"] \in Discrepancies
    BY DEF Discrepancies, Classes, Subjects
  <1>3. Reconcile(C, O) = {c \in classes : c.class # "none"}
            \cup {[id |-> s, class |-> "unknown"] : s \in expected \ {o.id : o \in O}}
    BY DEF Reconcile
  <1> HIDE DEF classes, expected
  <1> QED
    BY <1>1, <1>2, <1>3

LEMMA AttentionTyped ==
    ASSUME NEW D \in SUBSET Discrepancies
    PROVE  Attention(D) \in SUBSET [subject : Subjects, salience : {1, 2}]
  BY DEF Attention, Discrepancies

-----------------------------------------------------------------------------
(* The types, with the fields the type invariant leaves open.              *)

Digests ==
    {None, AnotherPayload} \cup {"occurrence"} \X (SUBSET Recognized) \X (SUBSET Observations)

Censuses ==
    [outcome : {"none", "contained", "verified"}, bound : BOOLEAN,
     cohort : SUBSET Recognized, observed : SUBSET Observations,
     receipt : {None} \cup Receipts, digest : Digests, verified : BOOLEAN]

SweepInv ==
    /\ phase \in {"enter", "save", "verify"}
    /\ registry \subseteq Recognized /\ place \subseteq Entries
    /\ changes \in 0 .. MaxChanges
    /\ census \in Censuses
    /\ saved \subseteq Range(CensusGraph)
    /\ answer \in {None} \cup Returns
    /\ decision \in BOOLEAN /\ delegated \in BOOLEAN
    /\ printed \subseteq {"none", "contained", "verified"}

TypeInv == OrderInv /\ SweepInv

LEMMA SweepInit == Init => SweepInv
  <1> SUFFICES ASSUME Init PROVE SweepInv
    OBVIOUS
  <1>1. census \in Censuses
    BY DEF Init, Forgotten, Censuses, Digests
  <1>2. decision \in BOOLEAN /\ delegated \in BOOLEAN
    BY CensusAssumption, Zenon DEF Init
  <1>3. /\ phase = "enter" /\ registry \subseteq Recognized /\ place \subseteq Entries
        /\ changes \in 0 .. MaxChanges /\ saved = {} /\ answer = None /\ printed = {}
    BY CensusAssumption DEF Init
  <1> QED
    BY <1>1, <1>2, <1>3 DEF SweepInv

LEMMA SweepStep ==
    ASSUME TypeInv, [Next]_vars
    PROVE  SweepInv'
  <1> USE DEF TypeInv, SweepInv
  <1>0. /\ census \in Censuses /\ decision \in BOOLEAN /\ delegated \in BOOLEAN
        /\ (invoking => at \in 1 .. 4)
    BY DEF OrderInv
  <1>f. Forgotten \in Censuses
    BY DEF Forgotten, Censuses, Digests
  <1>1. CASE Begin \/ Crash
    <2>1. census' \in Censuses
      BY <1>1, <1>f DEF Begin, Crash
    <2>2. decision' \in BOOLEAN /\ delegated' \in BOOLEAN
      BY <1>1, Zenon DEF Begin, Crash, files
    <2> QED
      BY <1>1, <2>1, <2>2 DEF Begin, Crash, world, files, ghosts
  <1>2. CASE Step \/ Skip \/ Change \/ UNCHANGED vars
    <2>1. decision' \in BOOLEAN /\ delegated' \in BOOLEAN /\ UNCHANGED <<census, saved, answer, printed>>
      BY <1>2, Zenon DEF Step, Skip, Change, files, ghosts, vars
    <2> QED
      BY <1>2, <2>1, CensusAssumption DEF Step, Skip, Change, world, files, ghosts, vars, Done
  <1>3. CASE ResolveFrozen \/ ResolveContained \/ Probe
    <2>1. decision' \in BOOLEAN /\ delegated' \in BOOLEAN
      BY <1>3, <1>0, Zenon DEF ResolveFrozen, ResolveContained, Probe, files
    <2>2. census' \in Censuses
      <3>1. CASE ResolveFrozen
        BY <3>1 DEF ResolveFrozen, Censuses
      <3>2. CASE ResolveContained
        BY <3>2 DEF ResolveContained, Censuses
      <3>3. CASE Probe
        <4>1. ClassifyInventory(census.cohort, place) \in SUBSET Observations
          BY InventoryTyped DEF Censuses
        <4> QED
          BY <3>3, <4>1 DEF Probe, Censuses
      <3> QED
        BY <1>3, <3>1, <3>2, <3>3
    <2>3. UNCHANGED <<world, saved, answer, printed>> /\ phase' = "save"
      BY <1>3 DEF ResolveFrozen, ResolveContained, Probe, files, ghosts, Done
    <2> QED
      BY <2>1, <2>2, <2>3 DEF world
  <1>4. CASE Record
    <2>1. decision' \in BOOLEAN /\ delegated' \in BOOLEAN
      BY <1>4, Zenon DEF Record, files
    <2>2. {Payload(census), AnotherPayload, None} \subseteq Digests
      BY DEF Payload, Digests, Censuses
    <2>3. census' \in Censuses /\ phase' \in {"enter", "save", "verify"}
      <3>1. ASSUME NEW r \in Receipts, NEW d \in Digests,
                   census' = [census EXCEPT !.receipt = r, !.digest = d]
            PROVE  census' \in Censuses
        BY <3>1 DEF Censuses
      <3>2. \/ /\ \E r \in Receipts, d \in Digests :
                    census' = [census EXCEPT !.receipt = r, !.digest = d]
               /\ phase' = "save"
            \/ census' = Forgotten /\ UNCHANGED phase
        BY <1>4, <2>2 DEF Record, Done
      <3> QED
        BY <1>f, <3>1, <3>2
    <2>4. UNCHANGED <<world, saved, answer, printed>>
      BY <1>4 DEF Record, files
    <2> QED
      BY <2>1, <2>3, <2>4 DEF world
  <1>5. CASE Reconciled
    <2>1. decision' \in BOOLEAN /\ delegated' \in BOOLEAN
      BY <1>5, Zenon DEF Reconciled
    <2>2. census' \in Censuses
      BY <1>5 DEF Reconciled, Censuses
    <2>3. Reconcile(census.cohort, census.observed) \in SUBSET Discrepancies
      BY ReconcileTyped DEF Censuses
    <2>4. answer' \in Returns
      BY <1>5, <2>3, AttentionTyped DEF Reconciled, Returns, Censuses
    <2>5. UNCHANGED <<world, saved, printed>> /\ phase' = "save"
      BY <1>5 DEF Reconciled, ghosts, Done
    <2> QED
      BY <2>1, <2>2, <2>4, <2>5 DEF world
  <1>6. CASE SaveStage
    <2>1. decision' \in BOOLEAN /\ delegated' \in BOOLEAN
      BY <1>6, Zenon DEF SaveStage
    <2>2. UNCHANGED <<world, answer, printed, census>> /\ phase' \in {"enter", "save", "verify"}
      BY <1>6 DEF SaveStage, ghosts
    <2>3. saved' \subseteq Range(CensusGraph)
      BY <1>0, <1>6, GraphFacts DEF SaveStage, Range
    <2> QED
      BY <2>1, <2>2, <2>3 DEF world
  <1>7. CASE VerifyRecord \/ Report
    <2>1. decision' \in BOOLEAN /\ delegated' \in BOOLEAN
      BY <1>7, Zenon DEF VerifyRecord, Report, files
    <2>2. census' \in Censuses /\ phase' \in {"enter", "save", "verify"}
      BY <1>7, <1>f DEF VerifyRecord, Report, Censuses
    <2>3. census.outcome \in {"none", "contained", "verified"}
      BY DEF Censuses
    <2>4. UNCHANGED <<world, saved, answer>> /\ printed' \subseteq printed \cup {census.outcome}
      BY <1>7 DEF VerifyRecord, Report, files, ghosts
    <2> QED
      BY <2>1, <2>2, <2>3, <2>4 DEF world
  <1> QED
    BY <1>1, <1>2, <1>3, <1>4, <1>5, <1>6, <1>7 DEF Next

LEMMA TypeInvariant == Spec => []TypeInv
  <1>1. Init => TypeInv
    BY OrderInit, SweepInit DEF TypeInv
  <1>2. TypeInv /\ [Next]_vars => TypeInv'
    BY OrderStep, SweepStep DEF TypeInv
  <1> QED
    BY <1>1, <1>2, PTL DEF Spec

\* Every variable keeps its type, for any members, directories and receipts:
\* the return holds discrepancies of the six classes about members and
\* unrecognized directories only.
THEOREM TypeCorrect == Spec => []TypeOK
  <1>1. TypeInv => TypeOK
    <2> SUFFICES ASSUME TypeInv PROVE TypeOK
      OBVIOUS
    <2>1. /\ census.outcome \in {"none", "contained", "verified"}
          /\ census.cohort \subseteq Recognized /\ census.observed \subseteq Observations
          /\ census.receipt \in {None} \cup Receipts
      BY DEF TypeInv, SweepInv, Censuses
    <2>2. {decision, delegated, census.verified, census.bound} \subseteq BOOLEAN
      BY DEF TypeInv, SweepInv, Censuses
    <2> QED
      BY <2>1, <2>2 DEF TypeInv, SweepInv, OrderInv, TypeOK
  <1> QED
    BY <1>1, TypeInvariant, PTL

-----------------------------------------------------------------------------
(* A sweep keeps what it bound, saw and recorded until it is returned; a   *)
(* process that takes over from another has none of it, and cannot record. *)

Run(receipt, digest) == [receipt |-> receipt, status |-> "completed", digest |-> digest]

\* Whatever Antenna named, it is this payload or it says itself that it is not.
NamedIs(payload) == named \in {None, AnotherPayload, payload}

PhaseInv ==
    /\ at # 0 /\ ~invoking => phase = "enter"
    /\ phase = "verify" /\ at # 0 => at = 3 /\ ~contained
    /\ at = 1 /\ phase = "enter" => census = Forgotten

\* A process that bound a cohort or was contained did so itself, and is the
\* first to come to the steps ahead.
FreshInv ==
    at # 0 /\ (census.bound \/ contained) =>
        \A i \in 1 .. 4 : (i > at \/ (i = at /\ ~invoking)) => Rec(i) = "none"

\* What no step has been dispatched for has not happened.
BlankInv ==
    /\ (Rec(1) = "none" \/ (at = 1 /\ invoking /\ phase = "enter")) => ~decision
    /\ Rec(2) = "none" => inventoried = None
    /\ Rec(3) = "none" => antenna = Untouched
    /\ Rec(4) = "none" => answer = None

NothingDone ==
    decision = delegated /\ inventoried = None /\ antenna = Untouched /\ answer = None

ContainedInv == at # 0 /\ contained => ~census.bound /\ ~census.verified /\ NothingDone

Observed(cohort) == inventoried \in SUBSET Entries /\ cohort \in SUBSET Recognized

BoundInv ==
    at # 0 /\ census.bound =>
        /\ census.cohort = resolved
        /\ at > 2 \/ (at = 2 /\ phase = "save") =>
            /\ Observed(census.cohort)
            /\ census.observed = ClassifyInventory(census.cohort, inventoried)
        /\ at > 3 \/ (at = 3 /\ phase # "enter") =>
            census.digest = named /\ NamedIs(Payload(census))

RecordInv ==
    /\ at = 3 /\ phase # "enter" => census.bound \/ contained
    /\ at # 0 /\ census.verified =>
        /\ census.bound /\ at > 3
        /\ named # None /\ Run(census.receipt, named) \in antenna
    /\ \A run \in antenna :
        run = [receipt |-> run.receipt, status |-> run.status, digest |-> run.digest]

AnswerInv ==
    /\ answer # None =>
        /\ Observed(answer.cohort) /\ answer.cohort = resolved
        /\ named # None /\ Run(answer.receipt, named) \in antenna
        /\ NamedIs(Payload([cohort |-> answer.cohort,
                            observed |-> ClassifyInventory(answer.cohort, inventoried)]))
        /\ answer.discrepancies =
            Reconcile(answer.cohort, ClassifyInventory(answer.cohort, inventoried))
    /\ at # 0 /\ census.outcome = "verified" => answer # None

PrintedInv ==
    /\ printed # {} => Rec(4) = "verified"
    /\ "verified" \in printed => answer # None
    /\ "contained" \in printed => NothingDone

EarnedInv ==
    PhaseInv /\ FreshInv /\ BlankInv /\ ContainedInv /\ BoundInv /\ RecordInv
        /\ AnswerInv /\ PrintedInv

LEMMA EarnedInit == Init => EarnedInv
  <1> SUFFICES ASSUME Init PROVE EarnedInv
    OBVIOUS
  <1>1. at = 0 /\ answer = None /\ inventoried = None /\ antenna = Untouched /\ printed = {}
    BY DEF Init, StepsInit, Untouched
  <1>2. ~decision
    BY Zenon DEF Init
  <1>3. \A run \in antenna :
            run = [receipt |-> run.receipt, status |-> run.status, digest |-> run.digest]
    BY <1>1 DEF Untouched
  <1> QED
    BY <1>1, <1>2, <1>3 DEF EarnedInv, PhaseInv, FreshInv, BlankInv, ContainedInv, BoundInv,
       RecordInv, AnswerInv, PrintedInv

Sweep == <<census, antenna, answer, decision, delegated, resolved, inventoried, named, printed>>

\* A process that starts, or goes away.
LEMMA EarnedRestart ==
    ASSUME TypeInv, EarnedInv,
           \/ Begin
           \/ Crash
           \/ (Refuse /\ UNCHANGED Sweep)
    PROVE  EarnedInv'
  <1> USE DEF EarnedInv
  <1>1. Kept /\ at' \in {0, 1} /\ (at' = 1 => phase' = "enter" /\ census' = Forgotten) /\ ~invoking'
    BY Moves DEF TypeInv, Begin, Crash
  <1>2. UNCHANGED <<antenna, answer, decision, delegated, resolved, inventoried, named, printed>>
    BY DEF Begin, Crash, Sweep, files, ghosts
  <1>3. PhaseInv'
    BY <1>1, <1>2 DEF PhaseInv
  <1>4. FreshInv' /\ ContainedInv' /\ BoundInv'
    BY <1>1 DEF FreshInv, ContainedInv, BoundInv, Forgotten, contained
  <1>5. BlankInv'
    BY <1>1, <1>2 DEF BlankInv, Kept
  <1>6. RecordInv' /\ AnswerInv' /\ PrintedInv'
    BY <1>1, <1>2 DEF RecordInv, AnswerInv, PrintedInv, NothingDone, Observed, NamedIs, Forgotten, Kept
  <1> QED
    BY <1>3, <1>4, <1>5, <1>6

\* A process that passes over a step, or dispatches one.
LEMMA EarnedReach ==
    ASSUME TypeInv, EarnedInv, PassOver \/ Dispatch, phase' = "enter", UNCHANGED Sweep
    PROVE  EarnedInv'
  <1> USE DEF EarnedInv
  <1>1. at \in 1 .. 4 /\ ~invoking /\ at' \in 1 .. 5
    BY Moves DEF TypeInv
  <1>2. phase = "enter" /\ UNCHANGED <<census, antenna, answer, decision, delegated, resolved,
                                        inventoried, named, printed>>
    BY <1>1 DEF PhaseInv, Sweep
  <1>3. (at' = at /\ invoking' /\ Rec(at) = "none" /\ Marks("held"))
        \/ (at' = at + 1 /\ ~invoking' /\ Rec(at) = "verified" /\ Kept)
    BY Moves DEF TypeInv
  <1>4. PhaseInv'
    BY <1>1, <1>2, <1>3 DEF PhaseInv, contained
  <1>5. FreshInv'
    BY <1>1, <1>2, <1>3 DEF FreshInv, Kept, Marks, contained
  <1>6. census.bound => at' = at
    BY <1>1, <1>3 DEF FreshInv
  <1>7. BoundInv' /\ RecordInv'
    BY <1>1, <1>2, <1>3, <1>6 DEF BoundInv, RecordInv, Observed, NamedIs, contained
  <1>8. BlankInv'
    BY <1>1, <1>2, <1>3 DEF BlankInv, Kept, Marks
  <1>9. ContainedInv' /\ AnswerInv' /\ PrintedInv'
    BY <1>1, <1>2, <1>3 DEF ContainedInv, AnswerInv, PrintedInv, NothingDone, Observed, NamedIs, contained, Kept, Marks
  <1> QED
    BY <1>4, <1>5, <1>7, <1>8, <1>9

LEMMA EarnedResolve ==
    ASSUME TypeInv, EarnedInv, ResolveFrozen \/ ResolveContained
    PROVE  EarnedInv'
  <1> USE DEF EarnedInv
  <1>1. /\ at = 1 /\ invoking /\ phase = "enter" /\ census = Forgotten
        /\ phase' = "save" /\ UNCHANGED <<steps, antenna, answer, delegated, inventoried, named, printed>>
    BY Places DEF ResolveFrozen, ResolveContained, Within, Done, PhaseInv, ghosts, files
  <1>2. at' = 1 /\ invoking' /\ Kept
    BY <1>1, Moves DEF TypeInv
  <1>3. \A i \in 2 .. 4 : Rec(i) = "none"
    BY <1>1 DEF TypeInv, OrderInv
  <1>4. Rec(1) = "held"
    BY <1>1 DEF TypeInv, OrderInv
  <1>5. inventoried = None /\ antenna = Untouched /\ answer = None /\ ~decision
    BY <1>1, <1>3 DEF BlankInv
  <1>6. CASE ResolveFrozen
    <2>1. census' = [Forgotten EXCEPT !.cohort = registry, !.bound = TRUE] /\ resolved' = registry
          /\ decision' = decision
      BY <1>1, <1>6 DEF ResolveFrozen, files
    <2>2. census'.bound /\ census'.outcome = "none" /\ ~census'.verified /\ census'.cohort = resolved'
      BY <2>1 DEF Forgotten
    <2> QED
      BY <1>1, <1>2, <1>3, <1>4, <1>5, <2>1, <2>2 DEF PhaseInv, FreshInv, BlankInv, ContainedInv,
         BoundInv, RecordInv, AnswerInv, PrintedInv, contained, Kept
  <1>7. CASE ResolveContained
    <2>1. census' = [Forgotten EXCEPT !.outcome = "contained"] /\ resolved' = resolved
      BY <1>1, <1>7 DEF ResolveContained, ghosts
    <2>2. ~census'.bound /\ census'.outcome = "contained" /\ ~census'.verified
      BY <2>1 DEF Forgotten
    <2>3. decision' = delegated'
      <3>1. decision \in BOOLEAN /\ delegated \in BOOLEAN /\ ~decision /\ decision' = (decision \/ delegated)
        BY <1>5, <1>7, Zenon DEF TypeInv, SweepInv, ResolveContained
      <3> QED
        BY <1>1, <3>1
    <2>4. NothingDone'
      BY <1>1, <1>5, <2>3 DEF NothingDone
    <2> QED
      BY <1>1, <1>2, <1>3, <1>4, <1>5, <2>1, <2>2, <2>4 DEF PhaseInv, FreshInv, BlankInv, ContainedInv,
         BoundInv, RecordInv, AnswerInv, PrintedInv, contained, Kept
  <1> QED
    BY <1>6, <1>7

LEMMA EarnedSkip ==
    ASSUME TypeInv, EarnedInv, Skip
    PROVE  EarnedInv'
  <1> USE DEF EarnedInv
  <1>1. /\ at \in 2 .. 4 /\ invoking /\ phase' = "save" /\ contained
        /\ UNCHANGED <<steps, census, antenna, answer, decision, delegated, resolved, inventoried, named, printed>>
    BY Places DEF Skip, Within, Done, ghosts, files
  <1>2. at' = at /\ invoking' /\ Kept /\ contained'
    BY <1>1, Moves DEF TypeInv, contained
  <1>3. ~census.bound
    BY <1>1 DEF ContainedInv
  <1> QED
    BY <1>1, <1>2, <1>3 DEF PhaseInv, FreshInv, BlankInv, ContainedInv, BoundInv, RecordInv,
       AnswerInv, PrintedInv, NothingDone, Observed, Kept

LEMMA EarnedProbe ==
    ASSUME TypeInv, EarnedInv, Probe
    PROVE  EarnedInv'
  <1> USE DEF EarnedInv
  <1>1. /\ at = 2 /\ invoking /\ phase' = "save" /\ ~contained /\ census.bound
        /\ census' = [census EXCEPT !.observed = ClassifyInventory(census.cohort, place)]
        /\ inventoried' = place
        /\ UNCHANGED <<steps, antenna, answer, decision, delegated, resolved, named, printed>>
    BY Places DEF Probe, Within, Done, files
  <1>2. at' = at /\ invoking' /\ Kept /\ Rec(2) = "held" /\ Rec(4) = "none"
    BY <1>1, Moves DEF TypeInv, OrderInv
  <1>3. census \in Censuses /\ place \in SUBSET Entries
    BY DEF TypeInv, SweepInv
  <1>4. /\ census'.bound /\ ~contained' /\ census'.cohort = census.cohort
        /\ census'.verified = census.verified /\ census'.outcome = census.outcome
        /\ census'.observed = ClassifyInventory(census.cohort, place)
    BY <1>1, <1>3 DEF Censuses, contained
  <1>5. ~census.verified /\ answer = None /\ printed = {}
    BY <1>1, <1>2 DEF RecordInv, BlankInv, PrintedInv
  <1>6. PhaseInv' /\ FreshInv' /\ BlankInv' /\ ContainedInv'
    BY <1>1, <1>2, <1>4, <1>5 DEF PhaseInv, FreshInv, BlankInv, ContainedInv, Kept
  <1>7. BoundInv'
    BY <1>1, <1>2, <1>3, <1>4 DEF BoundInv, Observed, Censuses
  <1>8. RecordInv' /\ AnswerInv' /\ PrintedInv'
    BY <1>1, <1>2, <1>4, <1>5 DEF RecordInv, AnswerInv, PrintedInv
  <1> QED
    BY <1>6, <1>7, <1>8

LEMMA EarnedRecord ==
    ASSUME TypeInv, EarnedInv, ~Open, Record
    PROVE  EarnedInv'
  <1> USE DEF EarnedInv
  <1>1. /\ at = 3 /\ invoking /\ phase = "enter" /\ ~contained /\ census.bound
        /\ UNCHANGED <<answer, decision, delegated, resolved, inventoried, printed>>
    BY Places DEF Record, Within, files
  <1>2. Rec(3) = "held" /\ Rec(4) = "none"
    BY <1>1 DEF TypeInv, OrderInv
  <1>3. /\ antenna \subseteq antenna'
        /\ \A run \in antenna' :
            run = [receipt |-> run.receipt, status |-> run.status, digest |-> run.digest]
    <2>1. PICK receipt \in Receipts \ {Foreign}, status \in {"completed", "failed"},
               digest \in {Payload(census), AnotherPayload} :
            antenna' = antenna \cup
                {[receipt |-> receipt, status |-> status, digest |-> digest]}
      BY DEF Record
    <2> QED
      BY <2>1 DEF RecordInv
  <1>4. answer = None /\ printed = {} /\ ~census.verified
    BY <1>1, <1>2 DEF BlankInv, PrintedInv, RecordInv
  <1>5. CASE Leave /\ census' = Forgotten /\ UNCHANGED <<phase, named>>
    <2>1. at' = 0 /\ ~invoking' /\ Kept
      BY <1>5, Moves DEF TypeInv
    <2> QED
      BY <1>1, <1>2, <1>3, <1>4, <2>1 DEF PhaseInv, FreshInv, BlankInv, ContainedInv, BoundInv,
         RecordInv, AnswerInv, PrintedInv, Kept
  <1>6. ASSUME NEW r \in Receipts, NEW d \in {Payload(census), AnotherPayload, None},
               census' = [census EXCEPT !.receipt = r, !.digest = d], named' = d, Done
        PROVE  EarnedInv'
    <2>1. at' = at /\ invoking' /\ Kept /\ phase' = "save"
      <3>1. UNCHANGED steps /\ phase' = "save"
        BY <1>6 DEF Done
      <3> QED
        BY <1>1, <3>1, Moves DEF TypeInv
    <2>2. /\ census'.bound /\ ~contained' /\ census'.cohort = census.cohort
          /\ ~census'.verified /\ census'.outcome = census.outcome
          /\ census'.observed = census.observed /\ census'.digest = named'
      BY <1>1, <1>4, <1>6 DEF TypeInv, SweepInv, Censuses, contained
    <2>3. PhaseInv' /\ FreshInv' /\ BlankInv' /\ ContainedInv'
      BY <1>1, <1>2, <1>4, <2>1, <2>2 DEF PhaseInv, FreshInv, BlankInv, ContainedInv, Kept
    <2>4. BoundInv'
      BY <1>1, <1>6, <2>1, <2>2 DEF BoundInv, Observed, Payload, NamedIs
    <2>5. RecordInv' /\ AnswerInv' /\ PrintedInv'
      BY <1>1, <1>2, <1>3, <1>4, <2>1, <2>2 DEF RecordInv, AnswerInv, PrintedInv
    <2> QED
      BY <2>3, <2>4, <2>5
  <1> QED
    BY <1>5, <1>6 DEF Record

LEMMA EarnedReconciled ==
    ASSUME TypeInv, TypeInv', EarnedInv, Reconciled
    PROVE  EarnedInv'
  <1> USE DEF EarnedInv
  <1>1. /\ at = 4 /\ invoking /\ phase' = "save" /\ ~contained /\ census.verified
        /\ census' = [census EXCEPT !.outcome = "verified"]
        /\ UNCHANGED <<steps, antenna, decision, delegated, resolved, inventoried, named, printed>>
    BY Places DEF Reconciled, Within, Done, ghosts
  <1>2. at' = at /\ invoking' /\ Kept /\ Rec(4) = "held"
    BY <1>1, Moves DEF TypeInv, OrderInv
  <1>3. /\ census'.bound = census.bound /\ census'.outcome = "verified" /\ ~contained'
        /\ census'.cohort = census.cohort /\ census'.observed = census.observed
        /\ census'.receipt = census.receipt /\ census'.digest = census.digest
    BY <1>1 DEF TypeInv, SweepInv, Censuses, contained
  <1>4. /\ census.bound /\ named # None /\ Run(census.receipt, named) \in antenna
        /\ census.cohort = resolved /\ Observed(census.cohort)
        /\ census.observed = ClassifyInventory(census.cohort, inventoried)
        /\ census.digest = named /\ NamedIs(Payload(census))
    BY <1>1 DEF RecordInv, BoundInv
  <1>5. /\ answer'.cohort = census.cohort /\ answer'.receipt = census.receipt
        /\ answer'.discrepancies = Reconcile(census.cohort, census.observed)
    BY <1>1 DEF Reconciled
  <1>6. answer' # None
    <2>1. Reconcile(census.cohort, census.observed) \in SUBSET Discrepancies
      BY ReconcileTyped DEF TypeInv, SweepInv, Censuses
    <2>2. answer' \in Returns
      BY <1>1, <2>1, AttentionTyped DEF Reconciled, Returns, TypeInv, SweepInv, Censuses
    <2> QED
      BY <2>2, NoneAssumption
  <1>7. printed = {}
    BY <1>2 DEF PrintedInv
  <1>8. PhaseInv' /\ FreshInv' /\ BlankInv' /\ ContainedInv'
    BY <1>1, <1>2, <1>3, <1>7 DEF PhaseInv, FreshInv, BlankInv, ContainedInv, Kept
  <1>9. BoundInv' /\ RecordInv'
    BY <1>1, <1>2, <1>3, <1>4 DEF BoundInv, RecordInv, Observed, NamedIs, Payload
  <1>10. AnswerInv'
    BY <1>1, <1>3, <1>4, <1>5, <1>6 DEF AnswerInv, Observed, NamedIs, Payload
  <1>11. PrintedInv'
    BY <1>1, <1>7 DEF PrintedInv
  <1> QED
    BY <1>8, <1>9, <1>10, <1>11

LEMMA EarnedSave ==
    ASSUME TypeInv, EarnedInv, SaveStage \/ VerifyRecord
    PROVE  EarnedInv'
  <1> USE DEF EarnedInv
  <1>1. at \in 1 .. 4 /\ invoking /\ Rec(at) = "held"
    BY DEF SaveStage, VerifyRecord, Within, Invoking, TypeInv, OrderInv
  <1>2. UNCHANGED <<antenna, answer, decision, delegated, resolved, inventoried, named, printed>>
    BY DEF SaveStage, VerifyRecord, files, ghosts
  <1>3. CASE SaveStage /\ phase' = "verify" /\ UNCHANGED steps
    <2>1. at' = at /\ invoking' /\ Kept /\ census' = census /\ phase = "save"
      BY <1>3, Moves DEF TypeInv, SaveStage
    <2>2. at = 3 /\ ~contained
      BY <1>1, <1>3, GraphFacts DEF SaveStage
    <2> QED
      BY <1>1, <1>2, <1>3, <2>1, <2>2 DEF PhaseInv, FreshInv, BlankInv, ContainedInv, BoundInv,
         RecordInv, AnswerInv, PrintedInv, NothingDone, Observed, NamedIs, Kept, contained
  <1>4. ASSUME phase # "enter", phase' = "enter", Advance,
               census'.bound = census.bound, census'.outcome = census.outcome,
               census'.cohort = census.cohort, census'.observed = census.observed,
               census'.receipt = census.receipt, census'.digest = census.digest,
               census'.verified => census.bound /\ at > 2
                    /\ named # None /\ Run(census.receipt, named) \in antenna
        PROVE  EarnedInv'
    <2>1. at' = at + 1 /\ ~invoking' /\ Marks("verified")
      BY <1>1, <1>4, Moves DEF TypeInv
    <2>2. contained' <=> contained
      BY <1>4 DEF contained
    <2>3. PhaseInv' /\ FreshInv'
      BY <1>1, <1>4, <2>1, <2>2 DEF PhaseInv, FreshInv, Marks
    <2>4. BlankInv' /\ PrintedInv'
      BY <1>1, <1>2, <1>4, <2>1 DEF BlankInv, PrintedInv, NothingDone, Marks
    <2>5. BoundInv'
      <3>1. phase = "save" \/ at = 3
        BY <1>1, <1>4 DEF PhaseInv, TypeInv, SweepInv
      <3> QED
        BY <1>1, <1>2, <1>4, <2>1, <2>2, <3>1 DEF BoundInv, Observed, NamedIs, Payload
    <2>6. ContainedInv' /\ RecordInv' /\ AnswerInv'
      BY <1>1, <1>2, <1>4, <2>1, <2>2 DEF ContainedInv, RecordInv, AnswerInv, NothingDone, Observed, NamedIs
    <2> QED
      BY <2>3, <2>4, <2>5, <2>6
  <1>5. CASE SaveStage /\ phase' = "enter" /\ Advance
    <2>1. phase # "enter" /\ census' = census
      BY <1>5 DEF SaveStage
    <2>2. census.verified => census.bound /\ at > 2
            /\ named # None /\ Run(census.receipt, named) \in antenna
      BY <1>1 DEF RecordInv
    <2> QED
      BY <1>4, <1>5, <2>1, <2>2
  <1>6. CASE VerifyRecord
    <2>1. /\ at = 3 /\ phase = "verify" /\ phase' = "enter" /\ Advance
          /\ census' = [census EXCEPT !.verified = TRUE]
      BY <1>6, Places DEF VerifyRecord, Within
    <2>2. census.bound
      BY <2>1 DEF PhaseInv, RecordInv
    <2>3. census.digest = named
      BY <2>1, <2>2 DEF BoundInv
    <2>4. named # None /\ \E run \in antenna :
            run.receipt = census.receipt /\ run.status = "completed" /\ run.digest = census.digest
      BY <1>6, <2>3 DEF VerifyRecord, receiptMatches
    <2>5. Run(census.receipt, named) \in antenna
      BY <2>3, <2>4 DEF RecordInv, Run
    <2>6. /\ census'.bound = census.bound /\ census'.outcome = census.outcome
          /\ census'.cohort = census.cohort /\ census'.observed = census.observed
          /\ census'.receipt = census.receipt /\ census'.digest = census.digest
      BY <2>1 DEF TypeInv, SweepInv, Censuses
    <2> QED
      BY <1>4, <2>1, <2>2, <2>4, <2>5, <2>6
  <1> QED
    BY <1>3, <1>5, <1>6 DEF SaveStage

LEMMA EarnedReport ==
    ASSUME TypeInv, EarnedInv, Report
    PROVE  EarnedInv'
  <1> USE DEF EarnedInv
  <1>1. /\ at = 5 /\ printed' = printed \cup {census.outcome}
        /\ UNCHANGED <<phase, antenna, answer, decision, delegated, resolved, inventoried, named>>
    BY GraphFacts DEF Report, Finished, files
  <1>2. at' = 0 /\ ~invoking' /\ Kept
    BY Moves DEF TypeInv, Report
  <1>3. Rec(4) = "verified"
    BY <1>1 DEF TypeInv, OrderInv
  <1>4. /\ "verified" \in printed' => answer # None
        /\ "contained" \in printed' => NothingDone
    BY <1>1 DEF PrintedInv, AnswerInv, ContainedInv, contained
  <1>5. PrintedInv'
    BY <1>1, <1>2, <1>3, <1>4 DEF PrintedInv, NothingDone, Kept
  <1>6. PhaseInv' /\ FreshInv' /\ BlankInv' /\ ContainedInv' /\ BoundInv'
    BY <1>1, <1>2 DEF PhaseInv, FreshInv, BlankInv, ContainedInv, BoundInv, Kept
  <1>7. RecordInv' /\ AnswerInv'
    BY <1>1, <1>2 DEF RecordInv, AnswerInv, Observed, NamedIs
  <1> QED
    BY <1>5, <1>6, <1>7

LEMMA EarnedStep ==
    ASSUME TypeInv, TypeInv', EarnedInv, ~Open, [Next]_vars
    PROVE  EarnedInv'
  <1>1. CASE Step
    BY <1>1, EarnedRestart, EarnedReach DEF Step, Sweep, files, ghosts
  <1>2. CASE Change \/ UNCHANGED vars
    <2>1. UNCHANGED <<steps, phase, census, antenna, answer, decision, delegated, resolved,
                      inventoried, named, printed>>
      BY <1>2 DEF Change, vars, files, ghosts
    <2>2. at' = at /\ (invoking' <=> invoking) /\ Kept
      BY <2>1, Moves DEF TypeInv
    <2> QED
      BY <2>1, <2>2 DEF EarnedInv, PhaseInv, FreshInv, BlankInv, ContainedInv, BoundInv,
         RecordInv, AnswerInv, PrintedInv, NothingDone, Observed, NamedIs, contained, Kept
  <1> QED
    BY <1>1, <1>2, EarnedRestart, EarnedResolve, EarnedSkip, EarnedProbe, EarnedRecord,
       EarnedReconciled, EarnedSave, EarnedReport DEF Next

LEMMA EarnedInvariant ==
    ASSUME ~Open
    PROVE  Spec => [](TypeInv /\ EarnedInv)
  <1>1. Init => EarnedInv
    BY EarnedInit
  <1>2. TypeInv /\ TypeInv' /\ EarnedInv /\ [Next]_vars => EarnedInv'
    BY EarnedStep
  <1> QED
    BY <1>1, <1>2, TypeInvariant, PTL DEF Spec

\* When Antenna refuses a post that names no contract: what is returned as
\* verified stands on a completed run, preserved under the returned receipt,
\* of the payload Antenna named when it took the record, which is the cohort
\* and the observations that were reconciled unless Antenna itself named
\* another; what is returned
\* as contained has seen, recorded and reconciled nothing, however often the
\* process was killed and started again.
THEOREM ReturnsAreEarned ==
    ASSUME ~Open
    PROVE  Spec => []ReturnIsEarned
  <1>1. TypeInv /\ EarnedInv => ReturnIsEarned
    BY DEF EarnedInv, AnswerInv, PrintedInv, NothingDone, Run, NamedIs, ReturnIsEarned
  <1> QED
    BY <1>1, EarnedInvariant, PTL

-----------------------------------------------------------------------------
(* The classes are true of the place, whatever the cohort and the place.   *)

LEMMA Names ==
    /\ \A m \in Recognized, e \in Entries : Subject(m) # Unrecognized(e)
    /\ \A m, n \in Recognized : Subject(m) = Subject(n) => m = n
    /\ \A e, f \in Entries : Unrecognized(e) = Unrecognized(f) => e = f
  BY DEF Subject, Unrecognized

\* Whether the i-th member's directory is found.
Found(C, E, i) == NameOf[Members[i]] \in E /\ ~Taken(C, i)

\* One observation of each member of the cohort, and of each other directory.
LEMMA InventoryIs ==
    ASSUME NEW C \in SUBSET Recognized, NEW E \in SUBSET Entries, NEW o \in ClassifyInventory(C, E)
    PROVE  \/ \E i \in DOMAIN Members :
                Members[i] \in C /\ o = Seen(Subject(Members[i]), Found(C, E, i))
           \/ \E e \in E : (\A m \in C : NameOf[m] # e) /\ o = Seen(Unrecognized(e), TRUE)
  BY DEF ClassifyInventory, Found

LEMMA InventoryHasMember ==
    ASSUME NEW C \in SUBSET Recognized, NEW E \in SUBSET Entries, NEW m \in C
    PROVE  \E i \in DOMAIN Members :
            Members[i] = m /\ Seen(Subject(m), Found(C, E, i)) \in ClassifyInventory(C, E)
  <1>1. PICK i \in DOMAIN Members : Members[i] = m
    BY DEF Recognized, Range
  <1>2. Seen(Subject(m), Found(C, E, i)) \in ClassifyInventory(C, E)
    BY <1>1 DEF ClassifyInventory, Found
  <1> QED
    BY <1>1, <1>2

LEMMA InventoryHasStranger ==
    ASSUME NEW C \in SUBSET Recognized, NEW E \in SUBSET Entries,
           NEW e \in E, \A m \in C : NameOf[m] # e
    PROVE  Seen(Unrecognized(e), TRUE) \in ClassifyInventory(C, E)
  BY DEF ClassifyInventory

\* A member that shares its name with no other is not taken for another.
LEMMA AloneIsFree ==
    ASSUME NEW C \in SUBSET Recognized, NEW i \in DOMAIN Members,
           Members[i] \in C, Alone(Members[i], C)
    PROVE  ~Taken(C, i)
  <1> SUFFICES ASSUME NEW j \in 1 .. i - 1,
                      Members[j] \in C, NameOf[Members[j]] = NameOf[Members[i]]
               PROVE  FALSE
    BY DEF Taken
  <1>1. DOMAIN Members = 1 .. Len(Members) /\ Len(Members) \in Nat
    BY CensusAssumption
  <1>2. j \in DOMAIN Members /\ j # i
    BY <1>1
  <1>3. Members[j] # Members[i]
    BY <1>2, CensusAssumption
  <1> QED
    BY <1>3 DEF Alone

\* What is reconciled of an observation, and of a member without one.
LEMMA Reconciling ==
    ASSUME NEW C, NEW O, NEW d
    PROVE  d \in Reconcile(C, O) <=>
            \/ \E o \in O : /\ Class(o, o.id \in {Subject(m) : m \in C}) # "none"
                            /\ d = [id |-> o.id, class |-> Class(o, o.id \in {Subject(m) : m \in C})]
            \/ \E m \in C : /\ \A o \in O : o.id # Subject(m)
                            /\ d = [id |-> Subject(m), class |-> "unknown"]
  BY DEF Reconcile

LEMMA SightingClass ==
    ASSUME NEW s, NEW present \in BOOLEAN, NEW recognized \in BOOLEAN
    PROVE  Class(Seen(s, present), recognized) =
            IF present THEN IF recognized THEN "recognized-expected" ELSE "unrecognized-present"
            ELSE IF recognized THEN "expected-absent" ELSE "none"
  BY DEF Class, Seen

LEMMA MembersAreAnswered ==
    ASSUME NEW C \in SUBSET Recognized, NEW E \in SUBSET Entries, NEW m \in C
    PROVE  LET of == {d \in Reconcile(C, ClassifyInventory(C, E)) : d.id = Subject(m)}
           IN /\ of # {}
              /\ Alone(m, C) =>
                    of = {[id |-> Subject(m),
                           class |-> IF NameOf[m] \in E THEN "recognized-expected"
                                     ELSE "expected-absent"]}
  <1> DEFINE O == ClassifyInventory(C, E)
             D == Reconcile(C, O)
             there(i) == Found(C, E, i)
             expected == {Subject(n) : n \in C}
             verdict(present) == [id |-> Subject(m),
                                  class |-> IF present THEN "recognized-expected" ELSE "expected-absent"]
  <1>1. PICK i \in DOMAIN Members : Members[i] = m /\ Seen(Subject(m), there(i)) \in O
    BY InventoryHasMember
  <1>2. ASSUME NEW o \in O, o.id = Subject(m)
        PROVE  \E j \in DOMAIN Members : Members[j] = m /\ o = Seen(Subject(m), there(j))
    <2>1. CASE \E j \in DOMAIN Members : Members[j] \in C /\ o = Seen(Subject(Members[j]), there(j))
      <3>1. PICK j \in DOMAIN Members : Members[j] \in C /\ o = Seen(Subject(Members[j]), there(j))
        BY <2>1
      <3>2. Subject(Members[j]) = Subject(m)
        BY <1>2, <3>1 DEF Seen
      <3>3. Members[j] = m
        BY <3>1, <3>2, Names
      <3> QED
        BY <3>1, <3>3
    <2>2. CASE \E e \in E : o = Seen(Unrecognized(e), TRUE)
      <3>1. PICK e \in E : o = Seen(Unrecognized(e), TRUE)
        BY <2>2
      <3>2. Unrecognized(e) = Subject(m)
        BY <1>2, <3>1 DEF Seen
      <3> QED
        BY <3>2, Names
    <2> QED
      BY <2>1, <2>2, InventoryIs
  <1>3. Subject(m) \in expected /\ \A j : there(j) \in BOOLEAN
    BY DEF Found
  <1>4. ASSUME NEW present \in BOOLEAN
        PROVE  Class(Seen(Subject(m), present), Subject(m) \in expected) = verdict(present).class
    <2>1. (Subject(m) \in expected) = TRUE
      BY <1>3
    <2>2. Class(Seen(Subject(m), present), TRUE) = verdict(present).class
      BY SightingClass
    <2> QED
      BY <2>1, <2>2
  <1>5. \A o \in O : o.id = Subject(m) =>
            \E j \in DOMAIN Members : /\ Members[j] = m
                                      /\ Class(o, o.id \in expected) = verdict(there(j)).class
    <2> HIDE DEF there, verdict, expected
    <2> QED
      BY <1>2, <1>3, <1>4
  <1>6. verdict(there(i)) \in D
    <2>1. Seen(Subject(m), there(i)).id = Subject(m)
      BY DEF Seen
    <2>2. Class(Seen(Subject(m), there(i)), Subject(m) \in expected) = verdict(there(i)).class
      <3> HIDE DEF there, verdict, expected
      <3> QED
        BY <1>3, <1>4
    <2>3. verdict(there(i)).class # "none"
      OBVIOUS
    <2> HIDE DEF O, there
    <2> QED
      BY <1>1, <2>1, <2>2, <2>3, Reconciling
  <1>7. ASSUME NEW d \in D, d.id = Subject(m)
        PROVE  \E j \in DOMAIN Members : Members[j] = m /\ d = verdict(there(j))
    <2>1. \/ \E o \in O : d = [id |-> o.id, class |-> Class(o, o.id \in expected)]
          \/ \E n \in C : /\ \A o \in O : o.id # Subject(n)
                          /\ d = [id |-> Subject(n), class |-> "unknown"]
      <3> HIDE DEF O
      <3> QED
        BY Reconciling
    <2>2. CASE \E o \in O : d = [id |-> o.id, class |-> Class(o, o.id \in expected)]
      <3>1. PICK o \in O : d = [id |-> o.id, class |-> Class(o, o.id \in expected)]
        BY <2>2
      <3>2. o.id = Subject(m)
        BY <1>7, <3>1
      <3>3. PICK j \in DOMAIN Members : /\ Members[j] = m
                                        /\ Class(o, o.id \in expected) = verdict(there(j)).class
        BY <1>5, <3>2
      <3> QED
        BY <3>1, <3>2, <3>3
    <2>3. CASE \E n \in C : /\ \A o \in O : o.id # Subject(n)
                            /\ d = [id |-> Subject(n), class |-> "unknown"]
      <3>1. PICK n \in C : (\A o \in O : o.id # Subject(n)) /\ d = [id |-> Subject(n), class |-> "unknown"]
        BY <2>3
      <3>2. Subject(n) = Subject(m)
        BY <1>7, <3>1
      <3>3. Seen(Subject(m), there(i)).id = Subject(m)
        BY DEF Seen
      <3> QED
        BY <1>1, <3>1, <3>2, <3>3
    <2> QED
      BY <2>1, <2>2, <2>3
  <1>8. ASSUME Alone(m, C), NEW j \in DOMAIN Members, Members[j] = m
        PROVE  there(j) <=> NameOf[m] \in E
    BY <1>8, AloneIsFree DEF Found
  <1>9. Alone(m, C) => \A d \in D : d.id = Subject(m) => d = verdict(NameOf[m] \in E)
    <2> HIDE DEF there, D
    <2> QED
      BY <1>7, <1>8
  <1>10. Alone(m, C) => verdict(NameOf[m] \in E) \in D
    <2> HIDE DEF there, D
    <2> QED
      BY <1>1, <1>6, <1>8
  <1>11. verdict(there(i)).id = Subject(m) /\ verdict(NameOf[m] \in E).id = Subject(m)
    OBVIOUS
  <1> HIDE DEF D, there
  <1>12. {d \in D : d.id = Subject(m)} # {}
    BY <1>6, <1>11
  <1>13. Alone(m, C) => {d \in D : d.id = Subject(m)} = {verdict(NameOf[m] \in E)}
    <2> HIDE DEF verdict
    <2> QED
      BY <1>9, <1>10, <1>11
  <1> QED
    BY <1>12, <1>13 DEF D

LEMMA StrangersAreAnswered ==
    ASSUME NEW C \in SUBSET Recognized, NEW E \in SUBSET Entries, NEW e \in Entries
    PROVE  (\E d \in Reconcile(C, ClassifyInventory(C, E)) : d.id = Unrecognized(e))
            <=> e \in E \ {NameOf[m] : m \in C}
  <1> DEFINE O == ClassifyInventory(C, E)
             D == Reconcile(C, O)
             expected == {Subject(n) : n \in C}
             sighting == Seen(Unrecognized(e), TRUE)
  <1>1. ASSUME e \in E, \A m \in C : NameOf[m] # e
        PROVE  \E d \in D : d.id = Unrecognized(e)
    <2>1. sighting \in O
      BY <1>1, InventoryHasStranger
    <2>2. sighting.id = Unrecognized(e)
      BY DEF Seen
    <2>3. (Unrecognized(e) \in expected) = FALSE
      BY Names
    <2>4. Class(sighting, FALSE) = "unrecognized-present"
      BY SightingClass
    <2>5. Class(sighting, sighting.id \in expected) = "unrecognized-present"
      <3> HIDE DEF expected, sighting
      <3> QED
        BY <2>2, <2>3, <2>4
    <2>6. [id |-> sighting.id, class |-> Class(sighting, sighting.id \in expected)] \in D
      <3> HIDE DEF O, sighting
      <3> QED
        BY <2>1, <2>5, Reconciling
    <2> QED
      BY <2>2, <2>6
  <1>2. ASSUME NEW d \in D, d.id = Unrecognized(e)
        PROVE  e \in E /\ \A m \in C : NameOf[m] # e
    <2>1. \/ \E o \in O : d.id = o.id
          \/ \E n \in C : d.id = Subject(n)
      <3> HIDE DEF O
      <3> QED
        BY Reconciling
    <2>2. PICK o \in O : o.id = Unrecognized(e)
      BY <1>2, <2>1, Names
    <2>3. PICK f \in E : (\A m \in C : NameOf[m] # f) /\ o = Seen(Unrecognized(f), TRUE)
      <3>1. ASSUME NEW i \in DOMAIN Members, o = Seen(Subject(Members[i]), Found(C, E, i))
            PROVE  FALSE
        BY <2>2, <3>1, Names, MembersAre DEF Seen
      <3> QED
        BY <3>1, InventoryIs
    <2>4. f = e
      BY <2>2, <2>3, Names DEF Seen
    <2> QED
      BY <2>3, <2>4
  <1> QED
    BY <1>1, <1>2

\* Absence takes a conclusive observation and prohibition a rule, and nobody
\* in the cohort is left out, whatever the one observation is.
LEMMA ReconcileIsCautious ==
    ASSUME NEW C \in SUBSET Recognized, NEW o \in Observations
    PROVE  Cautious(C, o)
  <1> DEFINE expected == {Subject(m) : m \in C}
             D == Reconcile(C, {o})
  <1>1. \A d : d \in D <=>
            \/ /\ Class(o, o.id \in expected) # "none"
               /\ d = [id |-> o.id, class |-> Class(o, o.id \in expected)]
            \/ \E m \in C : o.id # Subject(m) /\ d = [id |-> Subject(m), class |-> "unknown"]
    BY Reconciling
  <1>2. \A recognized \in BOOLEAN :
            /\ Class(o, recognized) = "expected-absent" => o.conclusive /\ ~o.present
            /\ Class(o, recognized) = "present-prohibited" => o.present /\ o.rule
            /\ Class(o, recognized) = "unrecognized-present" => ~recognized
            /\ recognized => Class(o, recognized) # "none"
    BY DEF Class, Observations
  <1>3. (o.id \in expected) \in BOOLEAN
    OBVIOUS
  <1>4. ASSUME NEW d \in D
        PROVE  /\ d.class = "expected-absent" => d.id = o.id /\ o.conclusive /\ ~o.present
               /\ d.class = "present-prohibited" => d.id = o.id /\ o.present /\ o.rule
               /\ d.class = "unrecognized-present" => d.id \notin expected
    <2>1. CASE d = [id |-> o.id, class |-> Class(o, o.id \in expected)]
      <3>1. d.id = o.id /\ d.class = Class(o, o.id \in expected)
        BY <2>1
      <3> HIDE DEF D, expected
      <3> QED
        BY <1>2, <1>3, <3>1
    <2>2. CASE \E m \in C : d = [id |-> Subject(m), class |-> "unknown"]
      BY <2>2
    <2> HIDE DEF D, expected
    <2> QED
      BY <1>1, <2>1, <2>2
  <1>5. ASSUME NEW m \in C
        PROVE  \E d \in D : d.id = Subject(m)
    <2>1. CASE o.id = Subject(m)
      <3>1. Class(o, o.id \in expected) # "none"
        BY <1>2, <1>3, <2>1
      <3>2. [id |-> o.id, class |-> Class(o, o.id \in expected)] \in D
        <4> HIDE DEF D, expected
        <4> QED
          BY <1>1, <3>1
      <3> QED
        BY <2>1, <3>2
    <2>2. CASE o.id # Subject(m)
      <3>1. [id |-> Subject(m), class |-> "unknown"] \in D
        <4> HIDE DEF D, expected
        <4> QED
          BY <1>1, <2>2
      <3> QED
        BY <3>1
    <2> QED
      BY <2>1, <2>2
  <1> QED
    BY <1>4, <1>5 DEF Cautious

\* When Antenna refuses a post that names no contract: the return is about
\* the cohort the Registry gave to this occurrence, each of its members is
\* present or absent as its directory was or was not there when the place was
\* inventoried, and exactly the directories no member is looked for under are
\* reported as unrecognized.
THEOREM ClassesStayHonest ==
    ASSUME ~Open
    PROVE  Spec => []ClassesAreHonest
  <1>1. TypeInv /\ EarnedInv => ClassesAreHonest
    <2> SUFFICES ASSUME EarnedInv, answer # None PROVE ClassesAreHonest
      BY DEF ClassesAreHonest
    <2>1. /\ inventoried \in SUBSET Entries /\ answer.cohort \in SUBSET Recognized
          /\ answer.cohort = resolved
          /\ answer.discrepancies =
                Reconcile(answer.cohort, ClassifyInventory(answer.cohort, inventoried))
      BY DEF EarnedInv, AnswerInv, Observed
    <2>2. ReconcilesCautiously
      BY ReconcileIsCautious DEF ReconcilesCautiously
    <2> QED
      BY <2>1, <2>2, MembersAreAnswered, StrangersAreAnswered DEF ClassesAreHonest
  <1> QED
    BY <1>1, EarnedInvariant, PTL

=============================================================================
