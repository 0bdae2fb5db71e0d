------------------------ MODULE HeartimeAnswerProofs ------------------------
(***************************************************************************)
(* What the answers of HeartimeIngress are worth, for any occurrences,     *)
(* reviews of reviews, configurations and number of faults: every value a  *)
(* goroutine is about to record, and every value on record, has a warrant  *)
(* in the files, in what the route did, or in the ledger; and a warrant,   *)
(* once there, is not lost by anything that happens later.                 *)
(***************************************************************************)
EXTENDS HeartimeIngressProofs

\* The reviews of q counted so far.
Tally(q) == Cardinality({r \in indexed : ParentOf[r] = q})

\* What the goroutine of o may say of t, which is o, or the parent o asks about.
Warrant(o, t, v) ==
    /\ t = o /\ o \notin Reviews =>
         \/ v = "uncertain" /\ o \in started
         \/ exit[o] # "none" /\ v = Classify(exit[o])
         \/ v = "contained" /\ route[o] = "never"
    /\ t = o /\ o \in Reviews /\ v = "verified" => ledger[ParentOf[o]] # None
    /\ t # o /\ v = "contained" => Tally(t) >= ReviewBound

\* Only a review deals with another occurrence, and only with its parent; it
\* counted no more reviews than there are; and what it is about to record has
\* its warrant.
Deals(o) ==
    /\ hand[o].of # o => o \in Reviews /\ hand[o].of = ParentOf[o]
    /\ place[o] \in {"start", "invoke", "running"} => o \notin Reviews
    /\ place[o] = "ask" => hand[o].tally <= Tally(ParentOf[o])
    /\ place[o] = "resolve" => Warrant(o, hand[o].of, hand[o].what.outcome)

Answers(t) == outcome[t] # None => Warrant(outcome[t].by, t, outcome[t].outcome)

Warranted ==
    /\ \A o \in Occurrences : Deals(o)
    /\ \A t \in Occurrences : Answers(t)

-----------------------------------------------------------------------------
(* What is never lost.                                                     *)

\* The index only grows, and so does the number of reviews of each parent.
LEMMA TallyGrows ==
    ASSUME TypeOK, Control, [Next]_vars, NEW q \in Occurrences
    PROVE  Tally(q) \in Nat /\ Tally(q)' \in Nat /\ Tally(q) <= Tally(q)'
  <1> DEFINE counted == {r \in indexed : ParentOf[r] = q}
             recounted == {r \in indexed' : ParentOf[r] = q}
  <1>1. indexed \subseteq indexed'
    BY DEF Next, Deliver, WriteDelivery, IndexReview, Acknowledge, HandlerError, Abandon,
           Advance, Fetch, Load, Start, Invoke, Finish, Orphan, Resolve, Report, ReportFails,
           MarkReported, Count, Ask, AskPhase, StoreError, BeginSweep, Listen, StartProcess,
           Crash, Stop, Exit, vars, files
  <1>2. IsFiniteSet(indexed')
    BY ControlStep DEF Control
  <1>3. counted \subseteq recounted /\ recounted \subseteq indexed'
    BY <1>1
  <1>4. IsFiniteSet(recounted)
    BY <1>2, <1>3, FS_Subset
  <1>5. /\ IsFiniteSet(counted)
        /\ Cardinality(counted) \in Nat /\ Cardinality(recounted) \in Nat
        /\ Cardinality(counted) <= Cardinality(recounted)
    BY <1>3, <1>4, FS_Subset, FS_CardinalityType
  <1> QED
    BY <1>5 DEF Tally

\* The intent to run stays on disk.
LEMMA StartedStays ==
    ASSUME [Next]_vars
    PROVE  started \subseteq started'
  BY DEF Next, Deliver, WriteDelivery, IndexReview, Acknowledge, HandlerError, Abandon,
         Advance, Fetch, Load, Start, Invoke, Finish, Orphan, Resolve, Report, ReportFails,
         MarkReported, Count, Ask, AskPhase, StoreError, BeginSweep, Listen, StartProcess,
         Crash, Stop, Exit, vars, files

\* Only the goroutine of o, where it invokes its route or waits for it, learns an
\* exit of o or starts its route.
LEMMA ExitStays ==
    ASSUME TypeOK, Control, [Next]_vars, NEW o \in Occurrences, ~ Invoke(o), ~ Finish(o)
    PROVE  exit'[o] = exit[o] /\ (route[o] = "never" => route'[o] = "never")
  <1>1. ASSUME NEW q \in Occurrences, Invoke(q)
        PROVE  exit'[o] = exit[o] /\ (route[o] = "never" => route'[o] = "never")
    BY <1>1, InvokeWays DEF TypeOK
  <1>2. ASSUME NEW q \in Occurrences, Finish(q)
        PROVE  exit'[o] = exit[o] /\ (route[o] = "never" => route'[o] = "never")
    <2>1. PICK x \in Exits : exit' = [exit EXCEPT ![q] = x]
      BY <1>2, FinishWays
    <2>2. route' = [route EXCEPT ![q] = "ended"] /\ q # o
      BY <1>2, FinishWays
    <2> QED
      BY <2>1, <2>2 DEF TypeOK
  <1>3. ASSUME NEW q \in Occurrences, Orphan(q)
        PROVE  exit'[o] = exit[o] /\ (route[o] = "never" => route'[o] = "never")
    BY <1>3 DEF Orphan, TypeOK
  <1>4. ASSUME ~ \E q \in Occurrences : Invoke(q) \/ Finish(q) \/ Orphan(q)
        PROVE  UNCHANGED <<exit, route>>
    BY <1>4 DEF Next, Deliver, WriteDelivery, IndexReview, Acknowledge, HandlerError, Abandon,
                Advance, Fetch, Load, Start, Resolve, Report, ReportFails, MarkReported, Count,
                Ask, AskPhase, StoreError, BeginSweep, Listen, StartProcess, Crash, Stop, Exit,
                vars, outside
  <1> QED
    BY <1>1, <1>2, <1>3, <1>4

\* A warrant outlives every step but the two that make a new one.
LEMMA WarrantStays ==
    ASSUME TypeOK, Control, [Next]_vars,
           NEW o \in Occurrences, NEW t \in Occurrences, NEW v, Warrant(o, t, v),
           t = o => ~ Invoke(o) /\ ~ Finish(o)
    PROVE  Warrant(o, t, v)'
  <1>1. o \in started => o \in started'
    BY StartedStays
  <1>2. t = o => exit'[o] = exit[o] /\ (route[o] = "never" => route'[o] = "never")
    BY ExitStays
  <1>3. o \in Reviews => (ledger[ParentOf[o]] # None => ledger'[ParentOf[o]] # None)
    BY ReviewsAssumption, OutcomeStays
  <1>4. Tally(t) \in Nat /\ Tally(t)' \in Nat /\ Tally(t) <= Tally(t)'
    BY TallyGrows
  <1>5. Tally(t) >= ReviewBound => Tally(t)' >= ReviewBound
    BY <1>4, ReviewBoundAssumption
  <1> HIDE DEF Tally
  <1> QED
    BY <1>1, <1>2, <1>3, <1>5 DEF Warrant

-----------------------------------------------------------------------------
(* What a goroutine is about to record.                                    *)

\* A goroutine that stays where it is keeps its warrant.
LEMMA DealsStay ==
    ASSUME TypeOK, Control, [Next]_vars, NEW o \in Occurrences, Deals(o),
           place'[o] = place[o], hand'[o] = hand[o]
    PROVE  Deals(o)'
  <1>1. ~ Invoke(o) /\ ~ Finish(o)
    BY InvokeWays, FinishWays DEF Moved, Concluded
  <1>2. /\ \E t \in Occurrences : t = hand[o].of
        /\ \E v : v = hand[o].what.outcome
    BY DEF TypeOK
  <1> PICK t \in Occurrences : t = hand[o].of
    BY <1>2
  <1> PICK v : v = hand[o].what.outcome
    BY <1>2
  <1>3. place[o] = "resolve" => Warrant(o, t, v)'
    BY <1>1, WarrantStays DEF Deals
  <1>4. place[o] = "ask" => hand[o].tally <= Tally(ParentOf[o])'
    <2>1. place[o] = "ask" => ParentOf[o] \in Occurrences
      BY ReviewsAssumption DEF Control, InHand
    <2>2. place[o] = "ask" => /\ Tally(ParentOf[o]) \in Nat /\ Tally(ParentOf[o])' \in Nat
                              /\ Tally(ParentOf[o]) <= Tally(ParentOf[o])'
      BY <2>1, TallyGrows
    <2>3. hand[o].tally \in Nat
      BY DEF TypeOK
    <2> HIDE DEF Tally
    <2> QED
      BY <2>2, <2>3 DEF Deals
  <1> HIDE DEF Tally
  <1> QED
    BY <1>3, <1>4 DEF Deals

\* Where a conclusion leads, and what it says.
LEMMA ConcludeSays ==
    ASSUME TypeOK, NEW o \in Occurrences, NEW t \in Occurrences, NEW v \in Outcomes,
           Conclude(o, t, v)
    PROVE  place'[o] = "resolve" /\ hand'[o].of = t /\ hand'[o].what.outcome = v
  <1>1. Moved(o, "resolve", t, [outcome |-> v, by |-> o])
    BY ConcludeMoves
  <1> QED
    BY <1>1 DEF Moved

LEMMA ConcludeDeals ==
    ASSUME TypeOK, NEW o \in Occurrences, NEW t \in Occurrences, NEW v \in Outcomes,
           Conclude(o, t, v), Warrant(o, t, v)', t # o => o \in Reviews /\ t = ParentOf[o]
    PROVE  Deals(o)'
  <1>1. place'[o] = "resolve" /\ hand'[o].of = t /\ hand'[o].what.outcome = v
    BY ConcludeSays
  <1> QED
    BY <1>1 DEF Deals

\* Away from these places a goroutine needs no more than the right occurrence.
LEMMA ElsewhereDeals ==
    ASSUME NEW o \in Occurrences,
           place'[o] \notin {"start", "invoke", "running", "ask", "resolve"},
           hand'[o].of # o => o \in Reviews /\ hand'[o].of = ParentOf[o]
    PROVE  Deals(o)'
  BY DEF Deals

LEMMA AdvanceDeals ==
    ASSUME TypeOK, Control, NEW o \in Occurrences, Advance(o)
    PROVE  Deals(o)'
  <1>1. CASE PhaseOf(o) = "in-flight"
    <2>1. o \in started /\ started' = started
      BY <1>1 DEF PhaseOf, Advance, files
    <2>2. Conclude(o, o, "uncertain") /\ "uncertain" \in Outcomes
      BY <1>1 DEF Advance, Outcomes
    <2>3. Warrant(o, o, "uncertain")'
      BY <2>1 DEF Warrant
    <2> QED
      BY <2>2, <2>3, ConcludeDeals
  <1>2. CASE PhaseOf(o) # "in-flight"
    <2>1. hand[o].of = o
      BY DEF Advance, Turn, Control, InHand
    <2>2. Leave(o) \/ Go(o, "fetch") \/ Go(o, "load")
      BY <1>2 DEF Advance, PhaseOf
    <2>3. place'[o] \in {"out", "fetch", "load"} /\ hand'[o].of = o
      BY <2>1, <2>2, LeaveMoves, GoMoves DEF Moved, Places, Working
    <2> QED
      BY <2>3, ElsewhereDeals
  <1> QED
    BY <1>1, <1>2

\* No outcome has been given and no route has run for what is loaded.
LEMMA LoadDeals ==
    ASSUME TypeOK, Control, StartAhead, NEW o \in Occurrences, Load(o)
    PROVE  Deals(o)'
  <1>1. place[o] = "load" /\ hand[o].of = o /\ route[o] = "never" /\ route' = route
    BY DEF Load, At, Control, InHand, StartAhead, StartFits, outside
  <1>2. CASE Leave(o) \/ Go(o, "count")
    <2>1. place'[o] \in {"out", "count"} /\ hand'[o].of = o
      BY <1>1, <1>2, LeaveMoves, GoMoves DEF Moved, Places, Working
    <2> QED
      BY <2>1, ElsewhereDeals
  <1>3. CASE Go(o, "start") /\ o \in served
    <2>1. place'[o] = "start" /\ hand'[o].of = o /\ o \notin Reviews
      BY <1>1, <1>3, GoMoves DEF Moved, Places, Working, TypeOK
    <2> QED
      BY <2>1 DEF Deals
  <1>4. CASE Conclude(o, o, "contained")
    <2>1. Warrant(o, o, "contained")'
      BY <1>1 DEF Warrant
    <2> QED
      BY <1>4, <2>1, ConcludeDeals DEF Outcomes
  <1> QED
    BY <1>2, <1>3, <1>4 DEF Load

LEMMA RouteDeals ==
    ASSUME TypeOK, Control, NEW o \in Occurrences, Deals(o), Start(o) \/ Invoke(o) \/ Finish(o)
    PROVE  Deals(o)'
  <1>1. /\ place[o] \in {"start", "invoke", "running"} /\ hand[o].of = o /\ o \notin Reviews
    BY DEF Start, Invoke, Finish, At, Control, InHand, Deals
  <1>2. CASE Go(o, "invoke") \/ Go(o, "running")
    <2>1. place'[o] \in {"invoke", "running"} /\ hand'[o].of = o
      BY <1>1, <1>2, GoMoves DEF Moved, Places, Working
    <2> QED
      BY <1>1, <2>1 DEF Deals
  <1>3. ASSUME NEW x \in Exits, exit' = [exit EXCEPT ![o] = x], Conclude(o, o, Classify(x))
        PROVE  Deals(o)'
    <2>1. exit'[o] = x /\ x # "none"
      BY <1>3 DEF TypeOK, Exits, Declared, Outcomes
    <2>2. Warrant(o, o, Classify(x))'
      BY <1>1, <2>1 DEF Warrant, Classify
    <2>3. Classify(x) \in Outcomes
      BY ClassifyTypes
    <2> QED
      BY <1>3, <2>2, <2>3, ConcludeDeals
  <1>4. "unstarted" \in Exits /\ "signal" \in Exits
    BY DEF Exits
  <1>5. CASE Start(o)
    BY <1>2, <1>5 DEF Start
  <1>6. CASE Invoke(o)
    BY <1>2, <1>3, <1>4, <1>6 DEF Invoke
  <1>7. CASE Finish(o)
    <2>1. PICK x \in Exits : exit' = [exit EXCEPT ![o] = x] /\ Conclude(o, o, Classify(x))
      BY <1>4, <1>7, ExitsAssumption DEF Finish
    <2> QED
      BY <1>3, <2>1
  <1> QED
    BY <1>5, <1>6, <1>7

\* A review whose parent could not be returned says that it does not know.
LEMMA UnreportedDeals ==
    ASSUME TypeOK, NEW o \in Occurrences, Deals(o), Unreported(o)
    PROVE  Deals(o)'
  <1>1. CASE hand[o].of = o
    <2>1. place'[o] = "out" /\ hand'[o].of = o
      BY <1>1, LeaveMoves DEF Unreported, Moved
    <2> QED
      BY <2>1, ElsewhereDeals
  <1>2. CASE hand[o].of # o
    <2>1. Conclude(o, o, "uncertain") /\ "uncertain" \in Outcomes
      BY <1>2 DEF Unreported, Outcomes
    <2>2. o \in Reviews
      BY <1>2 DEF Deals
    <2>3. Warrant(o, o, "uncertain")'
      BY <2>2 DEF Warrant
    <2> QED
      BY <2>1, <2>3, ConcludeDeals
  <1> QED
    BY <1>1, <1>2

\* A review whose parent was returned is verified, and Heartime has that return.
LEMMA MarkDeals ==
    ASSUME TypeOK, ReturnAhead, NEW o \in Occurrences, Deals(o), MarkReported(o)
    PROVE  Deals(o)'
  <1>1. CASE hand[o].of = o
    <2>1. place'[o] = "out" /\ hand'[o].of = o
      BY <1>1, LeaveMoves DEF MarkReported, Moved
    <2> QED
      BY <2>1, ElsewhereDeals
  <1>2. CASE hand[o].of # o
    <2>1. Conclude(o, o, "verified") /\ "verified" \in Outcomes /\ ledger' = ledger /\ place[o] = "mark"
      BY <1>2 DEF MarkReported, Outcomes, At, outside
    <2>2. o \in Reviews /\ ledger[ParentOf[o]] # None
      BY <1>2, <2>1 DEF Deals, ReturnAhead, ReturnFits
    <2>3. Warrant(o, o, "verified")'
      BY <2>1, <2>2 DEF Warrant
    <2> QED
      BY <2>1, <2>3, ConcludeDeals
  <1> QED
    BY <1>1, <1>2

\* The parent of a review is contained only once it was asked about often enough.
LEMMA AskDeals ==
    ASSUME TypeOK, Control, [Next]_vars, NEW o \in Occurrences, Deals(o), Ask(o)
    PROVE  Deals(o)'
  <1>0. PICK q \in Occurrences \ {o} : q = ParentOf[o]
    BY AskWays
  <1>1. /\ place[o] = "ask" /\ hand[o].of = o /\ o \in Reviews
        /\ hand[o].tally \in Nat /\ hand[o].tally <= Tally(q)
    BY <1>0 DEF Ask, At, Control, InHand, Deals, TypeOK
  <1>2. CASE Go(o, "phase")
    <2>1. place'[o] = "phase" /\ hand'[o].of = o
      BY <1>1, <1>2, GoMoves DEF Moved, Places, Working
    <2> QED
      BY <2>1, ElsewhereDeals
  <1>3. CASE Conclude(o, q, UnknownOutcome(hand[o].tally))
    <2>1. UnknownOutcome(hand[o].tally) \in Outcomes
      BY DEF UnknownOutcome, Outcomes
    <2>2. UnknownOutcome(hand[o].tally) = "contained" => hand[o].tally >= ReviewBound
      BY DEF UnknownOutcome
    <2>3. Tally(q) \in Nat /\ Tally(q)' \in Nat /\ Tally(q) <= Tally(q)'
      BY TallyGrows
    <2>4. PICK v : v = UnknownOutcome(hand[o].tally)
      OBVIOUS
    <2>5. v = "contained" => Tally(q)' >= ReviewBound
      BY <1>1, <2>2, <2>3, <2>4, ReviewBoundAssumption
    <2> HIDE DEF Tally
    <2>6. Warrant(o, q, v)'
      BY <1>0, <2>5 DEF Warrant
    <2> QED
      BY <1>0, <1>1, <1>3, <2>1, <2>4, <2>6, ConcludeDeals
  <1> QED
    BY <1>0, <1>2, <1>3 DEF Ask

LEMMA CountDeals ==
    ASSUME TypeOK, Control, NEW o \in Occurrences, Count(o)
    PROVE  Deals(o)'
  <1>1. hand[o].of = o /\ place[o] = "count" /\ ParentOf[o] \in Occurrences
    BY ReviewsAssumption DEF Count, At, Control, InHand
  <1>2. PICK n \in Nat : n = Tally(ParentOf[o])
    BY <1>1, TallyTypes DEF Tally
  <1>3. hand' = [hand EXCEPT ![o].tally = n] /\ place' = [place EXCEPT ![o] = "ask"] /\ indexed' = indexed
    BY <1>2 DEF Count, Tally, files
  <1>4. place'[o] = "ask" /\ hand'[o].of = o /\ hand'[o].tally = n
    BY <1>1, <1>3 DEF TypeOK
  <1>5. n <= Tally(ParentOf[o])'
    BY <1>2, <1>3 DEF Tally
  <1> QED
    BY <1>4, <1>5 DEF Deals

\* A parent that is complete was accepted by Heartime.
LEMMA AskPhaseDeals ==
    ASSUME TypeOK, Control, ReturnAhead, NEW o \in Occurrences, AskPhase(o)
    PROVE  Deals(o)'
  <1>0. PICK q \in Occurrences \ {o} : q = ParentOf[o]
    BY AskPhaseWays
  <1>1. o \in Reviews /\ ledger' = ledger
    BY AskPhaseWays DEF AskPhase, outside
  <1>2. CASE PhaseOf(q) = "complete" /\ Conclude(o, o, "verified")
    <2>1. reported[q] # None
      BY <1>2 DEF PhaseOf
    <2>2. Warrant(o, o, "verified")'
      BY <1>0, <1>1, <2>1 DEF Warrant, ReturnAhead, ReturnRecorded
    <2> QED
      BY <1>2, <2>2, ConcludeDeals DEF Outcomes
  <1>3. CASE Hold(o, "fetch", q, None)
    <2>1. place'[o] = "fetch" /\ hand'[o].of = q
      BY <1>3, HoldMoves DEF Moved, Places, Working
    <2> QED
      BY <1>0, <1>1, <2>1, ElsewhereDeals
  <1>4. CASE Conclude(o, o, "contained")
    <2>1. Warrant(o, o, "contained")'
      BY <1>1 DEF Warrant
    <2> QED
      BY <1>4, <2>1, ConcludeDeals DEF Outcomes
  <1> QED
    BY <1>0, <1>2, <1>3, <1>4 DEF AskPhase

\* Returning, and going away, change neither the occurrence in hand nor its right.
LEMMA ReturningDeals ==
    ASSUME TypeOK, Control, NEW o \in Occurrences, Deals(o),
           Abandon(o) \/ Fetch(o) \/ Resolve(o) \/ Report(o)
    PROVE  Deals(o)'
  <1>1. CASE Abandon(o)
    BY <1>1, AbandonWays, ElsewhereDeals DEF Moved
  <1>2. CASE Fetch(o) \/ Resolve(o) \/ Report(o)
    <2>1. place'[o] \in {"report", "mark"} /\ hand'[o].of = hand[o].of
      BY <1>2, FetchWays, ResolveWays, ReportWays DEF Moved
    <2>2. hand'[o].of # o => o \in Reviews /\ hand'[o].of = ParentOf[o]
      BY <2>1 DEF Deals
    <2> QED
      BY <2>1, <2>2, ElsewhereDeals
  <1> QED
    BY <1>1, <1>2

LEMMA StoreErrorDeals ==
    ASSUME TypeOK, Control, NEW o \in Occurrences, Deals(o), StoreError(o) \/ ReportFails(o)
    PROVE  Deals(o)'
  <1>1. CASE At(o, "start") /\ Leave(o)
    <2>1. place'[o] = "out" /\ hand'[o].of = o
      BY <1>1, LeaveMoves DEF Moved
    <2> QED
      BY <2>1, ElsewhereDeals
  <1>2. CASE Unreported(o)
    BY <1>2, UnreportedDeals
  <1> QED
    BY <1>1, <1>2 DEF StoreError, ReportFails

-----------------------------------------------------------------------------
(* Every step.                                                             *)

\* One goroutine moves, or none does, or all are gone or queued.
LEMMA SweepKinds ==
    ASSUME TypeOK, Control, [Next]_vars
    PROVE  \/ \E o \in Occurrences :
                 /\ Others(o)
                 /\ \/ Abandon(o) \/ Fetch(o) \/ Resolve(o) \/ Report(o)
                    \/ StoreError(o) \/ ReportFails(o) \/ MarkReported(o)
                    \/ Start(o) \/ Invoke(o) \/ Finish(o)
                    \/ Advance(o) \/ Load(o) \/ Count(o) \/ Ask(o) \/ AskPhase(o)
           \/ UNCHANGED <<place, hand>>
           \/ \A o \in Occurrences : hand'[o].of = o /\ place'[o] \in {"out", "queued"}
  <1>1. ASSUME NEW o \in Occurrences,
               \/ Abandon(o) \/ Fetch(o) \/ Resolve(o) \/ Report(o)
               \/ StoreError(o) \/ ReportFails(o) \/ MarkReported(o)
               \/ Start(o) \/ Invoke(o) \/ Finish(o)
               \/ Advance(o) \/ Load(o) \/ Count(o) \/ Ask(o) \/ AskPhase(o)
        PROVE  Others(o)
    <2>1. CASE Abandon(o) \/ Fetch(o) \/ Resolve(o) \/ Report(o) \/ Start(o) \/ Count(o)
      BY <2>1, AbandonWays, FetchWays, ResolveWays, ReportWays, StartWays, CountWays DEF Moved
    <2>2. CASE StoreError(o) \/ ReportFails(o) \/ MarkReported(o) \/ Invoke(o) \/ Finish(o)
      BY <2>2, StoreErrorWays, ReportFailsWays, MarkReportedWays, InvokeWays, FinishWays
         DEF Moved, Concluded
    <2>3. CASE Advance(o) \/ Load(o) \/ Ask(o) \/ AskPhase(o)
      BY <2>3, AdvanceWays, LoadWays, AskWays, AskPhaseWays DEF Moved, Concluded
    <2> QED
      BY <1>1, <2>1, <2>2, <2>3
  <1>2. ASSUME BeginSweep \/ Crash \/ Exit, NEW o \in Occurrences
        PROVE  hand'[o].of = o /\ place'[o] \in {"out", "queued"}
    <2>1. CASE BeginSweep
      BY <2>1 DEF BeginSweep, Idle, Control, InHand
    <2>2. CASE Crash \/ Exit
      BY <2>2 DEF Crash, Exit, Clear, Empty
    <2> QED
      BY <1>2, <2>1, <2>2
  <1>3. ASSUME \/ \E o \in Occurrences : \/ Deliver(o) \/ WriteDelivery(o) \/ IndexReview(o)
                                        \/ Acknowledge(o) \/ HandlerError(o) \/ Orphan(o)
               \/ Listen \/ StartProcess \/ Stop \/ UNCHANGED vars
        PROVE  UNCHANGED <<place, hand>>
    BY <1>3 DEF Deliver, WriteDelivery, IndexReview, Acknowledge, HandlerError, Orphan, Listen,
                StartProcess, Stop, vars, files, process
  <1> QED
    BY <1>1, <1>2, <1>3 DEF Next

LEMMA DealsStep ==
    ASSUME TypeOK, Control, StartAhead, ReturnAhead, \A o \in Occurrences : Deals(o), [Next]_vars,
           NEW q \in Occurrences
    PROVE  Deals(q)'
  <1>1. ASSUME NEW o \in Occurrences, Others(o),
               \/ Abandon(o) \/ Fetch(o) \/ Resolve(o) \/ Report(o)
               \/ StoreError(o) \/ ReportFails(o) \/ MarkReported(o)
               \/ Start(o) \/ Invoke(o) \/ Finish(o)
               \/ Advance(o) \/ Load(o) \/ Count(o) \/ Ask(o) \/ AskPhase(o)
        PROVE  Deals(q)'
    <2>1. CASE q # o
      BY <1>1, <2>1, DealsStay DEF Others
    <2>2. Deals(o)'
      BY <1>1, ReturningDeals, StoreErrorDeals, MarkDeals, RouteDeals, AdvanceDeals, LoadDeals,
         CountDeals, AskDeals, AskPhaseDeals
    <2> QED
      BY <2>1, <2>2
  <1>2. CASE UNCHANGED <<place, hand>>
    BY <1>2, DealsStay
  <1>3. CASE \A o \in Occurrences : hand'[o].of = o /\ place'[o] \in {"out", "queued"}
    BY <1>3, ElsewhereDeals
  <1> QED
    BY <1>1, <1>2, <1>3, SweepKinds

\* An outcome is recorded with the warrant of the goroutine that records it, and
\* one that is on record is not there while its own route is being invoked.
LEMMA AnswersStep ==
    ASSUME TypeOK, Control, Undisturbed, Warranted, [Next]_vars, NEW t \in Occurrences
    PROVE  Answers(t)'
  <1>1. CASE outcome'[t] = outcome[t]
    <2> SUFFICES ASSUME outcome[t] # None
                 PROVE  Warrant(outcome[t].by, t, outcome[t].outcome)'
      BY <1>1 DEF Answers
    <2>1. outcome[t] \in Resolutions
      BY DEF TypeOK
    <2>2. PICK o \in Occurrences, v \in Outcomes : o = outcome[t].by /\ v = outcome[t].outcome
      BY <2>1 DEF Resolutions
    <2>3. Warrant(o, t, v)
      BY <2>2 DEF Warranted, Answers
    <2>4. ~ Busy(t)
      BY DEF Undisturbed, OwnAnswer
    <2>5. ~ Invoke(t) /\ ~ Finish(t)
      BY <2>4 DEF Invoke, Finish, At, Busy
    <2>6. Warrant(o, t, v)'
      BY <2>3, <2>5, WarrantStays
    <2> QED
      BY <1>1, <2>2, <2>6
  <1>2. ASSUME NEW o \in Occurrences, Resolve(o), outcome'[t] # outcome[t]
        PROVE  Answers(t)'
    <2>1. /\ place[o] = "resolve" /\ hand[o].what \in Resolutions /\ hand[o].what.by = o
          /\ outcome' = [outcome EXCEPT ![hand[o].of] = hand[o].what]
      BY <1>2, ResolveWays
    <2>2. hand[o].of = t /\ outcome'[t] = hand[o].what
      BY <1>2, <2>1 DEF TypeOK
    <2>3. PICK v \in Outcomes : v = hand[o].what.outcome
      BY <2>1 DEF Resolutions
    <2>4. Warrant(o, t, v)
      BY <2>1, <2>2, <2>3 DEF Warranted, Deals
    <2>5. ~ Invoke(o) /\ ~ Finish(o)
      BY <2>1 DEF Invoke, Finish, At
    <2>6. Warrant(o, t, v)'
      BY <2>4, <2>5, WarrantStays
    <2> QED
      BY <2>1, <2>2, <2>3, <2>6 DEF Answers
  <1>3. ASSUME ~ \E o \in Occurrences : Resolve(o)
        PROVE  outcome' = outcome
    BY <1>3 DEF Next, Deliver, WriteDelivery, IndexReview, Acknowledge, HandlerError, Abandon,
                Advance, Fetch, Load, Start, Invoke, Finish, Orphan, Report, ReportFails,
                MarkReported, Count, Ask, AskPhase, StoreError, BeginSweep, Listen, StartProcess,
                Crash, Stop, Exit, vars, files
  <1> QED
    BY <1>1, <1>2, <1>3

THEOREM WarrantedHolds == Spec => []Warranted
  <1>1. Init => Warranted
    BY DEF Init, Empty, Warranted, Deals, Answers
  <1>2. TypeOK /\ Control /\ StartAhead /\ ReturnAhead /\ Undisturbed /\ Warranted /\ [Next]_vars
          => Warranted'
    BY DealsStep, AnswersStep DEF Warranted
  <1> QED
    BY <1>1, <1>2, ControlHolds, StartAheadHolds, ReturnAheadHolds, UndisturbedHolds, PTL DEF Spec

-----------------------------------------------------------------------------
(* The properties.                                                         *)

\* What an activation answered for itself is what its route's exit declares, or
\* that it is not known though the route may have run; "contained" without an
\* exit is said only of one whose route never ran.
THEOREM OutcomesEarned == Spec => []OutcomeEarned
  <1>1. Warranted => OutcomeEarned
    BY DEF Warranted, Answers, Warrant, OutcomeEarned
  <1> QED
    BY <1>1, WarrantedHolds, PTL

\* A review is answered verified only when Heartime has a return for its parent.
THEOREM ReviewsTruthful == Spec => []ReviewTruthful
  <1>1. Warranted => ReviewTruthful
    BY ReviewsAssumption DEF Warranted, Answers, Warrant, ReviewTruthful
  <1> QED
    BY <1>1, WarrantedHolds, PTL

\* An occurrence nobody here has a record of is contained only after the bound.
THEOREM ContainmentLate == Spec => []ContainedLate
  <1>1. TypeOK /\ Warranted => ContainedLate
    <2> SUFFICES ASSUME TypeOK, Warranted, NEW q \in Occurrences,
                        outcome[q] # None, outcome[q].by # q, outcome[q].outcome = "contained"
                 PROVE  Tally(q) >= ReviewBound
      BY DEF ContainedLate, Tally
    <2> QED
      BY DEF Warranted, Answers, Warrant
  <1> QED
    BY <1>1, WarrantedHolds, ControlHolds, PTL
=============================================================================
