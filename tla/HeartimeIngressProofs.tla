----------------------- MODULE HeartimeIngressProofs -----------------------
(***************************************************************************)
(* Proofs about HeartimeIngress, for any occurrences, reviews of reviews,  *)
(* configurations and number of faults.  First what the goroutines may     *)
(* rely on about the occurrence in their hand; then that no review deals   *)
(* with an occurrence that is on its way to an outcome of its own; then    *)
(* the properties that follow.                                             *)
(***************************************************************************)
EXTENDS HeartimeIngress, FiniteSetTheorems, TLAPS

\* Every exit of a route has a meaning.
LEMMA ClassifyTypes == \A x \in Exits : Classify(x) \in Outcomes
  BY MeaningAssumption DEF Exits, Declared, Outcomes, Classify

\* Sizing an index gives a number.
LEMMA TallyTypes ==
    ASSUME TypeOK, Control, NEW q \in Occurrences
    PROVE  Cardinality({r \in indexed : ParentOf[r] = q}) \in Nat
  BY FS_Subset, FS_CardinalityType, {r \in indexed : ParentOf[r] = q} \subseteq indexed DEF Control

\* The parts of TypeOK that the threads own, and those they share.
ThreadTypeOK ==
    /\ place \in [Occurrences -> Places]
    /\ lane \in [Occurrences -> Handoffs \cup Occurrences]
    /\ hand \in [Occurrences -> [of : Occurrences,
                                 what : Resolutions \cup {None},
                                 tally : Nat]]
    /\ request \in [Occurrences -> {"none", "writing", "indexing", "answering"}]
    /\ \A o \in Occurrences \ Reviews : request[o] # "indexing"
    /\ mode \in Modes
    /\ served \subseteq Occurrences \ Reviews

FileTypeOK ==
    /\ delivery \in [Occurrences -> {"absent", "partial", "whole"}]
    /\ indexed \subseteq Reviews
    /\ started \subseteq Occurrences
    /\ outcome \in [Occurrences -> Resolutions \cup {None}]
    /\ reported \in [Occurrences -> Resolutions \cup {None}]
    /\ route \in [Occurrences -> {"never", "running", "ended"}]
    /\ exit \in [Occurrences -> Exits \cup {"none"}]
    /\ ledger \in [Occurrences -> Resolutions \cup {None}]
    /\ faults \in 0 .. MaxFaults

LEMMA TypeSplit ==
    /\ TypeOK <=> ThreadTypeOK /\ FileTypeOK
    /\ TypeOK' <=> ThreadTypeOK' /\ FileTypeOK'
  BY DEF TypeOK, ThreadTypeOK, FileTypeOK

\* A step of the goroutine of o leaves the other goroutines where they are.
Others(o) ==
    \A q \in Occurrences \ {o} : place'[q] = place[q] /\ hand'[q] = hand[q]

\* The goroutine of o has come to a place, with the occurrence t and w in hand.
Moved(o, to, t, w) ==
    /\ ThreadTypeOK'
    /\ Others(o)
    /\ place'[o] = to
    /\ hand'[o].of = t
    /\ hand'[o].what = w

LEMMA GoMoves ==
    ASSUME TypeOK, NEW o \in Occurrences, NEW to \in Places, Go(o, to)
    PROVE  Moved(o, to, hand[o].of, hand[o].what)
  BY DEF Go, Moved, Others, TypeOK, ThreadTypeOK

LEMMA LeaveMoves ==
    ASSUME TypeOK, NEW o \in Occurrences, Leave(o)
    PROVE  Moved(o, "out", o, None)
  BY DEF Leave, Empty, Moved, Others, TypeOK, ThreadTypeOK, Places

LEMMA HoldMoves ==
    ASSUME TypeOK, NEW o \in Occurrences, NEW to \in Places,
           NEW t \in Occurrences, NEW w \in Resolutions \cup {None}, Hold(o, to, t, w)
    PROVE  Moved(o, to, t, w)
  BY DEF Hold, Moved, Others, TypeOK, ThreadTypeOK

LEMMA ConcludeMoves ==
    ASSUME TypeOK, NEW o \in Occurrences, NEW t \in Occurrences, NEW v \in Outcomes,
           Conclude(o, t, v)
    PROVE  /\ Moved(o, "resolve", t, [outcome |-> v, by |-> o])
           /\ [outcome |-> v, by |-> o] \in Resolutions
  <1>1. [outcome |-> v, by |-> o] \in Resolutions
    BY DEF Resolutions
  <1>2. "resolve" \in Places
    BY DEF Places, Working
  <1> QED
    BY <1>1, <1>2, HoldMoves DEF Conclude

\* The goroutine of o is going to resolve t with a result of its own.
Concluded(o, t) ==
    \E w \in Resolutions : w.by = o /\ Moved(o, "resolve", t, w)

LEMMA ConcludeConcludes ==
    ASSUME TypeOK, NEW o \in Occurrences, NEW t \in Occurrences, NEW v \in Outcomes,
           Conclude(o, t, v)
    PROVE  Concluded(o, t)
  BY ConcludeMoves DEF Concluded

\* The ways of a goroutine through the code, action by action.
LEMMA AbandonWays ==
    ASSUME TypeOK, NEW o \in Occurrences, Abandon(o)
    PROVE  place[o] = "queued" /\ Moved(o, "out", o, None)
  BY LeaveMoves DEF Abandon, Turn

LEMMA AdvanceWays ==
    ASSUME TypeOK, Control, NEW o \in Occurrences, Advance(o)
    PROVE  /\ place[o] = "queued"
           /\ \/ Moved(o, "out", o, None)
              \/ outcome[o] # None /\ Moved(o, "fetch", o, hand[o].what)
              \/ outcome[o] = None /\ o \in started /\ Concluded(o, o)
              \/ outcome[o] = None /\ o \notin started /\ Moved(o, "load", o, hand[o].what)
  <1>1. place[o] = "queued" /\ hand[o].of = o
    BY DEF Advance, Turn, Control, InHand
  <1>2. {"fetch", "load"} \subseteq Places
    BY DEF Places, Working
  <1>3. CASE PhaseOf(o) = "complete"
    BY <1>1, <1>3, LeaveMoves DEF Advance
  <1>4. CASE PhaseOf(o) = "unreported"
    <2>1. outcome[o] # None
      BY <1>4 DEF PhaseOf
    <2>2. Go(o, "fetch")
      BY <1>4 DEF Advance
    <2> QED
      BY <1>1, <1>2, <2>1, <2>2, GoMoves
  <1>5. CASE PhaseOf(o) = "in-flight"
    <2>1. outcome[o] = None /\ o \in started
      BY <1>5 DEF PhaseOf
    <2>2. Conclude(o, o, "uncertain")
      BY <1>5 DEF Advance
    <2> QED
      BY <1>1, <2>1, <2>2, ConcludeConcludes DEF Outcomes
  <1>6. CASE PhaseOf(o) = "undispatched"
    <2>1. outcome[o] = None /\ o \notin started
      BY <1>6 DEF PhaseOf
    <2>2. Go(o, "load")
      BY <1>6 DEF Advance
    <2> QED
      BY <1>1, <1>2, <2>1, <2>2, GoMoves
  <1> QED
    BY <1>3, <1>4, <1>5, <1>6 DEF PhaseOf

LEMMA FetchWays ==
    ASSUME TypeOK, NEW o \in Occurrences, Fetch(o)
    PROVE  place[o] = "fetch" /\ Moved(o, "report", hand[o].of, outcome[hand[o].of])
  <1>1. /\ hand[o].of \in Occurrences
        /\ outcome[hand[o].of] \in Resolutions \cup {None}
        /\ "report" \in Places
    BY DEF TypeOK, Places, Working
  <1> QED
    BY <1>1, HoldMoves DEF Fetch, At

LEMMA LoadWays ==
    ASSUME TypeOK, Control, NEW o \in Occurrences, Load(o)
    PROVE  /\ place[o] = "load"
           /\ \/ Moved(o, "out", o, None)
              \/ o \in Reviews /\ Moved(o, "count", o, hand[o].what)
              \/ Moved(o, "start", o, hand[o].what)
              \/ Concluded(o, o)
  <1>1. place[o] = "load" /\ hand[o].of = o
    BY DEF Load, At, Control, InHand
  <1>2. {"count", "start"} \subseteq Places
    BY DEF Places, Working
  <1>3. \/ Leave(o)
        \/ o \in Reviews /\ Go(o, "count")
        \/ Go(o, "start")
        \/ Conclude(o, o, "contained")
    BY DEF Load
  <1> QED
    BY <1>1, <1>2, <1>3, LeaveMoves, GoMoves, ConcludeConcludes DEF Outcomes

LEMMA StartWays ==
    ASSUME TypeOK, Control, NEW o \in Occurrences, Start(o)
    PROVE  place[o] = "start" /\ Moved(o, "invoke", o, hand[o].what)
  <1>1. place[o] = "start" /\ hand[o].of = o /\ "invoke" \in Places
    BY DEF Start, At, Control, InHand, Places, Working
  <1> QED
    BY <1>1, GoMoves DEF Start

LEMMA InvokeWays ==
    ASSUME TypeOK, Control, NEW o \in Occurrences, Invoke(o)
    PROVE  /\ place[o] = "invoke"
           /\ \/ /\ route' = [route EXCEPT ![o] = "running"]
                 /\ exit' = exit
                 /\ Moved(o, "running", o, hand[o].what)
              \/ /\ exit' = [exit EXCEPT ![o] = "unstarted"]
                 /\ route' = route
                 /\ Concluded(o, o)
  <1>1. place[o] = "invoke" /\ hand[o].of = o /\ "running" \in Places
    BY DEF Invoke, At, Control, InHand, Places, Working
  <1>2. Classify("unstarted") \in Outcomes
    BY ClassifyTypes DEF Exits
  <1> QED
    BY <1>1, <1>2, GoMoves, ConcludeConcludes DEF Invoke

LEMMA FinishWays ==
    ASSUME TypeOK, NEW o \in Occurrences, Finish(o)
    PROVE  /\ place[o] = "running"
           /\ route' = [route EXCEPT ![o] = "ended"]
           /\ \E x \in Exits : exit' = [exit EXCEPT ![o] = x]
           /\ Concluded(o, o)
  <1>1. PICK x \in Exits : exit' = [exit EXCEPT ![o] = x] /\ Conclude(o, o, Classify(x))
    BY ExitsAssumption DEF Finish, Exits
  <1> QED
    BY <1>1, ClassifyTypes, ConcludeConcludes DEF Finish, At

LEMMA ResolveWays ==
    ASSUME TypeOK, Control, NEW o \in Occurrences, Resolve(o)
    PROVE  /\ place[o] = "resolve"
           /\ hand[o].what \in Resolutions
           /\ hand[o].what.by = o
           /\ outcome' = [outcome EXCEPT ![hand[o].of] = hand[o].what]
           /\ Moved(o, "report", hand[o].of, hand[o].what)
  <1>1. hand[o].of \in Occurrences /\ "report" \in Places
    BY DEF TypeOK, Places, Working
  <1> QED
    BY <1>1, GoMoves DEF Resolve, At, Control, InHand, TypeOK

LEMMA ReportWays ==
    ASSUME TypeOK, Control, NEW o \in Occurrences, Report(o)
    PROVE  /\ place[o] = "report"
           /\ hand[o].what \in Resolutions
           /\ ledger' = [ledger EXCEPT ![hand[o].of] = hand[o].what]
           /\ Moved(o, "mark", hand[o].of, hand[o].what)
  <1>1. hand[o].of \in Occurrences /\ "mark" \in Places
    BY DEF TypeOK, Places, Working
  <1> QED
    BY <1>1, GoMoves DEF Report, At, Control, InHand, TypeOK

\* After a report that failed a goroutine leaves, or turns to its own occurrence.
LEMMA UnreportedWays ==
    ASSUME TypeOK, NEW o \in Occurrences, Unreported(o)
    PROVE  \/ hand[o].of = o /\ Moved(o, "out", o, None)
           \/ hand[o].of # o /\ Concluded(o, o)
  BY LeaveMoves, ConcludeConcludes DEF Unreported, Outcomes

LEMMA ReportFailsWays ==
    ASSUME TypeOK, Control, NEW o \in Occurrences, ReportFails(o)
    PROVE  /\ place[o] = "report"
           /\ hand[o].what \in Resolutions
           /\ ledger' = ledger \/ ledger' = [ledger EXCEPT ![hand[o].of] = hand[o].what]
           /\ \/ hand[o].of = o /\ Moved(o, "out", o, None)
              \/ hand[o].of # o /\ Concluded(o, o)
  BY UnreportedWays DEF ReportFails, At, Control, InHand, TypeOK

LEMMA MarkReportedWays ==
    ASSUME TypeOK, Control, NEW o \in Occurrences, MarkReported(o)
    PROVE  /\ place[o] = "mark"
           /\ hand[o].what \in Resolutions
           /\ reported' = [reported EXCEPT ![hand[o].of] = hand[o].what]
           /\ \/ hand[o].of = o /\ Moved(o, "out", o, None)
              \/ hand[o].of # o /\ Concluded(o, o)
  <1>1. \/ hand[o].of = o /\ Leave(o)
        \/ hand[o].of # o /\ Conclude(o, o, "verified")
    BY DEF MarkReported
  <1> QED
    BY <1>1, LeaveMoves, ConcludeConcludes DEF MarkReported, At, Control, InHand, TypeOK, Outcomes

LEMMA CountWays ==
    ASSUME TypeOK, Control, NEW o \in Occurrences, Count(o)
    PROVE  /\ place[o] = "count"
           /\ o \in Reviews
           /\ Moved(o, "ask", o, hand[o].what)
  <1>1. o \in Reviews /\ ParentOf[o] \in Occurrences /\ hand[o].of = o /\ "ask" \in Places
    BY ReviewsAssumption DEF Count, At, Control, InHand, Places, Working
  <1> DEFINE n == Cardinality({r \in indexed : ParentOf[r] = ParentOf[o]})
  <1>2. n \in Nat
    BY <1>1, TallyTypes
  <1>3. hand' = [hand EXCEPT ![o].tally = n] /\ place' = [place EXCEPT ![o] = "ask"]
    BY DEF Count
  <1>4. UNCHANGED <<mode, served, request, lane>>
    BY DEF Count
  <1> HIDE DEF n
  <1>5. ThreadTypeOK'
    BY <1>1, <1>2, <1>3, <1>4 DEF TypeOK, ThreadTypeOK
  <1> QED
    BY <1>1, <1>3, <1>5 DEF Count, At, Moved, Others, TypeOK

LEMMA AskWays ==
    ASSUME TypeOK, Control, NEW o \in Occurrences, Ask(o)
    PROVE  /\ place[o] = "ask"
           /\ o \in Reviews
           /\ ParentOf[o] \in Occurrences \ {o}
           /\ \/ delivery[ParentOf[o]] = "absent" /\ Concluded(o, ParentOf[o])
              \/ Moved(o, "phase", o, hand[o].what)
  <1>1. /\ place[o] = "ask" /\ o \in Reviews /\ hand[o].of = o
        /\ ParentOf[o] \in Occurrences \ {o} /\ "phase" \in Places
    BY ReviewsAssumption DEF Ask, At, Control, InHand, Places, Working
  <1>2. UnknownOutcome(hand[o].tally) \in Outcomes
    BY DEF UnknownOutcome, Outcomes
  <1>3. \/ /\ delivery[ParentOf[o]] = "absent"
           /\ Conclude(o, ParentOf[o], UnknownOutcome(hand[o].tally))
        \/ Go(o, "phase")
    BY DEF Ask
  <1> QED
    BY <1>1, <1>2, <1>3, GoMoves, ConcludeConcludes

LEMMA AskPhaseWays ==
    ASSUME TypeOK, Control, NEW o \in Occurrences, AskPhase(o)
    PROVE  /\ place[o] = "phase"
           /\ o \in Reviews
           /\ ParentOf[o] \in Occurrences \ {o}
           /\ \/ Concluded(o, o)
              \/ outcome[ParentOf[o]] # None /\ Moved(o, "fetch", ParentOf[o], None)
  <1>1. /\ place[o] = "phase" /\ o \in Reviews
        /\ ParentOf[o] \in Occurrences \ {o} /\ "fetch" \in Places
    BY ReviewsAssumption DEF AskPhase, At, Control, InHand, Places, Working
  <1>2. PhaseOf(ParentOf[o]) = "unreported" => outcome[ParentOf[o]] # None
    BY DEF PhaseOf
  <1>3. \/ Conclude(o, o, "verified") \/ Conclude(o, o, "contained")
        \/ PhaseOf(ParentOf[o]) = "unreported" /\ Hold(o, "fetch", ParentOf[o], None)
    BY DEF AskPhase
  <1> QED
    BY <1>1, <1>2, <1>3, HoldMoves, ConcludeConcludes DEF Outcomes

LEMMA StoreErrorWays ==
    ASSUME TypeOK, Control, NEW o \in Occurrences, StoreError(o)
    PROVE  /\ place[o] \in {"start", "resolve", "mark"}
           /\ \/ hand[o].of = o /\ Moved(o, "out", o, None)
              \/ hand[o].of # o /\ Concluded(o, o)
  <1>1. CASE At(o, "start") /\ Leave(o)
    BY <1>1, LeaveMoves DEF At, Control, InHand
  <1>2. CASE place[o] \in {"resolve", "mark"} /\ Unreported(o)
    BY <1>2, UnreportedWays
  <1> QED
    BY <1>1, <1>2 DEF StoreError

-----------------------------------------------------------------------------
(* Control.                                                                *)

\* A step of one goroutine keeps TypeOK and Control if its own hand fits.
LEMMA ControlKept ==
    ASSUME TypeOK, Control, NEW o \in Occurrences, Others(o), ThreadTypeOK', FileTypeOK',
           IsFiniteSet(indexed'), InHand(o)',
           \A t \in Occurrences : outcome[t] # None => outcome'[t] # None
    PROVE  TypeOK' /\ Control'
  <1>1. ASSUME NEW q \in Occurrences, q # o PROVE InHand(q)'
    <2>1. place'[q] = place[q] /\ hand'[q] = hand[q] /\ hand[q].of \in Occurrences
      BY <1>1 DEF Others, TypeOK
    <2> QED
      BY <2>1 DEF Control, InHand
  <1> QED
    BY <1>1, TypeSplit DEF Control

\* No step leaves the types, or what the goroutines may rely on.
LEMMA ControlStep == TypeOK /\ Control /\ [Next]_vars => TypeOK' /\ Control'
  <1> SUFFICES ASSUME TypeOK, Control, [Next]_vars
               PROVE  TypeOK' /\ Control'
    OBVIOUS
  <1>1. ASSUME NEW o \in Occurrences, Deliver(o) PROVE TypeOK' /\ Control'
    <2>1. FileTypeOK' /\ IsFiniteSet(indexed') /\ outcome' = outcome
      BY <1>1, FS_AddElement, MaxFaultsAssumption DEF Deliver, Fault, TypeOK, FileTypeOK, Control, files, process, outside
    <2>2. ThreadTypeOK' /\ Others(o)
      BY <1>1 DEF Deliver, HandlerStep, TypeOK, ThreadTypeOK, Others, files, process, outside
    <2>3. InHand(o)'
      BY <1>1 DEF Deliver, Control, InHand, files, process, outside
    <2> QED
      BY <2>1, <2>2, <2>3, ControlKept
  <1>2. ASSUME NEW o \in Occurrences, WriteDelivery(o) PROVE TypeOK' /\ Control'
    <2>1. FileTypeOK' /\ IsFiniteSet(indexed') /\ outcome' = outcome
      BY <1>2, FS_AddElement, MaxFaultsAssumption DEF WriteDelivery, Fault, TypeOK, FileTypeOK, Control, files, process, outside
    <2>2. ThreadTypeOK' /\ Others(o)
      BY <1>2 DEF WriteDelivery, HandlerStep, TypeOK, ThreadTypeOK, Others, files, process, outside
    <2>3. InHand(o)'
      BY <1>2 DEF WriteDelivery, Control, InHand, files, process, outside
    <2> QED
      BY <2>1, <2>2, <2>3, ControlKept
  <1>3. ASSUME NEW o \in Occurrences, IndexReview(o) PROVE TypeOK' /\ Control'
    <2>0. o \in Reviews
      BY <1>3 DEF IndexReview, HandlerStep, TypeOK
    <2>1. FileTypeOK' /\ IsFiniteSet(indexed') /\ outcome' = outcome
      BY <1>3, <2>0, FS_AddElement, MaxFaultsAssumption DEF IndexReview, Fault, TypeOK, FileTypeOK, Control, files, process, outside
    <2>2. ThreadTypeOK' /\ Others(o)
      BY <1>3 DEF IndexReview, HandlerStep, TypeOK, ThreadTypeOK, Others, files, process, outside
    <2>3. InHand(o)'
      BY <1>3 DEF IndexReview, Control, InHand, files, process, outside
    <2> QED
      BY <2>1, <2>2, <2>3, ControlKept
  <1>4. ASSUME NEW o \in Occurrences, Acknowledge(o) PROVE TypeOK' /\ Control'
    <2>1. FileTypeOK' /\ IsFiniteSet(indexed') /\ outcome' = outcome
      BY <1>4, FS_AddElement, MaxFaultsAssumption DEF Acknowledge, Fault, TypeOK, FileTypeOK, Control, files, process, outside
    <2>2. ThreadTypeOK' /\ Others(o)
      BY <1>4 DEF Acknowledge, HandlerStep, TypeOK, ThreadTypeOK, Others, files, process, outside
    <2>3. InHand(o)'
      BY <1>4 DEF Acknowledge, Control, InHand, files, process, outside
    <2> QED
      BY <2>1, <2>2, <2>3, ControlKept
  <1>5. ASSUME NEW o \in Occurrences, HandlerError(o) PROVE TypeOK' /\ Control'
    <2>1. FileTypeOK' /\ IsFiniteSet(indexed') /\ outcome' = outcome
      BY <1>5, FS_AddElement, MaxFaultsAssumption DEF HandlerError, Fault, TypeOK, FileTypeOK, Control, files, process, outside
    <2>2. ThreadTypeOK' /\ Others(o)
      BY <1>5 DEF HandlerError, HandlerStep, TypeOK, ThreadTypeOK, Others, files, process, outside
    <2>3. InHand(o)'
      BY <1>5 DEF HandlerError, Control, InHand, files, process, outside
    <2> QED
      BY <2>1, <2>2, <2>3, ControlKept
  <1>6. ASSUME NEW o \in Occurrences, Orphan(o) PROVE TypeOK' /\ Control'
    <2>1. FileTypeOK' /\ IsFiniteSet(indexed') /\ outcome' = outcome
      BY <1>6, FS_AddElement, MaxFaultsAssumption DEF Orphan, Fault, TypeOK, FileTypeOK, Control, files, process, outside
    <2>2. ThreadTypeOK' /\ Others(o)
      BY <1>6 DEF Orphan, HandlerStep, TypeOK, ThreadTypeOK, Others, files, process, outside
    <2>3. InHand(o)'
      BY <1>6 DEF Orphan, Control, InHand, files, process, outside
    <2> QED
      BY <2>1, <2>2, <2>3, ControlKept
  <1>7. ASSUME NEW o \in Occurrences, Abandon(o) PROVE TypeOK' /\ Control'
    <2>1. FileTypeOK' /\ IsFiniteSet(indexed') /\ outcome' = outcome
      BY <1>7, MaxFaultsAssumption DEF Abandon, Fault, TypeOK, FileTypeOK, Control, files, outside
    <2>2. ThreadTypeOK' /\ Others(o) /\ InHand(o)'
      BY <1>7, <2>1, AbandonWays, NoneAssumption DEF Moved, Concluded, Control, InHand
    <2> QED
      BY <2>1, <2>2, ControlKept
  <1>8. ASSUME NEW o \in Occurrences, Advance(o) PROVE TypeOK' /\ Control'
    <2>1. FileTypeOK' /\ IsFiniteSet(indexed') /\ outcome' = outcome
      BY <1>8, MaxFaultsAssumption DEF Advance, Fault, TypeOK, FileTypeOK, Control, files, outside
    <2>2. ThreadTypeOK' /\ Others(o) /\ InHand(o)'
      BY <1>8, <2>1, AdvanceWays, NoneAssumption DEF Moved, Concluded, InHand
    <2> QED
      BY <2>1, <2>2, ControlKept
  <1>9. ASSUME NEW o \in Occurrences, Fetch(o) PROVE TypeOK' /\ Control'
    <2>1. FileTypeOK' /\ IsFiniteSet(indexed') /\ outcome' = outcome
      BY <1>9, MaxFaultsAssumption DEF Fetch, Fault, TypeOK, FileTypeOK, Control, files, outside
    <2>2. ThreadTypeOK' /\ Others(o) /\ InHand(o)'
      BY <1>9, <2>1, FetchWays, NoneAssumption DEF Moved, Concluded, Control, InHand
    <2> QED
      BY <2>1, <2>2, ControlKept
  <1>10. ASSUME NEW o \in Occurrences, Load(o) PROVE TypeOK' /\ Control'
    <2>1. FileTypeOK' /\ IsFiniteSet(indexed') /\ outcome' = outcome
      BY <1>10, MaxFaultsAssumption DEF Load, Fault, TypeOK, FileTypeOK, Control, files, outside
    <2>2. ThreadTypeOK' /\ Others(o) /\ InHand(o)'
      BY <1>10, <2>1, LoadWays, NoneAssumption DEF Moved, Concluded, Control, InHand
    <2> QED
      BY <2>1, <2>2, ControlKept
  <1>11. ASSUME NEW o \in Occurrences, Start(o) PROVE TypeOK' /\ Control'
    <2>1. FileTypeOK' /\ IsFiniteSet(indexed') /\ outcome' = outcome
      BY <1>11, MaxFaultsAssumption DEF Start, Fault, TypeOK, FileTypeOK, Control, files, outside
    <2>2. ThreadTypeOK' /\ Others(o) /\ InHand(o)'
      BY <1>11, <2>1, StartWays, NoneAssumption DEF Moved, Concluded, Control, InHand
    <2> QED
      BY <2>1, <2>2, ControlKept
  <1>12. ASSUME NEW o \in Occurrences, Invoke(o) PROVE TypeOK' /\ Control'
    <2>0. "unstarted" \in Exits
      BY DEF Exits
    <2>1. FileTypeOK' /\ IsFiniteSet(indexed') /\ outcome' = outcome
      BY <1>12, <2>0, InvokeWays, MaxFaultsAssumption DEF Invoke, Fault, TypeOK, FileTypeOK, Control, files, outside
    <2>2. ThreadTypeOK' /\ Others(o) /\ InHand(o)'
      BY <1>12, <2>1, InvokeWays, NoneAssumption DEF Moved, Concluded, Control, InHand
    <2> QED
      BY <2>1, <2>2, ControlKept
  <1>13. ASSUME NEW o \in Occurrences, Finish(o) PROVE TypeOK' /\ Control'
    <2>0. PICK x \in Exits : exit' = [exit EXCEPT ![o] = x]
      BY <1>13, FinishWays
    <2>1. FileTypeOK' /\ IsFiniteSet(indexed') /\ outcome' = outcome
      BY <1>13, <2>0, FinishWays, MaxFaultsAssumption DEF Finish, Fault, TypeOK, FileTypeOK, Control, files, outside
    <2>2. ThreadTypeOK' /\ Others(o) /\ InHand(o)'
      BY <1>13, <2>1, FinishWays, NoneAssumption DEF Moved, Concluded, Control, InHand
    <2> QED
      BY <2>1, <2>2, ControlKept
  <1>14. ASSUME NEW o \in Occurrences, Resolve(o) PROVE TypeOK' /\ Control'
    <2> DEFINE t == hand[o].of
    <2>1. /\ t \in Occurrences
          /\ hand[o].what \in Resolutions
          /\ outcome' = [outcome EXCEPT ![t] = hand[o].what]
      BY <1>14, ResolveWays DEF TypeOK
    <2>2. FileTypeOK' /\ IsFiniteSet(indexed')
      BY <1>14, <2>1 DEF Resolve, TypeOK, FileTypeOK, Control, outside
    <2>3. \A u \in Occurrences : outcome[u] # None => outcome'[u] # None
      BY <2>1, NoneAssumption DEF TypeOK
    <2>4. ThreadTypeOK' /\ Others(o) /\ InHand(o)'
      BY <1>14, ResolveWays, NoneAssumption DEF Moved, InHand
    <2> QED
      BY <2>2, <2>3, <2>4, ControlKept
  <1>15. ASSUME NEW o \in Occurrences, Report(o) PROVE TypeOK' /\ Control'
    <2>1. FileTypeOK' /\ IsFiniteSet(indexed') /\ outcome' = outcome
      BY <1>15, ReportWays, MaxFaultsAssumption DEF Report, Fault, TypeOK, FileTypeOK, Control, files, outside
    <2>2. ThreadTypeOK' /\ Others(o) /\ InHand(o)'
      BY <1>15, <2>1, ReportWays, NoneAssumption DEF Moved, Concluded, Control, InHand
    <2> QED
      BY <2>1, <2>2, ControlKept
  <1>16. ASSUME NEW o \in Occurrences, ReportFails(o) PROVE TypeOK' /\ Control'
    <2>1. FileTypeOK' /\ IsFiniteSet(indexed') /\ outcome' = outcome
      BY <1>16, ReportFailsWays, MaxFaultsAssumption DEF ReportFails, Fault, TypeOK, FileTypeOK, Control, files, outside
    <2>2. ThreadTypeOK' /\ Others(o) /\ InHand(o)'
      BY <1>16, <2>1, ReportFailsWays, NoneAssumption DEF Moved, Concluded, Control, InHand
    <2> QED
      BY <2>1, <2>2, ControlKept
  <1>17. ASSUME NEW o \in Occurrences, MarkReported(o) PROVE TypeOK' /\ Control'
    <2>1. FileTypeOK' /\ IsFiniteSet(indexed') /\ outcome' = outcome
      BY <1>17, MarkReportedWays, MaxFaultsAssumption DEF MarkReported, Fault, TypeOK, FileTypeOK, Control, files, outside
    <2>2. ThreadTypeOK' /\ Others(o) /\ InHand(o)'
      BY <1>17, <2>1, MarkReportedWays, NoneAssumption DEF Moved, Concluded, Control, InHand
    <2> QED
      BY <2>1, <2>2, ControlKept
  <1>18. ASSUME NEW o \in Occurrences, Count(o) PROVE TypeOK' /\ Control'
    <2>1. FileTypeOK' /\ IsFiniteSet(indexed') /\ outcome' = outcome
      BY <1>18, MaxFaultsAssumption DEF Count, Fault, TypeOK, FileTypeOK, Control, files, outside
    <2>2. ThreadTypeOK' /\ Others(o) /\ InHand(o)'
      BY <1>18, <2>1, CountWays, NoneAssumption DEF Moved, Concluded, Control, InHand
    <2> QED
      BY <2>1, <2>2, ControlKept
  <1>19. ASSUME NEW o \in Occurrences, Ask(o) PROVE TypeOK' /\ Control'
    <2>1. FileTypeOK' /\ IsFiniteSet(indexed') /\ outcome' = outcome
      BY <1>19, MaxFaultsAssumption DEF Ask, Fault, TypeOK, FileTypeOK, Control, files, outside
    <2>2. ThreadTypeOK' /\ Others(o) /\ InHand(o)'
      BY <1>19, <2>1, AskWays, NoneAssumption DEF Moved, Concluded, Control, InHand
    <2> QED
      BY <2>1, <2>2, ControlKept
  <1>20. ASSUME NEW o \in Occurrences, AskPhase(o) PROVE TypeOK' /\ Control'
    <2>1. FileTypeOK' /\ IsFiniteSet(indexed') /\ outcome' = outcome
      BY <1>20, MaxFaultsAssumption DEF AskPhase, Fault, TypeOK, FileTypeOK, Control, files, outside
    <2>2. ThreadTypeOK' /\ Others(o) /\ InHand(o)'
      BY <1>20, <2>1, AskPhaseWays, NoneAssumption DEF Moved, Concluded, Control, InHand
    <2> QED
      BY <2>1, <2>2, ControlKept
  <1>21. ASSUME NEW o \in Occurrences, StoreError(o) PROVE TypeOK' /\ Control'
    <2>1. FileTypeOK' /\ IsFiniteSet(indexed') /\ outcome' = outcome
      BY <1>21, MaxFaultsAssumption DEF StoreError, Fault, TypeOK, FileTypeOK, Control, files, outside
    <2>2. ThreadTypeOK' /\ Others(o) /\ InHand(o)'
      BY <1>21, <2>1, StoreErrorWays, NoneAssumption DEF Moved, Concluded, Control, InHand
    <2> QED
      BY <2>1, <2>2, ControlKept
  <1>22. ASSUME BeginSweep PROVE TypeOK' /\ Control'
    BY <1>22, HandoffsAssumption, ConfigurationsAssumption
       DEF BeginSweep, TypeOK, Control, InHand, Idle, Modes, Places, files, outside
  <1>23. ASSUME Listen PROVE TypeOK' /\ Control'
    BY <1>23, HandoffsAssumption, ConfigurationsAssumption
       DEF Listen, TypeOK, Control, InHand, Idle, Modes, Places, files, outside
  <1>24. ASSUME StartProcess PROVE TypeOK' /\ Control'
    BY <1>24, HandoffsAssumption, ConfigurationsAssumption
       DEF StartProcess, TypeOK, Control, InHand, Idle, Modes, Places, files, outside
  <1>25. ASSUME Crash PROVE TypeOK' /\ Control'
    <2>1. ThreadTypeOK'
      BY <1>25 DEF Crash, Clear, Empty, TypeOK, ThreadTypeOK, Places, Modes
    <2>2. FileTypeOK' /\ UNCHANGED indexed
      BY <1>25, MaxFaultsAssumption DEF Crash, Fault, TypeOK, FileTypeOK, files, outside
    <2>3. \A o \in Occurrences : InHand(o)'
      BY <1>25 DEF Crash, Clear, Empty, InHand
    <2> QED
      BY <2>1, <2>2, <2>3, TypeSplit DEF Control
  <1>26. ASSUME Stop PROVE TypeOK' /\ Control'
    <2>1. TypeOK'
      BY <1>26, MaxFaultsAssumption DEF Stop, Fault, TypeOK, Modes, files, outside
    <2>2. Control'
      BY <1>26 DEF Stop, Control, InHand, files
    <2> QED
      BY <2>1, <2>2
  <1>27. ASSUME Exit PROVE TypeOK' /\ Control'
    <2>1. ThreadTypeOK'
      BY <1>27 DEF Exit, Clear, Empty, TypeOK, ThreadTypeOK, Places, Modes
    <2>2. FileTypeOK' /\ UNCHANGED indexed
      BY <1>27, MaxFaultsAssumption DEF Exit, Fault, TypeOK, FileTypeOK, files, outside
    <2>3. \A o \in Occurrences : InHand(o)'
      BY <1>27 DEF Exit, Clear, Empty, InHand
    <2> QED
      BY <2>1, <2>2, <2>3, TypeSplit DEF Control
  <1>28. CASE UNCHANGED vars
    BY <1>28 DEF vars, files, process, outside, TypeOK, Control, InHand
  <1> QED
    BY <1>1, <1>2, <1>3, <1>4, <1>5, <1>6, <1>7, <1>8, <1>9, <1>10, <1>11, <1>12, <1>13, <1>14,
       <1>15, <1>16, <1>17, <1>18, <1>19, <1>20, <1>21, <1>22, <1>23, <1>24, <1>25, <1>26, <1>27, <1>28 DEF Next

\* Every variable keeps its type, and no goroutine is surprised by its hand.
THEOREM ControlHolds == Spec => [](TypeOK /\ Control)
  <1>1. Init => TypeOK /\ Control
    <2>1. ASSUME Init PROVE IsFiniteSet(indexed)
      BY <2>1, FS_EmptySet DEF Init
    <2>2. ASSUME Init PROVE TypeOK
      BY <2>2, MaxFaultsAssumption DEF Init, TypeOK, Empty, Places, Modes
    <2>3. ASSUME Init, NEW o \in Occurrences PROVE InHand(o)
      BY <2>3 DEF Init, InHand, Empty
    <2> QED
      BY <2>1, <2>2, <2>3 DEF Control
  <1> QED
    BY <1>1, ControlStep, PTL DEF Spec

\* Every variable keeps its type in every reachable state.
THEOREM IngressTypeCorrect == Spec => []TypeOK
  BY ControlHolds, PTL

-----------------------------------------------------------------------------
(* The start is recorded first.                                            *)

LEMMA StartKept ==
    ASSUME TypeOK, StartAhead, NEW o \in Occurrences, Others(o), started \subseteq started',
           \A q \in Occurrences \ {o} : route'[q] = route[q],
           StartFits(o)', route'[o] # "never" => o \in started'
    PROVE  StartAhead'
  <1>1. ASSUME NEW q \in Occurrences, q # o
        PROVE  StartFits(q)' /\ (route'[q] # "never" => q \in started')
    BY <1>1 DEF StartAhead, StartFits, StartRecorded, Others
  <1> QED
    BY <1>1 DEF StartAhead, StartRecorded

LEMMA FinishFiles == \A o \in Occurrences : Finish(o) => UNCHANGED files
  BY DEF Finish

LEMMA StartStep == TypeOK /\ Control /\ StartAhead /\ [Next]_vars => StartAhead'
  <1> SUFFICES ASSUME TypeOK, Control, StartAhead, [Next]_vars
               PROVE  StartAhead'
    OBVIOUS
  <1>0. \A o \in Occurrences : o \notin started => route[o] = "never"
    BY DEF StartAhead, StartRecorded
  <1>1. ASSUME NEW o \in Occurrences, Deliver(o) PROVE StartAhead'
    BY <1>1 DEF Deliver, StartAhead, StartFits, StartRecorded, files, process, outside
  <1>2. ASSUME NEW o \in Occurrences, WriteDelivery(o) PROVE StartAhead'
    BY <1>2 DEF WriteDelivery, StartAhead, StartFits, StartRecorded, files, process, outside
  <1>3. ASSUME NEW o \in Occurrences, IndexReview(o) PROVE StartAhead'
    BY <1>3 DEF IndexReview, StartAhead, StartFits, StartRecorded, files, process, outside
  <1>4. ASSUME NEW o \in Occurrences, Acknowledge(o) PROVE StartAhead'
    BY <1>4 DEF Acknowledge, StartAhead, StartFits, StartRecorded, files, process, outside
  <1>5. ASSUME NEW o \in Occurrences, HandlerError(o) PROVE StartAhead'
    BY <1>5 DEF HandlerError, StartAhead, StartFits, StartRecorded, files, process, outside
  <1>6. ASSUME NEW o \in Occurrences, Orphan(o) PROVE StartAhead'
    BY <1>6 DEF Orphan, TypeOK, StartAhead, StartFits, StartRecorded, files, process
  <1>7. ASSUME NEW o \in Occurrences, Abandon(o) PROVE StartAhead'
    <2>1. /\ Others(o)
          /\ started \subseteq started'
          /\ \A q \in Occurrences \ {o} : route'[q] = route[q]
      BY <1>7, AbandonWays DEF Abandon, TypeOK, Moved, Concluded, files, outside
    <2>2. StartFits(o)' /\ (route'[o] # "never" => o \in started')
      BY <1>0, <1>7, AbandonWays DEF Abandon, TypeOK, Moved, Concluded, StartAhead, StartFits, StartRecorded, files, outside
    <2> QED
      BY <2>1, <2>2, StartKept
  <1>8. ASSUME NEW o \in Occurrences, Advance(o) PROVE StartAhead'
    <2>1. /\ Others(o)
          /\ started \subseteq started'
          /\ \A q \in Occurrences \ {o} : route'[q] = route[q]
      BY <1>8, AdvanceWays DEF Advance, TypeOK, Moved, Concluded, files, outside
    <2>2. StartFits(o)' /\ (route'[o] # "never" => o \in started')
      BY <1>0, <1>8, AdvanceWays DEF Advance, TypeOK, Moved, Concluded, StartAhead, StartFits, StartRecorded, files, outside
    <2> QED
      BY <2>1, <2>2, StartKept
  <1>9. ASSUME NEW o \in Occurrences, Fetch(o) PROVE StartAhead'
    <2>1. /\ Others(o)
          /\ started \subseteq started'
          /\ \A q \in Occurrences \ {o} : route'[q] = route[q]
      BY <1>9, FetchWays DEF Fetch, TypeOK, Moved, Concluded, files, outside
    <2>2. StartFits(o)' /\ (route'[o] # "never" => o \in started')
      BY <1>0, <1>9, FetchWays DEF Fetch, TypeOK, Moved, Concluded, StartAhead, StartFits, StartRecorded, files, outside
    <2> QED
      BY <2>1, <2>2, StartKept
  <1>10. ASSUME NEW o \in Occurrences, Load(o) PROVE StartAhead'
    <2>1. /\ Others(o)
          /\ started \subseteq started'
          /\ \A q \in Occurrences \ {o} : route'[q] = route[q]
      BY <1>10, LoadWays DEF Load, TypeOK, Moved, Concluded, files, outside
    <2>2. StartFits(o)' /\ (route'[o] # "never" => o \in started')
      BY <1>0, <1>10, LoadWays DEF Load, TypeOK, Moved, Concluded, StartAhead, StartFits, StartRecorded, files, outside
    <2> QED
      BY <2>1, <2>2, StartKept
  <1>11. ASSUME NEW o \in Occurrences, Start(o) PROVE StartAhead'
    <2>1. /\ Others(o)
          /\ started \subseteq started'
          /\ \A q \in Occurrences \ {o} : route'[q] = route[q]
      BY <1>11, StartWays DEF Start, TypeOK, Moved, Concluded, files, outside
    <2>2. StartFits(o)' /\ (route'[o] # "never" => o \in started')
      BY <1>0, <1>11, StartWays DEF Start, TypeOK, Moved, Concluded, StartAhead, StartFits, StartRecorded, files, outside
    <2> QED
      BY <2>1, <2>2, StartKept
  <1>12. ASSUME NEW o \in Occurrences, Invoke(o) PROVE StartAhead'
    <2>1. /\ Others(o)
          /\ started \subseteq started'
          /\ \A q \in Occurrences \ {o} : route'[q] = route[q]
      BY <1>12, InvokeWays DEF Invoke, TypeOK, Moved, Concluded, files, outside
    <2>2. StartFits(o)' /\ (route'[o] # "never" => o \in started')
      BY <1>0, <1>12, InvokeWays DEF Invoke, TypeOK, Moved, Concluded, StartAhead, StartFits, StartRecorded, files, outside
    <2> QED
      BY <2>1, <2>2, StartKept
  <1>13. ASSUME NEW o \in Occurrences, Finish(o) PROVE StartAhead'
    <2>1. /\ Others(o)
          /\ started \subseteq started'
          /\ \A q \in Occurrences \ {o} : route'[q] = route[q]
      BY <1>13, FinishWays, FinishFiles DEF TypeOK, Moved, Concluded, files, outside
    <2>2. StartFits(o)' /\ (route'[o] # "never" => o \in started')
      BY <1>0, <1>13, FinishWays DEF Finish, TypeOK, Moved, Concluded, StartAhead, StartFits, StartRecorded, files, outside
    <2> QED
      BY <2>1, <2>2, StartKept
  <1>14. ASSUME NEW o \in Occurrences, Resolve(o) PROVE StartAhead'
    <2>1. /\ Others(o)
          /\ started \subseteq started'
          /\ \A q \in Occurrences \ {o} : route'[q] = route[q]
      BY <1>14, ResolveWays DEF Resolve, TypeOK, Moved, Concluded, files, outside
    <2>2. StartFits(o)' /\ (route'[o] # "never" => o \in started')
      BY <1>0, <1>14, ResolveWays DEF Resolve, TypeOK, Moved, Concluded, StartAhead, StartFits, StartRecorded, files, outside
    <2> QED
      BY <2>1, <2>2, StartKept
  <1>15. ASSUME NEW o \in Occurrences, Report(o) PROVE StartAhead'
    <2>1. /\ Others(o)
          /\ started \subseteq started'
          /\ \A q \in Occurrences \ {o} : route'[q] = route[q]
      BY <1>15, ReportWays DEF Report, TypeOK, Moved, Concluded, files, outside
    <2>2. StartFits(o)' /\ (route'[o] # "never" => o \in started')
      BY <1>0, <1>15, ReportWays DEF Report, TypeOK, Moved, Concluded, StartAhead, StartFits, StartRecorded, files, outside
    <2> QED
      BY <2>1, <2>2, StartKept
  <1>16. ASSUME NEW o \in Occurrences, ReportFails(o) PROVE StartAhead'
    <2>1. /\ Others(o)
          /\ started \subseteq started'
          /\ \A q \in Occurrences \ {o} : route'[q] = route[q]
      BY <1>16, ReportFailsWays DEF ReportFails, TypeOK, Moved, Concluded, files, outside
    <2>2. StartFits(o)' /\ (route'[o] # "never" => o \in started')
      BY <1>0, <1>16, ReportFailsWays DEF ReportFails, TypeOK, Moved, Concluded, StartAhead, StartFits, StartRecorded, files, outside
    <2> QED
      BY <2>1, <2>2, StartKept
  <1>17. ASSUME NEW o \in Occurrences, MarkReported(o) PROVE StartAhead'
    <2>1. /\ Others(o)
          /\ started \subseteq started'
          /\ \A q \in Occurrences \ {o} : route'[q] = route[q]
      BY <1>17, MarkReportedWays DEF MarkReported, TypeOK, Moved, Concluded, files, outside
    <2>2. StartFits(o)' /\ (route'[o] # "never" => o \in started')
      BY <1>0, <1>17, MarkReportedWays DEF MarkReported, TypeOK, Moved, Concluded, StartAhead, StartFits, StartRecorded, files, outside
    <2> QED
      BY <2>1, <2>2, StartKept
  <1>18. ASSUME NEW o \in Occurrences, Count(o) PROVE StartAhead'
    <2>1. /\ Others(o)
          /\ started \subseteq started'
          /\ \A q \in Occurrences \ {o} : route'[q] = route[q]
      BY <1>18, CountWays DEF Count, TypeOK, Moved, Concluded, files, outside
    <2>2. StartFits(o)' /\ (route'[o] # "never" => o \in started')
      BY <1>0, <1>18, CountWays DEF Count, TypeOK, Moved, Concluded, StartAhead, StartFits, StartRecorded, files, outside
    <2> QED
      BY <2>1, <2>2, StartKept
  <1>19. ASSUME NEW o \in Occurrences, Ask(o) PROVE StartAhead'
    <2>1. /\ Others(o)
          /\ started \subseteq started'
          /\ \A q \in Occurrences \ {o} : route'[q] = route[q]
      BY <1>19, AskWays DEF Ask, TypeOK, Moved, Concluded, files, outside
    <2>2. StartFits(o)' /\ (route'[o] # "never" => o \in started')
      BY <1>0, <1>19, AskWays DEF Ask, TypeOK, Moved, Concluded, StartAhead, StartFits, StartRecorded, files, outside
    <2> QED
      BY <2>1, <2>2, StartKept
  <1>20. ASSUME NEW o \in Occurrences, AskPhase(o) PROVE StartAhead'
    <2>1. /\ Others(o)
          /\ started \subseteq started'
          /\ \A q \in Occurrences \ {o} : route'[q] = route[q]
      BY <1>20, AskPhaseWays DEF AskPhase, TypeOK, Moved, Concluded, files, outside
    <2>2. StartFits(o)' /\ (route'[o] # "never" => o \in started')
      BY <1>0, <1>20, AskPhaseWays DEF AskPhase, TypeOK, Moved, Concluded, StartAhead, StartFits, StartRecorded, files, outside
    <2> QED
      BY <2>1, <2>2, StartKept
  <1>21. ASSUME NEW o \in Occurrences, StoreError(o) PROVE StartAhead'
    <2>1. /\ Others(o)
          /\ started \subseteq started'
          /\ \A q \in Occurrences \ {o} : route'[q] = route[q]
      BY <1>21, StoreErrorWays DEF StoreError, TypeOK, Moved, Concluded, files, outside
    <2>2. StartFits(o)' /\ (route'[o] # "never" => o \in started')
      BY <1>0, <1>21, StoreErrorWays DEF StoreError, TypeOK, Moved, Concluded, StartAhead, StartFits, StartRecorded, files, outside
    <2> QED
      BY <2>1, <2>2, StartKept
  <1>22. ASSUME BeginSweep PROVE StartAhead'
    BY <1>22 DEF BeginSweep, Clear, StartAhead, StartFits, StartRecorded, files, outside
  <1>23. ASSUME Listen PROVE StartAhead'
    BY <1>23 DEF Listen, Clear, StartAhead, StartFits, StartRecorded, files, outside
  <1>24. ASSUME StartProcess PROVE StartAhead'
    BY <1>24 DEF StartProcess, Clear, StartAhead, StartFits, StartRecorded, files, outside
  <1>25. ASSUME Crash PROVE StartAhead'
    BY <1>25 DEF Crash, Clear, StartAhead, StartFits, StartRecorded, files, outside
  <1>26. ASSUME Stop PROVE StartAhead'
    BY <1>26 DEF Stop, Clear, StartAhead, StartFits, StartRecorded, files, outside
  <1>27. ASSUME Exit PROVE StartAhead'
    BY <1>27 DEF Exit, Clear, StartAhead, StartFits, StartRecorded, files, outside
  <1>28. CASE UNCHANGED vars
    BY <1>28 DEF vars, files, process, outside, StartAhead, StartFits, StartRecorded
  <1> QED
    BY <1>1, <1>2, <1>3, <1>4, <1>5, <1>6, <1>7, <1>8, <1>9, <1>10, <1>11, <1>12, <1>13, <1>14,
       <1>15, <1>16, <1>17, <1>18, <1>19, <1>20, <1>21, <1>22, <1>23, <1>24, <1>25, <1>26, <1>27, <1>28 DEF Next

THEOREM StartAheadHolds == Spec => []StartAhead
  <1>1. Init => StartAhead
    BY DEF Init, StartAhead, StartFits, StartRecorded
  <1> QED
    BY <1>1, StartStep, ControlHolds, PTL DEF Spec

\* The intent to run is on disk before the route runs.
THEOREM StartWriteAhead == Spec => []StartRecorded
  BY StartAheadHolds, PTL DEF StartAhead

-----------------------------------------------------------------------------
(* Nothing is returned that was not recorded.                              *)

\* An outcome on disk may be replaced and is never taken back; so is a return.
LEMMA OutcomeStays ==
    ASSUME TypeOK, Control, [Next]_vars, NEW t \in Occurrences
    PROVE  /\ outcome[t] # None => outcome'[t] # None
           /\ ledger[t] # None => ledger'[t] # None
  <1>1. ASSUME NEW o \in Occurrences, Resolve(o)
        PROVE  /\ outcome[t] # None => outcome'[t] # None
               /\ ledger[t] # None => ledger'[t] # None
    <2>1. outcome' = [outcome EXCEPT ![hand[o].of] = hand[o].what] /\ hand[o].what # None
      BY <1>1, ResolveWays, NoneAssumption
    <2>2. ledger' = ledger
      BY <1>1 DEF Resolve, outside
    <2> QED
      BY <2>1, <2>2 DEF TypeOK
  <1>2. ASSUME NEW o \in Occurrences, Report(o)
        PROVE  /\ outcome[t] # None => outcome'[t] # None
               /\ ledger[t] # None => ledger'[t] # None
    <2>1. ledger' = [ledger EXCEPT ![hand[o].of] = hand[o].what] /\ hand[o].what # None
      BY <1>2, ReportWays, NoneAssumption
    <2>2. outcome' = outcome
      BY <1>2 DEF Report, files
    <2> QED
      BY <2>1, <2>2 DEF TypeOK
  <1>3. ASSUME NEW o \in Occurrences, ReportFails(o)
        PROVE  /\ outcome[t] # None => outcome'[t] # None
               /\ ledger[t] # None => ledger'[t] # None
    BY <1>3, ReportFailsWays, NoneAssumption DEF ReportFails, TypeOK, files
  <1>4. ASSUME ~ \E o \in Occurrences : Resolve(o) \/ Report(o) \/ ReportFails(o)
        PROVE  UNCHANGED <<outcome, ledger>>
    BY <1>4 DEF Next, Deliver, WriteDelivery, IndexReview, Acknowledge, HandlerError, Abandon,
                Advance, Fetch, Load, Start, Invoke, Finish, Orphan, MarkReported, Count, Ask,
                AskPhase, StoreError, BeginSweep, Listen, StartProcess, Crash, Stop, Exit,
                vars, files, outside
  <1> QED
    BY <1>1, <1>2, <1>3, <1>4

\* ReturnAhead for one occurrence: what is marked was accepted, and what was
\* accepted was recorded.
Returned(o) ==
    /\ reported[o] # None => ledger[o] # None
    /\ ledger[o] # None => outcome[o] # None

LEMMA ReturnParts ==
    /\ ReturnAhead <=> \A o \in Occurrences : Returned(o) /\ ReturnFits(o)
    /\ ReturnAhead' <=> \A o \in Occurrences : Returned(o)' /\ ReturnFits(o)'
  BY DEF ReturnAhead, ReturnRecorded, Returned

LEMMA ReturnStep == TypeOK /\ Control /\ ReturnAhead /\ [Next]_vars => ReturnAhead'
  <1> SUFFICES ASSUME TypeOK, Control, ReturnAhead, [Next]_vars
               PROVE  ReturnAhead'
    OBVIOUS
  <1>a. \A t \in Occurrences : /\ outcome[t] # None => outcome'[t] # None
                               /\ ledger[t] # None => ledger'[t] # None
    BY OutcomeStays
  <1>b. \A o \in Occurrences : Returned(o) /\ ReturnFits(o) /\ hand[o].of \in Occurrences
    BY ReturnParts DEF TypeOK
  \* A goroutine's step that returns nothing.
  <1>c. ASSUME NEW o \in Occurrences, Others(o), ReturnFits(o)',
               UNCHANGED <<reported, ledger>>
        PROVE  ReturnAhead'
    <2>1. ASSUME NEW q \in Occurrences PROVE Returned(q)' /\ ReturnFits(q)'
      BY <1>a, <1>b, <1>c, <2>1 DEF Returned, ReturnFits, Others
    <2> QED
      BY <2>1, ReturnParts
  <1>1. ASSUME NEW o \in Occurrences, Deliver(o) PROVE ReturnAhead'
    BY <1>b, <1>1, ReturnParts DEF Deliver, Returned, ReturnFits, files, process, outside
  <1>2. ASSUME NEW o \in Occurrences, WriteDelivery(o) PROVE ReturnAhead'
    BY <1>b, <1>2, ReturnParts DEF WriteDelivery, Returned, ReturnFits, files, process, outside
  <1>3. ASSUME NEW o \in Occurrences, IndexReview(o) PROVE ReturnAhead'
    BY <1>b, <1>3, ReturnParts DEF IndexReview, Returned, ReturnFits, files, process, outside
  <1>4. ASSUME NEW o \in Occurrences, Acknowledge(o) PROVE ReturnAhead'
    BY <1>b, <1>4, ReturnParts DEF Acknowledge, Returned, ReturnFits, files, process, outside
  <1>5. ASSUME NEW o \in Occurrences, HandlerError(o) PROVE ReturnAhead'
    BY <1>b, <1>5, ReturnParts DEF HandlerError, Returned, ReturnFits, files, process, outside
  <1>6. ASSUME NEW o \in Occurrences, Orphan(o) PROVE ReturnAhead'
    BY <1>b, <1>6, ReturnParts DEF Orphan, Returned, ReturnFits, files, process, outside
  <1>7. ASSUME NEW o \in Occurrences, Abandon(o) PROVE ReturnAhead'
    <2>1. Others(o) /\ UNCHANGED <<reported, ledger>>
      BY <1>7, AbandonWays DEF Abandon, Moved, Concluded, files, outside
    <2>2. ReturnFits(o)'
      BY <1>a, <1>b, <1>7, AbandonWays DEF Moved, Concluded, ReturnFits
    <2> QED
      BY <1>c, <2>1, <2>2
  <1>8. ASSUME NEW o \in Occurrences, Advance(o) PROVE ReturnAhead'
    <2>1. Others(o) /\ UNCHANGED <<reported, ledger>>
      BY <1>8, AdvanceWays DEF Advance, Moved, Concluded, files, outside
    <2>2. ReturnFits(o)'
      BY <1>a, <1>b, <1>8, AdvanceWays DEF Moved, Concluded, ReturnFits
    <2> QED
      BY <1>c, <2>1, <2>2
  <1>9. ASSUME NEW o \in Occurrences, Fetch(o) PROVE ReturnAhead'
    <2>1. Others(o) /\ UNCHANGED <<reported, ledger>>
      BY <1>9, FetchWays DEF Fetch, Moved, Concluded, files, outside
    <2>2. ReturnFits(o)'
      BY <1>a, <1>b, <1>9, FetchWays DEF Moved, Concluded, ReturnFits, Control, InHand
    <2> QED
      BY <1>c, <2>1, <2>2
  <1>10. ASSUME NEW o \in Occurrences, Load(o) PROVE ReturnAhead'
    <2>1. Others(o) /\ UNCHANGED <<reported, ledger>>
      BY <1>10, LoadWays DEF Load, Moved, Concluded, files, outside
    <2>2. ReturnFits(o)'
      BY <1>a, <1>b, <1>10, LoadWays DEF Moved, Concluded, ReturnFits
    <2> QED
      BY <1>c, <2>1, <2>2
  <1>11. ASSUME NEW o \in Occurrences, Start(o) PROVE ReturnAhead'
    <2>1. Others(o) /\ UNCHANGED <<reported, ledger>>
      BY <1>11, StartWays DEF Start, Moved, Concluded, files, outside
    <2>2. ReturnFits(o)'
      BY <1>a, <1>b, <1>11, StartWays DEF Moved, Concluded, ReturnFits
    <2> QED
      BY <1>c, <2>1, <2>2
  <1>12. ASSUME NEW o \in Occurrences, Invoke(o) PROVE ReturnAhead'
    <2>1. Others(o) /\ UNCHANGED <<reported, ledger>>
      BY <1>12, InvokeWays DEF Invoke, Moved, Concluded, files, outside
    <2>2. ReturnFits(o)'
      BY <1>a, <1>b, <1>12, InvokeWays DEF Moved, Concluded, ReturnFits
    <2> QED
      BY <1>c, <2>1, <2>2
  <1>13. ASSUME NEW o \in Occurrences, Finish(o) PROVE ReturnAhead'
    <2>1. Others(o) /\ UNCHANGED <<reported, ledger>>
      BY <1>13, FinishWays DEF Finish, Moved, Concluded, files, outside
    <2>2. ReturnFits(o)'
      BY <1>a, <1>b, <1>13, FinishWays DEF Moved, Concluded, ReturnFits
    <2> QED
      BY <1>c, <2>1, <2>2
  <1>14. ASSUME NEW o \in Occurrences, Resolve(o) PROVE ReturnAhead'
    <2>1. Others(o) /\ UNCHANGED <<reported, ledger>>
      BY <1>14, ResolveWays DEF Resolve, Moved, outside
    <2>2. ReturnFits(o)'
      BY <1>b, <1>14, ResolveWays, NoneAssumption DEF Moved, ReturnFits, TypeOK
    <2> QED
      BY <1>c, <2>1, <2>2
  <1>15. ASSUME NEW o \in Occurrences, Report(o) PROVE ReturnAhead'
    <2> DEFINE t == hand[o].of
    <2>1. /\ t \in Occurrences /\ outcome[t] # None /\ hand[o].what # None
          /\ Others(o) /\ UNCHANGED <<outcome, reported>>
      BY <1>b, <1>15, ReportWays, NoneAssumption DEF Report, Moved, Concluded, ReturnFits, files
    <2>2. ledger' = ledger \/ ledger' = [ledger EXCEPT ![t] = hand[o].what]
      BY <1>15, ReportWays
    <2>3. \A q \in Occurrences : Returned(q)'
      BY <1>b, <2>1, <2>2 DEF Returned, TypeOK
    <2>4. ReturnFits(o)'
      BY <1>a, <1>15, <2>1, ReportWays DEF Moved, Concluded, ReturnFits, TypeOK
    <2>5. \A q \in Occurrences \ {o} : ReturnFits(q)'
      BY <1>a, <1>b, <2>1 DEF ReturnFits, Others
    <2> QED
      BY <2>3, <2>4, <2>5, ReturnParts
  <1>16. ASSUME NEW o \in Occurrences, ReportFails(o) PROVE ReturnAhead'
    <2> DEFINE t == hand[o].of
    <2>1. /\ t \in Occurrences /\ outcome[t] # None /\ hand[o].what # None
          /\ Others(o) /\ UNCHANGED <<outcome, reported>>
      BY <1>b, <1>16, ReportFailsWays, NoneAssumption DEF ReportFails, Moved, Concluded, ReturnFits, files
    <2>2. ledger' = ledger \/ ledger' = [ledger EXCEPT ![t] = hand[o].what]
      BY <1>16, ReportFailsWays
    <2>3. \A q \in Occurrences : Returned(q)'
      BY <1>b, <2>1, <2>2 DEF Returned, TypeOK
    <2>4. ReturnFits(o)'
      BY <1>a, <1>16, <2>1, ReportFailsWays DEF Moved, Concluded, ReturnFits, TypeOK
    <2>5. \A q \in Occurrences \ {o} : ReturnFits(q)'
      BY <1>a, <1>b, <2>1 DEF ReturnFits, Others
    <2> QED
      BY <2>3, <2>4, <2>5, ReturnParts
  <1>17. ASSUME NEW o \in Occurrences, MarkReported(o) PROVE ReturnAhead'
    <2> DEFINE t == hand[o].of
    <2>1. /\ t \in Occurrences /\ ledger[t] # None
          /\ Others(o) /\ UNCHANGED <<outcome, ledger>>
          /\ reported' = [reported EXCEPT ![t] = hand[o].what]
      BY <1>b, <1>17, MarkReportedWays DEF MarkReported, Moved, Concluded, ReturnFits, files, outside
    <2>2. \A q \in Occurrences : Returned(q)'
      BY <1>b, <2>1 DEF Returned, TypeOK
    <2>3. ReturnFits(o)'
      BY <1>17, MarkReportedWays DEF Moved, Concluded, ReturnFits
    <2>4. \A q \in Occurrences \ {o} : ReturnFits(q)'
      BY <1>b, <2>1 DEF ReturnFits, Others
    <2> QED
      BY <2>2, <2>3, <2>4, ReturnParts
  <1>18. ASSUME NEW o \in Occurrences, Count(o) PROVE ReturnAhead'
    <2>1. Others(o) /\ UNCHANGED <<reported, ledger>>
      BY <1>18, CountWays DEF Count, Moved, Concluded, files, outside
    <2>2. ReturnFits(o)'
      BY <1>a, <1>b, <1>18, CountWays DEF Moved, Concluded, ReturnFits
    <2> QED
      BY <1>c, <2>1, <2>2
  <1>19. ASSUME NEW o \in Occurrences, Ask(o) PROVE ReturnAhead'
    <2>1. Others(o) /\ UNCHANGED <<reported, ledger>>
      BY <1>19, AskWays DEF Ask, Moved, Concluded, files, outside
    <2>2. ReturnFits(o)'
      BY <1>a, <1>b, <1>19, AskWays DEF Moved, Concluded, ReturnFits
    <2> QED
      BY <1>c, <2>1, <2>2
  <1>20. ASSUME NEW o \in Occurrences, AskPhase(o) PROVE ReturnAhead'
    <2>1. Others(o) /\ UNCHANGED <<reported, ledger>>
      BY <1>20, AskPhaseWays DEF AskPhase, Moved, Concluded, files, outside
    <2>2. ReturnFits(o)'
      BY <1>a, <1>b, <1>20, AskPhaseWays DEF Moved, Concluded, ReturnFits
    <2> QED
      BY <1>c, <2>1, <2>2
  <1>21. ASSUME NEW o \in Occurrences, StoreError(o) PROVE ReturnAhead'
    <2>1. Others(o) /\ UNCHANGED <<reported, ledger>>
      BY <1>21, StoreErrorWays DEF StoreError, Moved, Concluded, files, outside
    <2>2. ReturnFits(o)'
      BY <1>a, <1>b, <1>21, StoreErrorWays DEF Moved, Concluded, ReturnFits
    <2> QED
      BY <1>c, <2>1, <2>2
  <1>22. ASSUME BeginSweep PROVE ReturnAhead'
    BY <1>b, <1>22, ReturnParts DEF BeginSweep, Idle, Clear, Returned, ReturnFits, files, outside
  <1>23. ASSUME Listen PROVE ReturnAhead'
    BY <1>b, <1>23, ReturnParts DEF Listen, Idle, Clear, Returned, ReturnFits, files, outside
  <1>24. ASSUME StartProcess PROVE ReturnAhead'
    BY <1>b, <1>24, ReturnParts DEF StartProcess, Idle, Clear, Returned, ReturnFits, files, outside
  <1>25. ASSUME Crash PROVE ReturnAhead'
    BY <1>b, <1>25, ReturnParts DEF Crash, Idle, Clear, Returned, ReturnFits, files, outside
  <1>26. ASSUME Stop PROVE ReturnAhead'
    BY <1>b, <1>26, ReturnParts DEF Stop, Idle, Clear, Returned, ReturnFits, files, outside
  <1>27. ASSUME Exit PROVE ReturnAhead'
    BY <1>b, <1>27, ReturnParts DEF Exit, Idle, Clear, Returned, ReturnFits, files, outside
  <1>28. CASE UNCHANGED vars
    BY <1>b, <1>28, ReturnParts DEF vars, files, process, outside, Returned, ReturnFits
  <1> QED
    BY <1>1, <1>2, <1>3, <1>4, <1>5, <1>6, <1>7, <1>8, <1>9, <1>10, <1>11, <1>12, <1>13, <1>14,
       <1>15, <1>16, <1>17, <1>18, <1>19, <1>20, <1>21, <1>22, <1>23, <1>24, <1>25, <1>26, <1>27, <1>28 DEF Next

THEOREM ReturnAheadHolds == Spec => []ReturnAhead
  <1>1. Init => ReturnAhead
    BY DEF Init, ReturnAhead, ReturnRecorded, ReturnFits
  <1> QED
    BY <1>1, ReturnStep, ControlHolds, PTL DEF Spec

\* What is marked as reported was accepted, and what was accepted was recorded.
THEOREM ReturnsRecorded == Spec => []ReturnRecorded
  BY ReturnAheadHolds, PTL DEF ReturnAhead

-----------------------------------------------------------------------------
(* One activation, one answer.                                            *)

\* A step of one goroutine that writes no outcome disturbs nobody, if nothing is
\* wrong between its own occurrence and the others.
LEMMA UndisturbedKept ==
    ASSUME TypeOK, Undisturbed, NEW o \in Occurrences, Others(o),
           UNCHANGED <<outcome, delivery>>, OwnAnswer(o)',
           \A x \in Occurrences : Apart(x, o)' /\ ReturnsOwn(x, o)' /\ Apart(o, x)'
    PROVE  Undisturbed'
  <1>1. ASSUME NEW x \in Occurrences, x # o PROVE OwnAnswer(x)'
    BY <1>1 DEF Undisturbed, OwnAnswer, Busy, Others
  <1>2. ASSUME NEW x \in Occurrences, NEW y \in Occurrences, y # o
        PROVE  ReturnsOwn(x, y)'
    BY <1>2 DEF Undisturbed, ReturnsOwn, Others
  <1>3. ASSUME NEW x \in Occurrences, NEW y \in Occurrences, x # o, y # o
        PROVE  Apart(x, y)'
    BY <1>3 DEF Undisturbed, Apart, Busy, Others
  <1> QED
    BY <1>1, <1>2, <1>3 DEF Undisturbed

\* o has no outcome, was delivered, and no review deals with it.
Unanswered(o) ==
    /\ outcome[o] = None
    /\ delivery[o] # "absent"
    /\ \A q \in Occurrences \ {o} : hand[q].of # o

LEMMA BusyUnanswered ==
    ASSUME Undisturbed, NEW o \in Occurrences,
           Busy(o) \/ (place[o] = "queued" /\ outcome[o] = None)
    PROVE  Unanswered(o)
  BY DEF Undisturbed, OwnAnswer, Apart, Unanswered

\* An unanswered occurrence may be taken towards its own outcome.
LEMMA TakesOwn ==
    ASSUME TypeOK, Undisturbed, NEW o \in Occurrences, Unanswered(o),
           Others(o), UNCHANGED <<outcome, delivery>>, hand'[o].of = o,
           place'[o] \notin {"queued", "report", "mark"}
    PROVE  Undisturbed'
  <1>1. OwnAnswer(o)'
    BY DEF Unanswered, OwnAnswer
  <1>2. \A x \in Occurrences : Apart(x, o)' /\ ReturnsOwn(x, o)' /\ Apart(o, x)'
    BY DEF Unanswered, Apart, ReturnsOwn, Others
  <1> QED
    BY <1>1, <1>2, UndisturbedKept

\* A goroutine may return the outcome of its own occurrence, or be through with it.
LEMMA ReturnsSelf ==
    ASSUME TypeOK, Undisturbed, NEW o \in Occurrences,
           Others(o), UNCHANGED <<outcome, delivery>>, hand'[o].of = o,
           place'[o] \in {"out", "fetch", "report", "mark"}, ReturnsOwn(o, o)'
    PROVE  Undisturbed'
  <1>0. ~ Busy(o)'
    BY DEF Busy
  <1>1. OwnAnswer(o)'
    BY <1>0 DEF Undisturbed, OwnAnswer
  <1>2. ASSUME NEW x \in Occurrences PROVE Apart(x, o)' /\ ReturnsOwn(x, o)'
    BY DEF Apart, ReturnsOwn
  <1>3. ASSUME NEW x \in Occurrences PROVE Apart(o, x)'
    BY <1>0 DEF Undisturbed, Apart, Others
  <1> QED
    BY <1>1, <1>2, <1>3, UndisturbedKept

\* A review that is unanswered itself may deal with its parent t.
LEMMA TakesParent ==
    ASSUME TypeOK, Undisturbed, NEW o \in Occurrences, Unanswered(o),
           NEW t \in Occurrences \ {o}, Others(o), UNCHANGED <<outcome, delivery>>,
           hand'[o].of = t, place'[o] # "queued",
           ~ Busy(t), place[t] = "queued" => outcome[t] # None,
           place'[o] = "resolve" /\ outcome[t] # None => outcome[t].by # t,
           ReturnsOwn(t, o)'
    PROVE  Undisturbed'
  <1>1. OwnAnswer(o)'
    BY DEF Unanswered, OwnAnswer
  <1>2. Apart(t, o)'
    BY DEF Apart, Busy, Others
  <1>3. ASSUME NEW x \in Occurrences, x # t PROVE Apart(x, o)' /\ ReturnsOwn(x, o)'
    BY <1>3 DEF Apart, ReturnsOwn
  <1>4. ASSUME NEW x \in Occurrences PROVE Apart(o, x)'
    BY DEF Unanswered, Apart, Others
  <1> QED
    BY <1>1, <1>2, <1>3, <1>4, UndisturbedKept

\* A goroutine that deals with its parent may go on to return its outcome.
LEMMA ReturnsParent ==
    ASSUME TypeOK, Undisturbed, NEW o \in Occurrences, NEW t \in Occurrences \ {o},
           Others(o), UNCHANGED <<outcome, delivery>>, hand[o].of = t, hand'[o].of = t,
           place'[o] \in {"report", "mark"}, ReturnsOwn(t, o)'
    PROVE  Undisturbed'
  <1>1. Unanswered(o)
    BY BusyUnanswered DEF Busy
  <1>2. ~ Busy(t) /\ (place[t] = "queued" => outcome[t] # None)
    BY DEF Undisturbed, Apart
  <1> QED
    BY <1>1, <1>2, TakesParent

\* Whatever follows a failed or a recorded return.
LEMMA TurnsBack ==
    ASSUME TypeOK, Undisturbed, NEW o \in Occurrences, UNCHANGED <<outcome, delivery>>,
           \/ hand[o].of = o /\ Moved(o, "out", o, None)
           \/ hand[o].of # o /\ Concluded(o, o)
    PROVE  Undisturbed'
  <1>1. CASE hand[o].of = o /\ Moved(o, "out", o, None)
    BY <1>1, ReturnsSelf DEF Moved, ReturnsOwn
  <1>2. CASE hand[o].of # o /\ Concluded(o, o)
    <2>1. Unanswered(o)
      BY <1>2, BusyUnanswered DEF Busy
    <2> QED
      BY <1>2, <2>1, TakesOwn DEF Moved, Concluded
  <1> QED
    BY <1>1, <1>2

\* The outcome that is written is the occurrence's own and its first, or is that
\* of a parent that has none of its own and is not getting any.
LEMMA UndisturbedResolve ==
    ASSUME TypeOK, Control, Undisturbed, NEW o \in Occurrences, Resolve(o)
    PROVE  Undisturbed'
  <1>0. PICK t \in Occurrences : t = hand[o].of
    BY DEF TypeOK
  <1>a. delivery' = delivery
    BY DEF Resolve
  <1>1. /\ place[o] = "resolve" /\ hand[o].of = t
        /\ hand[o].what \in Resolutions /\ hand[o].what # None /\ hand[o].what.by = o
        /\ outcome' = [outcome EXCEPT ![t] = hand[o].what]
        /\ Others(o) /\ place'[o] = "report" /\ hand'[o].of = t /\ hand'[o].what = hand[o].what
        /\ delivery' = delivery
    BY <1>0, <1>a, ResolveWays, NoneAssumption DEF Moved
  <1>2. Unanswered(o)
    BY <1>1, BusyUnanswered DEF Busy
  <1>3. outcome'[t] = hand[o].what /\ \A x \in Occurrences \ {t} : outcome'[x] = outcome[x]
    BY <1>1 DEF TypeOK
  <1>4. \A y \in Occurrences \ {o} : place'[y] = place[y] /\ hand'[y] = hand[y]
    BY <1>1 DEF Others
  <1>5. CASE t = o
    <2>1. ~ Busy(o)'
      BY <1>1, <1>5 DEF Busy
    <2>2. OwnAnswer(o)'
      BY <1>1, <1>2, <2>1 DEF OwnAnswer, Unanswered
    <2>3. ASSUME NEW x \in Occurrences, x # o PROVE OwnAnswer(x)'
      BY <1>1, <1>3, <1>4, <1>5, <2>3 DEF Undisturbed, OwnAnswer, Busy
    <2>4. ASSUME NEW x \in Occurrences PROVE Apart(x, o)' /\ ReturnsOwn(x, o)' /\ Apart(o, x)'
      BY <1>1, <1>2, <1>3, <1>4, <1>5 DEF Apart, ReturnsOwn, Unanswered
    <2>5. ASSUME NEW x \in Occurrences, NEW y \in Occurrences, x # o, y # o
          PROVE  Apart(x, y)' /\ ReturnsOwn(x, y)'
      BY <1>3, <1>4, <1>5, <2>5 DEF Undisturbed, Apart, ReturnsOwn, Busy
    <2>6. ASSUME NEW y \in Occurrences, y # o PROVE ReturnsOwn(o, y)'
      BY <1>2, <1>4, <2>6 DEF ReturnsOwn, Unanswered
    <2> QED
      BY <2>2, <2>3, <2>4, <2>5, <2>6 DEF Undisturbed
  <1>6. CASE t # o
    <2>1. ~ Busy(t) /\ outcome'[t] # None /\ outcome'[t].by # t
      BY <1>1, <1>3, <1>6 DEF Undisturbed, Apart
    <2>2. ~ Busy(t)'
      BY <1>4, <1>6, <2>1 DEF Busy
    <2>3. OwnAnswer(t)'
      BY <2>1, <2>2 DEF OwnAnswer
    <2>4. OwnAnswer(o)'
      BY <1>1, <1>2, <1>3, <1>6 DEF OwnAnswer, Unanswered
    <2>5. ASSUME NEW x \in Occurrences, x # o, x # t PROVE OwnAnswer(x)'
      BY <1>1, <1>3, <1>4, <2>5 DEF Undisturbed, OwnAnswer, Busy
    <2>6. ASSUME NEW y \in Occurrences PROVE Apart(t, y)' /\ ReturnsOwn(t, y)'
      BY <2>1, <2>2 DEF Apart, ReturnsOwn
    <2>7. ASSUME NEW x \in Occurrences, x # t PROVE Apart(x, o)' /\ ReturnsOwn(x, o)'
      BY <1>1, <2>7 DEF Apart, ReturnsOwn
    <2>8. ASSUME NEW y \in Occurrences PROVE Apart(o, y)'
      BY <1>2, <1>4 DEF Apart, Unanswered
    <2>9. ASSUME NEW x \in Occurrences, NEW y \in Occurrences, x # t, x # o, y # o
          PROVE  Apart(x, y)'
      BY <1>3, <1>4, <2>9 DEF Undisturbed, Apart, Busy
    <2>10. ASSUME NEW x \in Occurrences, NEW y \in Occurrences, x # t, y # o
           PROVE  ReturnsOwn(x, y)'
      BY <1>3, <1>4, <2>10 DEF Undisturbed, ReturnsOwn
    <2> QED
      BY <2>3, <2>4, <2>5, <2>6, <2>7, <2>8, <2>9, <2>10 DEF Undisturbed
  <1> QED
    BY <1>5, <1>6

\* The steps that move no goroutine.
LEMMA UndisturbedQuiet ==
    ASSUME TypeOK, Undisturbed, UNCHANGED <<outcome, place, hand>>,
           \A o \in Occurrences : delivery[o] # "absent" => delivery'[o] # "absent"
    PROVE  Undisturbed'
  <1>1. ASSUME NEW o \in Occurrences PROVE OwnAnswer(o)'
    BY DEF Undisturbed, OwnAnswer, Busy
  <1>2. ASSUME NEW o \in Occurrences, NEW q \in Occurrences
        PROVE  Apart(o, q)' /\ ReturnsOwn(o, q)'
    BY DEF Undisturbed, Apart, ReturnsOwn, Busy
  <1> QED
    BY <1>1, <1>2 DEF Undisturbed

\* With every goroutine gone there is nothing to disturb.
LEMMA UndisturbedIdle ==
    ASSUME Undisturbed, UNCHANGED <<outcome, delivery>>,
           \A o \in Occurrences :
              /\ hand'[o].of = o
              /\ \/ place'[o] = "out"
                 \/ place'[o] = "queued" /\ (outcome[o] # None \/ delivery[o] # "absent")
    PROVE  Undisturbed'
  <1>1. ASSUME NEW o \in Occurrences PROVE OwnAnswer(o)'
    BY DEF Undisturbed, OwnAnswer, Busy
  <1>2. ASSUME NEW o \in Occurrences, NEW q \in Occurrences
        PROVE  Apart(o, q)' /\ ReturnsOwn(o, q)'
    BY DEF Apart, ReturnsOwn
  <1> QED
    BY <1>1, <1>2 DEF Undisturbed

LEMMA UndisturbedStep ==
    TypeOK /\ Control /\ Undisturbed /\ [Next]_vars => Undisturbed'
  <1> SUFFICES ASSUME TypeOK, Control, Undisturbed, [Next]_vars
               PROVE  Undisturbed'
    OBVIOUS
  <1>1. ASSUME NEW o \in Occurrences, Deliver(o) PROVE Undisturbed'
    BY <1>1, UndisturbedQuiet DEF Deliver, TypeOK
  <1>2. ASSUME NEW o \in Occurrences, WriteDelivery(o) PROVE Undisturbed'
    BY <1>2, UndisturbedQuiet DEF WriteDelivery, TypeOK
  <1>3. ASSUME NEW o \in Occurrences, IndexReview(o) PROVE Undisturbed'
    BY <1>3, UndisturbedQuiet DEF IndexReview, files, process
  <1>4. ASSUME NEW o \in Occurrences, Acknowledge(o) PROVE Undisturbed'
    BY <1>4, UndisturbedQuiet DEF Acknowledge, files, process
  <1>5. ASSUME NEW o \in Occurrences, HandlerError(o) PROVE Undisturbed'
    BY <1>5, UndisturbedQuiet DEF HandlerError, files, process
  <1>6. ASSUME NEW o \in Occurrences, Orphan(o) PROVE Undisturbed'
    BY <1>6, UndisturbedQuiet DEF Orphan, files, process
  <1>7. ASSUME NEW o \in Occurrences, Abandon(o) PROVE Undisturbed'
    BY <1>7, AbandonWays, ReturnsSelf DEF Abandon, Moved, ReturnsOwn, files
  <1>8. ASSUME NEW o \in Occurrences, Advance(o) PROVE Undisturbed'
    <2>0. UNCHANGED <<outcome, delivery>> /\ place[o] = "queued"
      BY <1>8, AdvanceWays DEF Advance, files
    <2>1. CASE Moved(o, "out", o, None)
      BY <2>0, <2>1, ReturnsSelf DEF Moved, ReturnsOwn
    <2>2. CASE Moved(o, "fetch", o, hand[o].what)
      BY <2>0, <2>2, ReturnsSelf DEF Moved, ReturnsOwn
    <2>3. CASE outcome[o] = None /\ (Concluded(o, o) \/ Moved(o, "load", o, hand[o].what))
      BY <2>0, <2>3, BusyUnanswered, TakesOwn DEF Moved, Concluded
    <2> QED
      BY <1>8, <2>1, <2>2, <2>3, AdvanceWays
  <1>9. ASSUME NEW o \in Occurrences, Fetch(o) PROVE Undisturbed'
    <2>1. /\ UNCHANGED <<outcome, delivery>> /\ hand[o].of \in Occurrences
          /\ Moved(o, "report", hand[o].of, outcome[hand[o].of])
      BY <1>9, FetchWays DEF Fetch, TypeOK, files
    <2>2. ReturnsOwn(hand[o].of, o)'
      BY <2>1 DEF Moved, ReturnsOwn
    <2>3. CASE hand[o].of = o
      BY <2>1, <2>2, <2>3, ReturnsSelf DEF Moved
    <2>4. CASE hand[o].of # o
      BY <2>1, <2>2, <2>4, ReturnsParent DEF Moved
    <2> QED
      BY <2>3, <2>4
  <1>10. ASSUME NEW o \in Occurrences, Load(o) PROVE Undisturbed'
    <2>0. UNCHANGED <<outcome, delivery>>
      BY <1>10 DEF Load, files
    <2>1. Unanswered(o)
      BY <1>10, LoadWays, BusyUnanswered DEF Busy
    <2>2. CASE Moved(o, "out", o, None)
      BY <2>0, <2>2, ReturnsSelf DEF Moved, ReturnsOwn
    <2> QED
      BY <1>10, <2>0, <2>1, <2>2, LoadWays, TakesOwn DEF Moved, Concluded
  <1>11. ASSUME NEW o \in Occurrences, Start(o) PROVE Undisturbed'
    <2>0. UNCHANGED <<outcome, delivery>>
      BY <1>11 DEF Start, files
    <2>1. Unanswered(o)
      BY <1>11, StartWays, BusyUnanswered DEF Busy
    <2> QED
      BY <1>11, <2>0, <2>1, StartWays, TakesOwn DEF Moved, Concluded
  <1>12. ASSUME NEW o \in Occurrences, Invoke(o) PROVE Undisturbed'
    <2>0. UNCHANGED <<outcome, delivery>>
      BY <1>12 DEF Invoke, files
    <2>1. Unanswered(o)
      BY <1>12, InvokeWays, BusyUnanswered DEF Busy
    <2> QED
      BY <1>12, <2>0, <2>1, InvokeWays, TakesOwn DEF Moved, Concluded
  <1>13. ASSUME NEW o \in Occurrences, Finish(o) PROVE Undisturbed'
    <2>0. UNCHANGED <<outcome, delivery>>
      BY <1>13, FinishFiles DEF files
    <2>1. Unanswered(o)
      BY <1>13, FinishWays, BusyUnanswered DEF Busy
    <2> QED
      BY <1>13, <2>0, <2>1, FinishWays, TakesOwn DEF Moved, Concluded
  <1>14. ASSUME NEW o \in Occurrences, Count(o) PROVE Undisturbed'
    <2>0. UNCHANGED <<outcome, delivery>>
      BY <1>14 DEF Count, files
    <2>1. Unanswered(o)
      BY <1>14, CountWays, BusyUnanswered DEF Busy
    <2> QED
      BY <1>14, <2>0, <2>1, CountWays, TakesOwn DEF Moved, Concluded
  <1>15. ASSUME NEW o \in Occurrences, Resolve(o) PROVE Undisturbed'
    BY <1>15, UndisturbedResolve
  <1>16. ASSUME NEW o \in Occurrences, Report(o) PROVE Undisturbed'
    <2>1. /\ UNCHANGED <<outcome, delivery>> /\ hand[o].of \in Occurrences /\ place[o] = "report"
          /\ Moved(o, "mark", hand[o].of, hand[o].what)
      BY <1>16, ReportWays DEF Report, TypeOK, files
    <2>2. ReturnsOwn(hand[o].of, o)'
      BY <2>1 DEF Moved, ReturnsOwn, Undisturbed
    <2>3. CASE hand[o].of = o
      BY <2>1, <2>2, <2>3, ReturnsSelf DEF Moved
    <2>4. CASE hand[o].of # o
      BY <2>1, <2>2, <2>4, ReturnsParent DEF Moved
    <2> QED
      BY <2>3, <2>4
  <1>17. ASSUME NEW o \in Occurrences, ReportFails(o) PROVE Undisturbed'
    <2>1. UNCHANGED <<outcome, delivery>>
      BY <1>17 DEF ReportFails, files
    <2> QED
      BY <1>17, <2>1, ReportFailsWays, TurnsBack
  <1>18. ASSUME NEW o \in Occurrences, MarkReported(o) PROVE Undisturbed'
    <2>1. UNCHANGED <<outcome, delivery>>
      BY <1>18 DEF MarkReported, files
    <2> QED
      BY <1>18, <2>1, MarkReportedWays, TurnsBack
  <1>19. ASSUME NEW o \in Occurrences, StoreError(o) PROVE Undisturbed'
    <2>1. UNCHANGED <<outcome, delivery>>
      BY <1>19 DEF StoreError, files
    <2> QED
      BY <1>19, <2>1, StoreErrorWays, TurnsBack
  <1>20. ASSUME NEW o \in Occurrences, Ask(o) PROVE Undisturbed'
    <2>0. UNCHANGED <<outcome, delivery>>
      BY <1>20 DEF Ask, files
    <2>1. Unanswered(o) /\ ParentOf[o] \in Occurrences \ {o}
      BY <1>20, AskWays, BusyUnanswered DEF Busy
    <2>2. CASE Moved(o, "phase", o, hand[o].what)
      BY <2>0, <2>1, <2>2, TakesOwn DEF Moved
    <2>3. CASE delivery[ParentOf[o]] = "absent" /\ Concluded(o, ParentOf[o])
      <3> DEFINE t == ParentOf[o]
      <3>1. /\ ~ Busy(t)
            /\ place[t] = "queued" => outcome[t] # None
            /\ outcome[t] # None => outcome[t].by # t
        BY <2>1, <2>3 DEF Undisturbed, OwnAnswer
      <3>2. hand'[o].of = t /\ place'[o] = "resolve" /\ Others(o) /\ ReturnsOwn(t, o)'
        BY <2>3 DEF Moved, Concluded, ReturnsOwn
      <3> HIDE DEF t
      <3>3. t \in Occurrences \ {o}
        BY <2>1 DEF t
      <3> QED
        BY <2>0, <2>1, <3>1, <3>2, <3>3, TakesParent
    <2> QED
      BY <1>20, <2>2, <2>3, AskWays
  <1>21. ASSUME NEW o \in Occurrences, AskPhase(o) PROVE Undisturbed'
    <2>0. UNCHANGED <<outcome, delivery>>
      BY <1>21 DEF AskPhase, files
    <2>1. Unanswered(o) /\ ParentOf[o] \in Occurrences \ {o}
      BY <1>21, AskPhaseWays, BusyUnanswered DEF Busy
    <2>2. CASE Concluded(o, o)
      BY <2>0, <2>1, <2>2, TakesOwn DEF Moved, Concluded
    <2>3. CASE outcome[ParentOf[o]] # None /\ Moved(o, "fetch", ParentOf[o], None)
      <3> DEFINE t == ParentOf[o]
      <3>1. ~ Busy(t) /\ outcome[t] # None
        BY <2>1, <2>3 DEF Undisturbed, OwnAnswer
      <3>2. hand'[o].of = t /\ place'[o] = "fetch" /\ Others(o) /\ ReturnsOwn(t, o)'
        BY <2>3 DEF Moved, ReturnsOwn
      <3> HIDE DEF t
      <3>3. t \in Occurrences \ {o}
        BY <2>1 DEF t
      <3> QED
        BY <2>0, <2>1, <3>1, <3>2, <3>3, TakesParent
    <2> QED
      BY <1>21, <2>2, <2>3, AskPhaseWays
  <1>22. ASSUME BeginSweep PROVE Undisturbed'
    <2>1. \A o \in Occurrences : hand'[o].of = o
      BY <1>22 DEF BeginSweep, Idle, Control, InHand
    <2> QED
      BY <1>22, <2>1, UndisturbedIdle DEF BeginSweep, Owed, files
  <1>23. ASSUME Listen PROVE Undisturbed'
    BY <1>23, UndisturbedQuiet DEF Listen, files
  <1>24. ASSUME StartProcess PROVE Undisturbed'
    BY <1>24, UndisturbedQuiet DEF StartProcess, files
  <1>25. ASSUME Stop PROVE Undisturbed'
    BY <1>25, UndisturbedQuiet DEF Stop, files
  <1>26. ASSUME Crash PROVE Undisturbed'
    BY <1>26, UndisturbedIdle DEF Crash, Clear, Empty, files
  <1>27. ASSUME Exit PROVE Undisturbed'
    BY <1>27, UndisturbedIdle DEF Exit, Clear, Empty, files
  <1>28. CASE UNCHANGED vars
    BY <1>28, UndisturbedQuiet DEF vars, files, process
  <1> QED
    BY <1>1, <1>2, <1>3, <1>4, <1>5, <1>6, <1>7, <1>8, <1>9, <1>10, <1>11, <1>12, <1>13, <1>14,
       <1>15, <1>16, <1>17, <1>18, <1>19, <1>20, <1>21, <1>22, <1>23, <1>24, <1>25, <1>26, <1>27, <1>28 DEF Next

THEOREM UndisturbedHolds == Spec => []Undisturbed
  <1>1. Init => Undisturbed
    BY DEF Init, Empty, Undisturbed, OwnAnswer, Apart, ReturnsOwn, Busy
  <1> QED
    BY <1>1, UndisturbedStep, ControlHolds, PTL DEF Spec

\* Only Invoke starts a route.
LEMMA InvokeRuns ==
    ASSUME TypeOK, Control, [Next]_vars, NEW t \in Occurrences,
           route'[t] = "running", route[t] # "running"
    PROVE  Invoke(t)
  <1>1. ASSUME NEW o \in Occurrences, Invoke(o) PROVE o = t
    BY <1>1, InvokeWays DEF TypeOK
  <1>2. ASSUME NEW o \in Occurrences, Orphan(o) PROVE FALSE
    BY <1>2 DEF Orphan, TypeOK
  <1>3. ASSUME NEW o \in Occurrences, Finish(o) PROVE FALSE
    BY <1>3, FinishWays DEF TypeOK
  <1>4. ASSUME ~ \E o \in Occurrences : Invoke(o) \/ Orphan(o) \/ Finish(o) PROVE FALSE
    BY <1>4 DEF Next, Deliver, WriteDelivery, IndexReview, Acknowledge, HandlerError, Abandon,
                Advance, Fetch, Load, Start, Resolve, Report, ReportFails, MarkReported, Count,
                Ask, AskPhase, StoreError, BeginSweep, Listen, StartProcess, Crash, Stop, Exit,
                vars, outside
  <1> QED
    BY <1>1, <1>2, <1>3, <1>4

\* Whatever is repeated, restarted or reviewed, a route is started at most once
\* for an occurrence, and never after something was answered for it.
THEOREM RunsOnce == Spec => RunsOnceUnanswered
  <1>1. ASSUME TypeOK, Control, StartAhead, ReturnAhead, Undisturbed, [Next]_vars,
               NEW o \in Occurrences, route'[o] = "running" /\ route[o] # "running"
        PROVE  route[o] = "never" /\ outcome[o] = None /\ ledger[o] = None
    <2>1. Invoke(o)
      BY <1>1, InvokeRuns
    <2>2. place[o] = "invoke"
      BY <1>1, <2>1, InvokeWays
    <2>3. outcome[o] = None
      BY <1>1, <2>2 DEF Undisturbed, OwnAnswer, Busy
    <2> QED
      BY <1>1, <2>2, <2>3 DEF StartAhead, StartFits, ReturnAhead, ReturnRecorded
  <1>2. TypeOK /\ Control /\ StartAhead /\ ReturnAhead /\ Undisturbed /\ [Next]_vars =>
        [\A o \in Occurrences :
            route'[o] = "running" /\ route[o] # "running" =>
                route[o] = "never" /\ outcome[o] = None /\ ledger[o] = None]_vars
    BY <1>1
  <1> QED
    BY <1>2, ControlHolds, StartAheadHolds, ReturnAheadHolds, UndisturbedHolds, PTL
       DEF Spec, RunsOnceUnanswered

\* An outcome an occurrence produced itself is never replaced, and nothing else
\* is ever returned or marked for it.
THEOREM OwnOutcomeKept == Spec => OwnOutcomeFinal
  <1>1. ASSUME TypeOK, Control, Undisturbed, [Next]_vars,
               NEW t \in Occurrences, outcome[t] # None /\ outcome[t].by = t
        PROVE  /\ outcome'[t] = outcome[t]
               /\ ledger'[t] \in {ledger[t], outcome[t]}
               /\ reported'[t] \in {reported[t], outcome[t]}
    <2>1. ASSUME NEW o \in Occurrences, Resolve(o) PROVE hand[o].of # t
      <3>1. place[o] = "resolve"
        BY <1>1, <2>1, ResolveWays
      <3> QED
        BY <1>1, <3>1 DEF Undisturbed, OwnAnswer, Apart, Busy
    <2>2. ASSUME NEW o \in Occurrences, Resolve(o)
          PROVE  outcome'[t] = outcome[t] /\ UNCHANGED <<ledger, reported>>
      <3>1. outcome' = [outcome EXCEPT ![hand[o].of] = hand[o].what]
        BY <1>1, <2>2, ResolveWays
      <3>2. UNCHANGED <<ledger, reported>>
        BY <2>2 DEF Resolve, outside
      <3> QED
        BY <1>1, <2>1, <2>2, <3>1, <3>2 DEF TypeOK
    <2>3. ASSUME NEW o \in Occurrences, place[o] \in {"report", "mark"}, hand[o].of = t
          PROVE  hand[o].what = outcome[t]
      BY <1>1, <2>3 DEF Undisturbed, ReturnsOwn
    <2>4. ASSUME NEW o \in Occurrences, Report(o) \/ ReportFails(o)
          PROVE  ledger'[t] \in {ledger[t], outcome[t]} /\ UNCHANGED <<outcome, reported>>
      <3>1. /\ place[o] = "report"
            /\ ledger' = ledger \/ ledger' = [ledger EXCEPT ![hand[o].of] = hand[o].what]
        BY <1>1, <2>4, ReportWays, ReportFailsWays
      <3>2. UNCHANGED <<outcome, reported>>
        BY <2>4 DEF Report, ReportFails, files
      <3> QED
        BY <1>1, <2>3, <3>1, <3>2 DEF TypeOK
    <2>5. ASSUME NEW o \in Occurrences, MarkReported(o)
          PROVE  reported'[t] \in {reported[t], outcome[t]} /\ UNCHANGED <<outcome, ledger>>
      <3>1. /\ place[o] = "mark"
            /\ reported' = [reported EXCEPT ![hand[o].of] = hand[o].what]
        BY <1>1, <2>5, MarkReportedWays
      <3>2. UNCHANGED <<outcome, ledger>>
        BY <2>5 DEF MarkReported, outside
      <3> QED
        BY <1>1, <2>3, <3>1, <3>2 DEF TypeOK
    <2>6. ASSUME ~ \E o \in Occurrences :
                    Resolve(o) \/ Report(o) \/ ReportFails(o) \/ MarkReported(o)
          PROVE  UNCHANGED <<outcome, ledger, reported>>
      BY <1>1, <2>6 DEF Next, Deliver, WriteDelivery, IndexReview, Acknowledge, HandlerError,
                Abandon, Advance, Fetch, Load, Start, Invoke, Finish, Orphan, Count, Ask,
                AskPhase, StoreError, BeginSweep, Listen, StartProcess, Crash, Stop, Exit,
                vars, files, outside
    <2> QED
      BY <2>2, <2>4, <2>5, <2>6
  <1>2. TypeOK /\ Control /\ Undisturbed /\ [Next]_vars =>
        [\A o \in Occurrences :
            outcome[o] # None /\ outcome[o].by = o =>
                /\ outcome'[o] = outcome[o]
                /\ ledger'[o] \in {ledger[o], outcome[o]}
                /\ reported'[o] \in {reported[o], outcome[o]}]_vars
    BY <1>1
  <1> QED
    BY <1>2, ControlHolds, UndisturbedHolds, PTL DEF Spec, OwnOutcomeFinal
=============================================================================
