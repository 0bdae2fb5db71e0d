--------------------------- MODULE HeartimeIngress ---------------------------
(***************************************************************************)
(* The Heartime ingress (internal/ingress, cmd/heartime-ingress): the HTTP *)
(* handler that records deliveries, the files of each occurrence, the      *)
(* sweep with one goroutine per handoff, the routes it executes, the       *)
(* return of outcomes to the ledger, and the answering of return reviews.  *)
(*                                                                         *)
(* One ingress process runs at a time.  It may crash or be stopped between *)
(* any two steps and be started again; what survives is the files, the     *)
(* ledger, and routes it had started.                                      *)
(***************************************************************************)
EXTENDS Naturals, FiniteSets

CONSTANTS
    Occurrences,    \* occurrence identities
    Reviews,        \* those whose kind is return-review/<parent>
    ParentOf,       \* the parent each review asks about
    Handoffs,       \* handoff contracts
    HandoffOf,      \* the handoff each occurrence names
    Configurations, \* for each configuration, the occurrences its routes serve
    Meaning,        \* the OutcomeMap of the routes
    RouteExits,     \* the ways a route may exit
    ReviewBound,    \* reviewBound of the configuration
    MaxFaults,      \* bound on crashes, stops, disk errors and lost reports
    None            \* no outcome, no report

Outcomes == {"verified", "failed", "uncertain", "contained"}

\* The exits whose meaning the configuration declares.
Declared == {"true", "false", "missing", "refused", "error"}

\* Every exit: the declared ones, the four a route may state itself, and those
\* with a fixed meaning.  "undrained" is a route that exited 0 while its output
\* was still held open, or just as the ingress was being stopped.
Exits == Declared \cup Outcomes \cup {"unstarted", "undrained", "bound", "signal"}

ASSUME ReviewsAssumption ==
    /\ Reviews \subseteq Occurrences
    /\ ParentOf \in [Reviews -> Occurrences]
    /\ \A r \in Reviews : ParentOf[r] # r
ASSUME HandoffsAssumption == HandoffOf \in [Occurrences -> Handoffs]
ASSUME ConfigurationsAssumption == Configurations \subseteq SUBSET (Occurrences \ Reviews)
ASSUME MeaningAssumption == Meaning \in [Declared -> Outcomes]
ASSUME ExitsAssumption == RouteExits \subseteq Exits
ASSUME ReviewBoundAssumption == ReviewBound \in Nat \ {0}
ASSUME MaxFaultsAssumption == MaxFaults \in Nat

\* An outcome and the occurrence whose advance produced it.
Resolutions == [outcome : Outcomes, by : Occurrences]

ASSUME NoneAssumption == None \notin Resolutions

VARIABLES
    delivery,       \* delivery.json: "absent", "partial" (created), "whole"
    indexed,        \* parents/<parent>/<review>: the reviews counted so far
    started,        \* started.json
    outcome,        \* outcome.json
    reported,       \* reported.json
    mode,           \* what the process does
    served,         \* the configuration it loaded
    request,        \* how far the handler is with the first delivery
    place,          \* where the sweep's goroutines are with each occurrence
    lane,           \* the goroutine each occurrence of the sweep is queued for
    hand,           \* whom a goroutine deals with, what it holds, what it counted
    route,          \* the route process of each occurrence
    exit,           \* how it exited
    ledger,         \* the return Heartime accepted last
    faults          \* faults so far, of MaxFaults

files == <<delivery, indexed, started, outcome, reported>>
process == <<mode, served, request, place, lane, hand>>
outside == <<route, exit, ledger>>
vars == <<files, process, outside, faults>>

Modes == {"down", "starting", "recovering", "listening", "stopping"}

\* A goroutine is at one of these with its current occurrence.
Working == {"fetch", "load", "count", "ask", "phase", "start",
            "invoke", "running", "resolve", "report", "mark"}

Places == Working \cup {"out", "queued"}

TypeOK ==
    /\ delivery \in [Occurrences -> {"absent", "partial", "whole"}]
    /\ indexed \subseteq Reviews
    /\ started \subseteq Occurrences
    /\ outcome \in [Occurrences -> Resolutions \cup {None}]
    /\ reported \in [Occurrences -> Resolutions \cup {None}]
    /\ mode \in Modes
    /\ served \subseteq Occurrences \ Reviews
    /\ request \in [Occurrences -> {"none", "writing", "indexing", "answering"}]
    /\ \A o \in Occurrences \ Reviews : request[o] # "indexing"
    /\ place \in [Occurrences -> Places]
    /\ lane \in [Occurrences -> Handoffs \cup Occurrences]
    /\ hand \in [Occurrences -> [of : Occurrences,
                                 what : Resolutions \cup {None},
                                 tally : Nat]]
    /\ route \in [Occurrences -> {"never", "running", "ended"}]
    /\ exit \in [Occurrences -> Exits \cup {"none"}]
    /\ ledger \in [Occurrences -> Resolutions \cup {None}]
    /\ faults \in 0 .. MaxFaults

Empty(o) == [of |-> o, what |-> None, tally |-> 0]

Init ==
    /\ delivery = [o \in Occurrences |-> "absent"]
    /\ indexed = {}
    /\ started = {}
    /\ outcome = [o \in Occurrences |-> None]
    /\ reported = [o \in Occurrences |-> None]
    /\ mode = "down"
    /\ served = {}
    /\ request = [o \in Occurrences |-> "none"]
    /\ place = [o \in Occurrences |-> "out"]
    /\ lane = [o \in Occurrences |-> o]
    /\ hand = [o \in Occurrences |-> Empty(o)]
    /\ route = [o \in Occurrences |-> "never"]
    /\ exit = [o \in Occurrences |-> "none"]
    /\ ledger = [o \in Occurrences |-> None]
    /\ faults = 0

Fault == faults < MaxFaults /\ faults' = faults + 1

-----------------------------------------------------------------------------
(* The durable record of one occurrence.                                   *)

\* Mutant: what was never started counts as undispatched, answered or not.
PhaseOfForgetful(o) ==
    IF o \notin started THEN "undispatched"
    ELSE IF reported[o] # None THEN "complete"
    ELSE IF outcome[o] # None THEN "unreported"
    ELSE "in-flight"

\* What the names present say still has to happen.
PhaseOf(o) ==
    IF reported[o] # None THEN "complete"
    ELSE IF outcome[o] # None THEN "unreported"
    ELSE IF o \in started THEN "in-flight"
    ELSE "undispatched"

\* Mutant: recovery lists what was delivered and never answered, nothing else.
OwedUnanswered == {o \in Occurrences : delivery[o] # "absent" /\ outcome[o] = None}

\* The recorded occurrences that still owe something.
Owed ==
    {o \in Occurrences : /\ delivery[o] # "absent" \/ outcome[o] # None
                         /\ PhaseOf(o) # "complete"}

\* Mutant: success has no default outcome.
ClassifyUnmapped(x) ==
    CASE x = "true" -> "true"
      [] x \in Outcomes -> x
      [] x \in Declared \ {"true"} -> Meaning[x]
      [] x \in {"bound", "signal"} -> "uncertain"
      [] x \in {"unstarted", "undrained"} -> "failed"

\* How the exit of a route is read.
Classify(x) ==
    CASE x \in Outcomes -> x
      [] x \in Declared -> Meaning[x]
      [] x \in {"bound", "signal"} -> "uncertain"
      [] x \in {"unstarted", "undrained"} -> "failed"

-----------------------------------------------------------------------------
(* The handler.  Requests for one occurrence may overlap each other and a  *)
(* sweep.  Only the request that creates delivery.json has steps of its    *)
(* own; a repeat finds the file there.                                     *)

Listening == mode \in {"listening", "stopping"}

HandlerStep(o, from, to) ==
    /\ request[o] = from
    /\ request' = [request EXCEPT ![o] = to]

\* O_EXCL creates the file; its content comes with a later call.
Deliver(o) ==
    /\ Listening
    /\ delivery[o] = "absent"
    /\ HandlerStep(o, "none", "writing")
    /\ delivery' = [delivery EXCEPT ![o] = "partial"]
    /\ UNCHANGED <<indexed, started, outcome, reported, mode, served, place, lane,
                   hand, outside, faults>>

WriteDelivery(o) ==
    /\ HandlerStep(o, "writing", IF o \in Reviews THEN "indexing" ELSE "answering")
    /\ delivery' = [delivery EXCEPT ![o] = "whole"]
    /\ UNCHANGED <<indexed, started, outcome, reported, mode, served, place, lane,
                   hand, outside, faults>>

IndexReview(o) ==
    /\ HandlerStep(o, "indexing", "answering")
    /\ indexed' = indexed \cup {o}
    /\ UNCHANGED <<delivery, started, outcome, reported, mode, served, place, lane,
                   hand, outside, faults>>

\* The append to arrivals.jsonl is durable too: 202.
Acknowledge(o) ==
    /\ HandlerStep(o, "answering", "none")
    /\ UNCHANGED <<files, mode, served, place, lane, hand, outside, faults>>

\* What a repeat with the same bytes gets when it is compared with the file as
\* it is now.  Apart from a line in arrivals.jsonl it changes nothing.
RepeatRefused(o) == delivery[o] = "partial"

\* A write, a sync or the append to arrivals.jsonl fails: a 500, and nothing of
\* what was written is removed.
HandlerError(o) ==
    /\ Fault
    /\ request[o] # "none"
    /\ request' = [request EXCEPT ![o] = "none"]
    /\ UNCHANGED <<files, mode, served, place, lane, hand, outside>>

-----------------------------------------------------------------------------
(* The sweep.                                                              *)

Idle == \A o \in Occurrences : place[o] = "out"

\* The listing: each occurrence that owes something is queued for the goroutine
\* of its handoff, or for one of its own when its delivery cannot be read.
BeginSweep ==
    /\ mode \in {"starting", "listening"}
    /\ Idle
    /\ mode' = IF mode = "starting" THEN "recovering" ELSE mode
    /\ place' = [o \in Occurrences |-> IF o \in Owed THEN "queued" ELSE "out"]
    /\ lane' = [o \in Occurrences |->
                   IF o \in Owed /\ delivery[o] = "whole" THEN HandoffOf[o] ELSE o]
    /\ UNCHANGED <<files, served, request, hand, outside, faults>>

\* The first sweep is over: the ingress listens.
Listen ==
    /\ mode = "recovering"
    /\ Idle
    /\ mode' = "listening"
    /\ UNCHANGED <<files, served, request, place, lane, hand, outside, faults>>

At(o, from) == place[o] = from

Go(o, to) == place' = [place EXCEPT ![o] = to] /\ UNCHANGED <<mode, served, request, lane, hand>>

\* The goroutine is through with this occurrence, with or without an error.
Leave(o) ==
    /\ place' = [place EXCEPT ![o] = "out"]
    /\ lane' = [lane EXCEPT ![o] = o]
    /\ hand' = [hand EXCEPT ![o] = Empty(o)]
    /\ UNCHANGED <<mode, served, request>>

\* The goroutine turns to the occurrence t with the resolution w in hand.
Hold(o, to, t, w) ==
    /\ place' = [place EXCEPT ![o] = to]
    /\ hand' = [hand EXCEPT ![o] = [of |-> t, what |-> w, tally |-> 0]]
    /\ UNCHANGED <<mode, served, request, lane>>

\* resolveAndReport with a result of this advance about t.
Conclude(o, t, w) == Hold(o, "resolve", t, [outcome |-> w, by |-> o])

\* One occurrence of a lane at a time, in the order of their digests, which is
\* any order.
Turn(o) ==
    /\ place[o] = "queued"
    /\ \A q \in Occurrences : lane[q] = lane[o] => place[q] \notin Working

\* A goroutine takes nothing more once the process is being stopped.
Abandon(o) ==
    /\ Turn(o)
    /\ mode = "stopping"
    /\ Leave(o)
    /\ UNCHANGED <<files, outside, faults>>

\* Mutant: an interrupted activation did not do its work.
AdvanceFailing(o) ==
    /\ Turn(o)
    /\ mode # "stopping"
    /\ CASE PhaseOf(o) = "complete"     -> Leave(o)
         [] PhaseOf(o) = "unreported"   -> Go(o, "fetch")
         [] PhaseOf(o) = "in-flight"    -> Conclude(o, o, "failed")
         [] PhaseOf(o) = "undispatched" -> Go(o, "load")
    /\ UNCHANGED <<files, outside, faults>>

\* advance, up to its switch.  What was started and has no outcome may have run.
Advance(o) ==
    /\ Turn(o)
    /\ mode # "stopping"
    /\ CASE PhaseOf(o) = "complete"     -> Leave(o)
         [] PhaseOf(o) = "unreported"   -> Go(o, "fetch")
         [] PhaseOf(o) = "in-flight"    -> Conclude(o, o, "uncertain")
         [] PhaseOf(o) = "undispatched" -> Go(o, "load")
    /\ UNCHANGED <<files, outside, faults>>

\* The stored outcome of the occurrence in hand is read, to be returned.
Fetch(o) ==
    LET t == hand[o].of IN
    /\ At(o, "fetch")
    /\ Hold(o, "report", t, outcome[t])
    /\ UNCHANGED <<files, outside, faults>>

\* advance, after its switch: an unreadable delivery is an error of this sweep.
Load(o) ==
    /\ At(o, "load")
    /\ CASE delivery[o] # "whole" -> Leave(o)
         [] delivery[o] = "whole" /\ o \in Reviews -> Go(o, "count")
         [] delivery[o] = "whole" /\ o \in served -> Go(o, "start")
         [] OTHER -> Conclude(o, o, "contained")
    /\ UNCHANGED <<files, outside, faults>>

-----------------------------------------------------------------------------
(* Executing a route.                                                      *)

\* Mutant: the intent to invoke is not recorded.
StartUnrecorded(o) ==
    /\ At(o, "start")
    /\ Go(o, "invoke")
    /\ UNCHANGED <<files, outside, faults>>

\* The intent to invoke becomes durable.
Start(o) ==
    /\ At(o, "start")
    /\ started' = started \cup {o}
    /\ Go(o, "invoke")
    /\ UNCHANGED <<delivery, indexed, outcome, reported, outside, faults>>

\* The command starts, or cannot be started.
Invoke(o) ==
    /\ At(o, "invoke")
    /\ \/ /\ mode # "stopping"
          /\ route' = [route EXCEPT ![o] = "running"]
          /\ Go(o, "running")
          /\ UNCHANGED exit
       \/ /\ "unstarted" \in RouteExits \/ mode = "stopping"
          /\ exit' = [exit EXCEPT ![o] = "unstarted"]
          /\ Conclude(o, o, Classify("unstarted"))
          /\ UNCHANGED route
    /\ UNCHANGED <<files, ledger, faults>>

\* The command returns.  A stopping ingress kills its route.
Finish(o) ==
    /\ At(o, "running")
    /\ route' = [route EXCEPT ![o] = "ended"]
    /\ \E x \in (RouteExits \cup IF mode = "stopping" THEN {"signal"} ELSE {}) \ {"unstarted"} :
          /\ exit' = [exit EXCEPT ![o] = x]
          /\ Conclude(o, o, Classify(x))
    /\ UNCHANGED <<files, ledger, faults>>

\* A route whose ingress crashed runs on and ends unread.
Orphan(o) ==
    /\ route[o] = "running"
    /\ place[o] # "running"
    /\ route' = [route EXCEPT ![o] = "ended"]
    /\ UNCHANGED <<files, process, exit, ledger, faults>>

-----------------------------------------------------------------------------
(* Resolving, and returning the outcome to Heartime.                       *)

\* Mutant: the outcome is returned without being recorded.
ResolveUnrecorded(o) ==
    /\ At(o, "resolve")
    /\ Go(o, "report")
    /\ UNCHANGED <<files, outside, faults>>

\* The result is in the content store first; then outcome.json is replaced.
Resolve(o) ==
    LET t == hand[o].of IN
    /\ At(o, "resolve")
    /\ outcome' = [outcome EXCEPT ![t] = hand[o].what]
    /\ Go(o, "report")
    /\ UNCHANGED <<delivery, indexed, started, reported, outside, faults>>

\* One of at most three attempts reaches the ledger and is accepted.
Report(o) ==
    LET t == hand[o].of IN
    /\ At(o, "report")
    /\ mode # "stopping"
    /\ ledger' = [ledger EXCEPT ![t] = hand[o].what]
    /\ Go(o, "mark")
    /\ UNCHANGED <<files, route, exit, faults>>

\* Mutant: a parent that could not be returned counts as returned.
UnreportedTrusting(o) ==
    IF hand[o].of = o THEN Leave(o) ELSE Conclude(o, o, "verified")

\* What follows when every attempt failed: a review says so of its parent.
Unreported(o) ==
    IF hand[o].of = o THEN Leave(o) ELSE Conclude(o, o, "uncertain")

\* Every attempt fails, though the ledger may have accepted one whose answer
\* was lost.  A stopping ingress makes no attempt that can succeed; and once
\* Heartime has a return it may refuse another that is not the very same.
ReportFails(o) ==
    LET t == hand[o].of IN
    /\ At(o, "report")
    /\ \/ mode = "stopping" /\ UNCHANGED <<ledger, faults>>
       \/ ledger[t] # None /\ UNCHANGED <<ledger, faults>>
       \/ Fault /\ UNCHANGED ledger
       \/ Fault /\ ledger' = [ledger EXCEPT ![t] = hand[o].what]
    /\ Unreported(o)
    /\ UNCHANGED <<files, route, exit>>

\* Heartime accepted: reported.json is replaced.
MarkReported(o) ==
    LET t == hand[o].of IN
    /\ At(o, "mark")
    /\ reported' = [reported EXCEPT ![t] = hand[o].what]
    /\ IF t = o THEN Leave(o) ELSE Conclude(o, o, "verified")
    /\ UNCHANGED <<delivery, indexed, started, outcome, outside, faults>>

-----------------------------------------------------------------------------
(* Answering a return review.                                              *)

Count(o) ==
    /\ At(o, "count")
    /\ hand' = [hand EXCEPT ![o].tally =
                   Cardinality({r \in indexed : ParentOf[r] = ParentOf[o]})]
    /\ place' = [place EXCEPT ![o] = "ask"]
    /\ UNCHANGED <<files, mode, served, request, lane, outside, faults>>

\* Mutant: the bound is reached one review too early.
UnknownOutcomeEarly(n) == IF n + 1 >= ReviewBound THEN "contained" ELSE "uncertain"

\* What is said of a parent without a record, after n reviews of it.
UnknownOutcome(n) == IF n >= ReviewBound THEN "contained" ELSE "uncertain"

\* Mutant: a parent is accounted for even when its delivery is here.
AskBlindly(o) ==
    /\ At(o, "ask")
    /\ Conclude(o, ParentOf[o], UnknownOutcome(hand[o].tally))
    /\ UNCHANGED <<files, outside, faults>>

\* A parent without a record is accounted for in its own record.
Ask(o) ==
    /\ At(o, "ask")
    /\ IF delivery[ParentOf[o]] = "absent"
       THEN Conclude(o, ParentOf[o], UnknownOutcome(hand[o].tally))
       ELSE Go(o, "phase")
    /\ UNCHANGED <<files, outside, faults>>

\* A parent with a record: returned, to be returned now, or unfinished.
AskPhase(o) ==
    LET q == ParentOf[o] IN
    /\ At(o, "phase")
    /\ CASE PhaseOf(q) = "complete"   -> Conclude(o, o, "verified")
         [] PhaseOf(q) = "unreported" -> Hold(o, "fetch", q, None)
         [] OTHER                     -> Conclude(o, o, "contained")
    /\ UNCHANGED <<files, outside, faults>>

\* A file cannot be written or a result cannot be stored: advance returns an
\* error.  Where a review was dealing with its parent, it goes on as if the
\* parent could not be returned.
StoreError(o) ==
    /\ Fault
    /\ \/ At(o, "start") /\ Leave(o)
       \/ place[o] \in {"resolve", "mark"} /\ Unreported(o)
    /\ UNCHANGED <<files, outside>>

-----------------------------------------------------------------------------
(* The process.                                                            *)

\* Which routes there are is read once, from the configuration of that day.
StartProcess ==
    /\ mode = "down"
    /\ mode' = "starting"
    /\ \E c \in Configurations : served' = c
    /\ UNCHANGED <<files, request, place, lane, hand, outside, faults>>

Clear ==
    /\ mode' = "down"
    /\ served' = {}
    /\ request' = [o \in Occurrences |-> "none"]
    /\ place' = [o \in Occurrences |-> "out"]
    /\ lane' = [o \in Occurrences |-> o]
    /\ hand' = [o \in Occurrences |-> Empty(o)]

Crash ==
    /\ Fault
    /\ mode # "down"
    /\ Clear
    /\ UNCHANGED <<files, outside>>

\* An interrupt cancels the context.
Stop ==
    /\ Fault
    /\ mode \in {"recovering", "listening"}
    /\ mode' = "stopping"
    /\ UNCHANGED <<files, served, request, place, lane, hand, outside>>

\* The sweep has unwound; requests still open are cut off.
Exit ==
    /\ mode = "stopping"
    /\ Idle
    /\ Clear
    /\ UNCHANGED <<files, outside, faults>>

-----------------------------------------------------------------------------
\* One step of the goroutine that has o.
Sweep(o) ==
    \/ Abandon(o) \/ Advance(o) \/ Fetch(o) \/ Load(o)
    \/ Start(o) \/ Invoke(o) \/ Finish(o)
    \/ Resolve(o) \/ Report(o) \/ ReportFails(o) \/ MarkReported(o)
    \/ Count(o) \/ Ask(o) \/ AskPhase(o)

\* One step of the request that has o.
Handle(o) == WriteDelivery(o) \/ IndexReview(o) \/ Acknowledge(o)

Next ==
    \/ \E o \in Occurrences :
          \/ Deliver(o) \/ WriteDelivery(o) \/ IndexReview(o) \/ Acknowledge(o)
          \/ HandlerError(o)
          \/ Abandon(o) \/ Advance(o) \/ Fetch(o) \/ Load(o)
          \/ Start(o) \/ Invoke(o) \/ Finish(o) \/ Orphan(o)
          \/ Resolve(o) \/ Report(o) \/ ReportFails(o) \/ MarkReported(o)
          \/ Count(o) \/ Ask(o) \/ AskPhase(o) \/ StoreError(o)
    \/ BeginSweep \/ Listen \/ StartProcess \/ Crash \/ Stop \/ Exit

Spec == Init /\ [][Next]_vars

\* The process is started whenever it is down and its threads run; the ticker
\* of Run starts sweep after sweep; routes end, by themselves or by their bound.
\* Heartime need not deliver anything.
FairSpec ==
    /\ Spec
    /\ WF_vars(StartProcess) /\ WF_vars(BeginSweep) /\ WF_vars(Listen) /\ WF_vars(Exit)
    /\ \A o \in Occurrences : WF_vars(Sweep(o)) /\ WF_vars(Handle(o))

-----------------------------------------------------------------------------
(* Properties.                                                             *)

\* Whatever is repeated, restarted or reviewed, a route is started at most once
\* for an occurrence, and never after something was answered for it.
RunsOnceUnanswered ==
    [][\A o \in Occurrences :
          route'[o] = "running" /\ route[o] # "running" =>
              route[o] = "never" /\ outcome[o] = None /\ ledger[o] = None]_vars

\* The intent to run is on disk before the route runs.
StartRecorded == \A o \in Occurrences : route[o] # "never" => o \in started

\* An outcome of executing o says what the route's exit declares, or that it is
\* not known; without a route nothing is claimed.
OutcomeEarned ==
    \A o \in Occurrences \ Reviews :
        outcome[o] # None /\ outcome[o].by = o =>
            \/ outcome[o].outcome = "uncertain" /\ o \in started
            \/ exit[o] # "none" /\ outcome[o].outcome = Classify(exit[o])
            \/ outcome[o].outcome = "contained" /\ route[o] = "never"

\* The outcome an occurrence produced itself is never replaced, and nothing else
\* is ever returned for it.
OwnOutcomeFinal ==
    [][\A o \in Occurrences :
          outcome[o] # None /\ outcome[o].by = o =>
              /\ outcome'[o] = outcome[o]
              /\ ledger'[o] \in {ledger[o], outcome[o]}
              /\ reported'[o] \in {reported[o], outcome[o]}]_vars

\* A review is answered verified only when Heartime has a return for its parent.
ReviewTruthful ==
    \A r \in Reviews :
        outcome[r] # None /\ outcome[r].by = r /\ outcome[r].outcome = "verified" =>
            ledger[ParentOf[r]] # None

\* reported.json is written only once the ledger has accepted, and what the
\* ledger accepted has been an outcome on disk.
ReturnRecorded ==
    \A o \in Occurrences :
        /\ reported[o] # None => ledger[o] # None
        /\ ledger[o] # None => outcome[o] # None

\* An occurrence nobody here has a record of is contained only after the bound.
ContainedLate ==
    \A q \in Occurrences :
        outcome[q] # None /\ outcome[q].by # q /\ outcome[q].outcome = "contained" =>
            Cardinality({r \in indexed : ParentOf[r] = q}) >= ReviewBound

\* What the goroutine of o may rely on about the occurrence in its hand.
InHand(o) ==
    /\ place[o] \in {"count", "ask", "phase"} => o \in Reviews
    /\ place[o] \notin {"fetch", "resolve", "report", "mark"} => hand[o].of = o
    /\ place[o] = "fetch" => outcome[hand[o].of] # None
    /\ place[o] \in {"resolve", "report", "mark"} => hand[o].what # None
    /\ place[o] = "resolve" => hand[o].what.by = o

Control == (\A o \in Occurrences : InHand(o)) /\ IsFiniteSet(indexed)

\* o is on its way to an outcome of its own.
Busy(o) ==
    \/ place[o] \in {"load", "count", "ask", "phase", "start", "invoke", "running", "resolve"}
    \/ hand[o].of # o

\* Only an occurrence that was delivered and has no outcome gets one of its own.
OwnAnswer(o) ==
    /\ Busy(o) => outcome[o] = None /\ delivery[o] # "absent"
    /\ place[o] = "queued" /\ outcome[o] = None => delivery[o] # "absent"
    /\ outcome[o] # None /\ outcome[o].by = o => delivery[o] # "absent"

\* While the review q deals with o, o is not on its way to an outcome of its own;
\* and q resolves it only if it has none.
Apart(o, q) ==
    q # o /\ hand[q].of = o =>
        /\ ~ Busy(o)
        /\ place[o] = "queued" => outcome[o] # None
        /\ place[q] = "resolve" /\ outcome[o] # None => outcome[o].by # o

\* What is being returned for o is its own outcome once it has one.
ReturnsOwn(o, q) ==
    /\ hand[q].of = o /\ place[q] \in {"report", "mark"}
    /\ outcome[o] # None /\ outcome[o].by = o
    => hand[q].what = outcome[o]

Undisturbed ==
    /\ \A o \in Occurrences : OwnAnswer(o)
    /\ \A o, q \in Occurrences : Apart(o, q) /\ ReturnsOwn(o, q)

\* StartRecorded with what makes it inductive.
StartFits(o) ==
    /\ place[o] \in {"invoke", "running"} => o \in started
    /\ place[o] \in {"load", "start", "invoke"} => route[o] = "never"

StartAhead == StartRecorded /\ \A o \in Occurrences : StartFits(o)

\* ReturnRecorded with what makes it inductive.
ReturnFits(o) ==
    /\ place[o] \in {"report", "mark"} => outcome[hand[o].of] # None
    /\ place[o] = "mark" => ledger[hand[o].of] # None

ReturnAhead == ReturnRecorded /\ \A o \in Occurrences : ReturnFits(o)

\* Everything recorded is answered: Heartime gets a return for it, through
\* crashes, stops and refused reports.
Answered == \A o \in Occurrences : delivery[o] = "whole" ~> ledger[o] # None

\* No goroutine has o or deals with it for a review.
Untouched(o) == \A q \in Occurrences : place[q] # "out" => hand[q].of # o /\ q # o

\* report.go and the documentation: an outcome that cannot be returned now stays
\* owed.  At rest, a complete occurrence is one whose outcome was returned.
UnreturnedStaysOwed ==
    \A o \in Occurrences :
        Untouched(o) /\ PhaseOf(o) = "complete" => reported[o].outcome = outcome[o].outcome

\* receiver.go and the documentation: one handoff never has two activations of
\* its state at once.
OneActivation ==
    \A o, q \in Occurrences :
        /\ route[o] = "running" /\ route[q] = "running"
        /\ HandoffOf[o] = HandoffOf[q]
        => o = q

\* store.go and the documentation: only other bytes are an integrity failure, so
\* an identical repeat may at most collide with the first while it is written.
RepeatAccepted == \A o \in Occurrences : RepeatRefused(o) => request[o] = "writing"
=============================================================================
