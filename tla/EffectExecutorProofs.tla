------------------------ MODULE EffectExecutorProofs ------------------------
(***************************************************************************)
(* Theorems about EffectExecutor for any number of executor processes,     *)
(* steps and faults and for any catalog.  Every proof follows the same     *)
(* line: TypeOK first; then the ownership invariant, which says what a     *)
(* process may rely on while it holds an effect between authorization and  *)
(* verdict; then the properties that follow from it.                       *)
(***************************************************************************)
EXTENDS EffectExecutor, TLAPS

\* The lifecycle table, read one event at a time.
LEMMA LifecycleFacts ==
    /\ Accepts \in [States -> SUBSET Events]
    /\ Leads \in [Events -> States]
    /\ \A st \in States :
          /\ "authorize" \in Accepts[st] => st = "planned"
          /\ "dispatch" \in Accepts[st] => st = "authorized"
          /\ \A ev \in Accepts[st] :
                ev \notin {"authorize", "dispatch"} =>
                    st \in {"dispatched", "acknowledged", "uncertain"}
          /\ "acknowledge" \in Accepts[st] => st = "dispatched"
    /\ Leads["authorize"] = "authorized"
    /\ Leads["dispatch"] = "dispatched"
    /\ Leads["acknowledge"] = "acknowledged"
    /\ Leads["verify_match"] = "verified"
    /\ Leads["lose_certainty"] = "uncertain"
    /\ Leads["fail"] = "failed"
  <1>1. Accepts \in [States -> SUBSET Events]
    BY DEF Accepts, States, Events
  <1>2. Leads \in [Events -> States]
    BY DEF Leads, States, Events
  <1>3. ASSUME NEW st \in States
        PROVE  /\ "authorize" \in Accepts[st] => st = "planned"
               /\ "dispatch" \in Accepts[st] => st = "authorized"
               /\ \A ev \in Accepts[st] :
                     ev \notin {"authorize", "dispatch"} =>
                         st \in {"dispatched", "acknowledged", "uncertain"}
               /\ "acknowledge" \in Accepts[st] => st = "dispatched"
    BY DEF Accepts, States
  <1>4. /\ Leads["authorize"] = "authorized"
        /\ Leads["dispatch"] = "dispatched"
        /\ Leads["acknowledge"] = "acknowledged"
        /\ Leads["verify_match"] = "verified"
        /\ Leads["lose_certainty"] = "uncertain"
        /\ Leads["fail"] = "failed"
    BY DEF Leads, Events
  <1> QED
    BY <1>1, <1>2, <1>3, <1>4

-----------------------------------------------------------------------------
(* Type correctness.                                                       *)

\* What every control operator leaves of the local variables' types.
LocalTypeOK ==
    /\ pc \in [Executors -> Places]
    /\ at \in [Executors -> Steps]
    /\ event \in [Executors -> Events]
    /\ seen \in [Executors -> States]

LEMMA ControlTypes ==
    ASSUME LocalTypeOK, NEW p \in Executors
    PROVE  /\ \A place \in Places : GoTo(p, place) => LocalTypeOK'
           /\ Stop(p) => LocalTypeOK'
           /\ StepDone(p) => LocalTypeOK'
           /\ \A ev \in Events : Record(p, ev) => LocalTypeOK'
  <1>1. 1 \in Steps
    BY StepCountAssumption DEF Steps
  <1>2. Stop(p) => LocalTypeOK'
    BY <1>1 DEF Stop, LocalTypeOK, Places, Events, States
  <1>3. ASSUME StepDone(p), at[p] # StepCount PROVE LocalTypeOK'
    <2>1. at[p] + 1 \in Steps
      BY <1>3, StepCountAssumption DEF Steps, LocalTypeOK
    <2> QED
      BY <1>3, <2>1 DEF StepDone, LocalTypeOK, Places, Events, States
  <1>4. StepDone(p) => LocalTypeOK'
    BY <1>2, <1>3 DEF StepDone
  <1>5. ASSUME NEW place \in Places, GoTo(p, place) PROVE LocalTypeOK'
    BY <1>5 DEF GoTo, LocalTypeOK
  <1>6. ASSUME NEW ev \in Events, Record(p, ev) PROVE LocalTypeOK'
    BY <1>6 DEF Record, LocalTypeOK, Places
  <1> QED
    BY <1>2, <1>4, <1>5, <1>6

\* TypeOK without the local variables.
SharedTypeOK ==
    /\ profile \in [Steps -> Catalog]
    /\ state \in [Steps -> States \cup {"none"}]
    /\ log \in [Steps -> Seq(Entry)]
    /\ world \in [Steps -> {"absent", "inflight", "applied", "lost"}]
    /\ invoked \in [Steps -> Nat]
    /\ faults \in 0 .. MaxFaults

LEMMA TypeSplit ==
    /\ TypeOK <=> LocalTypeOK /\ SharedTypeOK
    /\ TypeOK' <=> LocalTypeOK' /\ SharedTypeOK'
  BY DEF TypeOK, LocalTypeOK, SharedTypeOK

\* A durable transition leads to a state of the lifecycle and logs an entry.
LEMMA CommitTypes ==
    ASSUME TypeOK, NEW p \in Executors, CommitTransition(p)
    PROVE  TypeOK'
  <1> USE TypeSplit, ControlTypes
  <1> DEFINE s == at[p]
             entry == [from |-> seen[p], event |-> event[p], to |-> Leads[event[p]]]
  <1>1. entry \in Entry
    BY LifecycleFacts DEF Entry, LocalTypeOK
  <1>2. entry.to \in States
    BY LifecycleFacts DEF LocalTypeOK
  <1>3. s \in Steps
    BY DEF LocalTypeOK
  <1>4. CASE state[s] = seen[p]
    <2>1. /\ state' = [state EXCEPT ![s] = entry.to]
          /\ log' = [log EXCEPT ![s] = Append(@, entry)]
          /\ AfterCommit(p)
          /\ UNCHANGED <<profile, world, invoked, faults>>
      BY <1>4 DEF CommitTransition, outside
    <2>2. Append(log[s], entry) \in Seq(Entry)
      <3>1. log[s] \in Seq(Entry)
        BY <1>3 DEF SharedTypeOK
      <3> HIDE DEF entry
      <3> QED BY <1>1, <3>1
    <2>3. log' \in [Steps -> Seq(Entry)]
      <3> HIDE DEF entry, s
      <3> QED BY <1>3, <2>1, <2>2 DEF SharedTypeOK
    <2>4. SharedTypeOK'
      <3> HIDE DEF entry, s
      <3> QED BY <1>2, <1>3, <2>1, <2>3 DEF SharedTypeOK
    <2>5. LocalTypeOK'
      <3>1. CASE event[p] = "authorize"
        BY <2>1, <3>1 DEF AfterCommit, Events
      <3>2. CASE event[p] = "dispatch"
        BY <2>1, <3>2 DEF AfterCommit, Places
      <3>3. CASE event[p] = "acknowledge"
        BY <2>1, <3>3 DEF AfterCommit, Events, Places
      <3>4. CASE event[p] = "verify_match"
        BY <2>1, <3>4 DEF AfterCommit
      <3>5. CASE event[p] \in {"lose_certainty", "fail"}
        BY <2>1, <3>5 DEF AfterCommit
      <3>6. event[p] \in Events
        BY DEF LocalTypeOK
      <3> QED
        BY <3>1, <3>2, <3>3, <3>4, <3>5, <3>6 DEF Events
    <2> QED
      BY <2>4, <2>5
  <1>5. CASE state[s] # seen[p]
    BY <1>5 DEF CommitTransition, SharedTypeOK, journal, outside
  <1> QED
    BY <1>4, <1>5

\* No step leaves the types.
LEMMA TypeStep == TypeOK /\ [Next]_vars => TypeOK'
  <1> SUFFICES ASSUME TypeOK, [Next]_vars PROVE TypeOK'
    OBVIOUS
  <1> USE TypeSplit, ControlTypes
  <1>1. ASSUME NEW p \in Executors, Begin(p) PROVE TypeOK'
    BY <1>1 DEF Begin, SharedTypeOK, Places, journal, outside
  <1>2. ASSUME NEW p \in Executors, Found(p) PROVE LocalTypeOK'
    BY <1>2 DEF Found, Places
  <1>3. ASSUME NEW p \in Executors, Get(p) PROVE TypeOK'
    BY <1>2, <1>3 DEF Get, SharedTypeOK, Places, journal, outside
  <1>4. ASSUME NEW p \in Executors, Create(p) PROVE TypeOK'
    <2>1. LocalTypeOK'
      BY <1>4 DEF Create, Places
    <2>2. state' \in [Steps -> States \cup {"none"}]
      BY <1>4 DEF Create, SharedTypeOK, LocalTypeOK, States
    <2>3. SharedTypeOK'
      BY <1>4, <2>2 DEF Create, SharedTypeOK, outside
    <2> QED BY <2>1, <2>3
  <1>5. ASSUME NEW p \in Executors, Reget(p) PROVE TypeOK'
    BY <1>2, <1>5 DEF Reget, SharedTypeOK, journal, outside
  <1>6. ASSUME NEW p \in Executors, Decide(p) PROVE TypeOK'
    BY <1>6 DEF Decide, SharedTypeOK, Events, journal, outside
  <1>7. ASSUME NEW p \in Executors, ReadState(p) PROVE TypeOK'
    <2>1. SharedTypeOK'
      BY <1>7 DEF ReadState, SharedTypeOK, journal, outside
    <2>2. CASE Stop(p)
      BY <2>1, <2>2
    <2>3. CASE ~Stop(p)
      <3>1. state[at[p]] \in States
        BY <1>7, <2>3 DEF ReadState, SharedTypeOK, LocalTypeOK
      <3> QED
        BY <1>7, <2>1, <2>3, <3>1 DEF ReadState, LocalTypeOK, Places
    <2> QED BY <2>2, <2>3
  <1>8. ASSUME NEW p \in Executors, CommitTransition(p) PROVE TypeOK'
    BY <1>8, CommitTypes
  <1>9. ASSUME NEW p \in Executors, Invoke(p) PROVE TypeOK'
    <2>1. LocalTypeOK'
      BY <1>9 DEF Invoke, Places, Events
    <2>2. /\ invoked' = [invoked EXCEPT ![at[p]] = @ + 1]
          /\ world' \in {[world EXCEPT ![at[p]] = "inflight"], world}
          /\ at[p] \in Steps
      BY <1>9 DEF Invoke, LocalTypeOK
    <2>3. /\ world \in [Steps -> {"absent", "inflight", "applied", "lost"}]
          /\ invoked \in [Steps -> Nat]
      BY DEF SharedTypeOK
    <2>4. world' \in [Steps -> {"absent", "inflight", "applied", "lost"}]
      BY <2>2, <2>3
    <2>5. invoked' \in [Steps -> Nat]
      BY <2>2, <2>3
    <2> QED BY <1>9, <2>1, <2>4, <2>5 DEF Invoke, SharedTypeOK, journal
  <1>10. ASSUME NEW p \in Executors, Outcome(p) PROVE TypeOK'
    BY <1>10 DEF Outcome, SharedTypeOK, Events, journal, outside
  <1>11. ASSUME NEW p \in Executors, Verify(p) PROVE TypeOK'
    BY <1>11 DEF Verify, SharedTypeOK, Events, journal, outside
  <1>12. ASSUME NEW s \in Steps, Settle(s) PROVE TypeOK'
    BY <1>12 DEF Settle, SharedTypeOK, LocalTypeOK, journal, local
  <1>13. Fault => faults' \in 0 .. MaxFaults
    BY MaxFaultsAssumption DEF Fault, SharedTypeOK
  <1>14. ASSUME NEW p \in Executors, Crash(p) PROVE TypeOK'
    BY <1>13, <1>14 DEF Crash, SharedTypeOK, journal, outside
  <1>15. ASSUME NEW p \in Executors, JournalError(p) PROVE TypeOK'
    BY <1>13, <1>15 DEF JournalError, SharedTypeOK, Places, journal, outside
  <1>16. ASSUME NEW p \in Executors, AuthorizerError(p) PROVE TypeOK'
    BY <1>13, <1>16 DEF AuthorizerError, SharedTypeOK, journal, outside
  <1>17. CASE UNCHANGED vars
    BY <1>17 DEF vars, journal, local, outside, TypeOK
  <1> QED
    BY <1>1, <1>3, <1>4, <1>5, <1>6, <1>7, <1>8, <1>9, <1>10, <1>11, <1>12,
       <1>14, <1>15, <1>16, <1>17 DEF Next

\* Every variable keeps its type in every reachable state.
THEOREM TypeCorrect == Spec => []TypeOK
  <1>1. Init => TypeOK
    <2> SUFFICES ASSUME Init PROVE TypeOK
      OBVIOUS
    <2>1. 1 \in Steps
      BY StepCountAssumption DEF Steps
    <2>2. << >> \in Seq(Entry)
      OBVIOUS
    <2> QED
      BY <2>1, <2>2, MaxFaultsAssumption
      DEF Init, TypeOK, Places, Events, States
  <1>2. TypeOK /\ [Next]_vars => TypeOK'
    BY TypeStep
  <1> QED
    BY <1>1, <1>2, PTL DEF Spec

-----------------------------------------------------------------------------
(* Ownership: between its authorization and its verdict an effect belongs  *)
(* to one process, and every other process is turned away by the journal.  *)

\* A step of process p leaves the other processes where they are.
Others(p) ==
    \A q \in Executors \ {p} :
        pc'[q] = pc[q] /\ at'[q] = at[q] /\ event'[q] = event[q] /\ seen'[q] = seen[q]

LEMMA ControlFrames ==
    ASSUME TypeOK, NEW p \in Executors
    PROVE  /\ \A place : GoTo(p, place) =>
                 Others(p) /\ pc'[p] = place /\ UNCHANGED <<at, event, seen>>
           /\ Stop(p) => Others(p) /\ pc'[p] = "idle"
           /\ StepDone(p) => Others(p) /\ pc'[p] \in {"idle", "get"}
           /\ \A ev : Record(p, ev) =>
                 Others(p) /\ pc'[p] = "read" /\ event'[p] = ev /\ UNCHANGED <<at, seen>>
  <1>1. Stop(p) => Others(p) /\ pc'[p] = "idle"
    BY DEF Stop, Others, TypeOK
  <1>2. StepDone(p) => Others(p) /\ pc'[p] \in {"idle", "get"}
    BY <1>1 DEF StepDone, Others, TypeOK
  <1>3. ASSUME NEW place, GoTo(p, place)
        PROVE  Others(p) /\ pc'[p] = place /\ UNCHANGED <<at, event, seen>>
    BY <1>3 DEF GoTo, Others, TypeOK
  <1>4. ASSUME NEW ev, Record(p, ev)
        PROVE  Others(p) /\ pc'[p] = "read" /\ event'[p] = ev /\ UNCHANGED <<at, seen>>
    BY <1>4 DEF Record, Others, TypeOK
  <1> QED
    BY <1>1, <1>2, <1>3, <1>4

\* A step that changes no record and takes no effect over keeps Ownership, once
\* its own process may rely on what its new place requires.
LEMMA OwnershipKept ==
    ASSUME Ownership, NEW p \in Executors, Others(p),
           UNCHANGED <<state, invoked>>, Held(p)',
           \A s \in Steps : Owns(p, s)' => Owns(p, s)
    PROVE  Ownership'
  <1>1. SingleOwner'
    BY DEF Ownership, SingleOwner, Owns, Others
  <1>2. ASSUME NEW q \in Executors PROVE Held(q)'
    BY DEF Ownership, Held, Others
  <1>3. RecordedBeforeSent' /\ AtMostOnce'
    BY DEF Ownership, RecordedBeforeSent, AtMostOnce
  <1> QED
    BY <1>1, <1>2, <1>3 DEF Ownership

\* An effect that somebody owns is authorized, dispatched or acknowledged.
LEMMA OwnedStates ==
    ASSUME TypeOK, Ownership, NEW p \in Executors, NEW s \in Steps, Owns(p, s)
    PROVE  state[s] \in {"authorized", "dispatched", "acknowledged"}
  BY DEF Ownership, Held, Owns

LEMMA OwnershipCreate ==
    ASSUME TypeOK, Ownership, NEW p \in Executors, Create(p)
    PROVE  Ownership'
  <1> DEFINE s == at[p]
  <1>1. s \in Steps
    BY DEF TypeOK
  <1>2. CASE state[s] = "none"
    <2>1. /\ state' = [state EXCEPT ![s] = "planned"]
          /\ Others(p) /\ pc'[p] = "reget" /\ UNCHANGED <<at, event, seen, invoked>>
      BY <1>2, ControlFrames DEF Create, outside
    <2>2. \A q \in Executors : ~ Owns(q, s)
      BY <1>1, <1>2, OwnedStates
    <2>3. SingleOwner'
      BY <2>1 DEF Ownership, SingleOwner, Owns, Others
    <2>4. ASSUME NEW q \in Executors PROVE Held(q)'
      <3>1. CASE q = p
        BY <2>1, <3>1 DEF Held
      <3>2. CASE q # p
        <4>1. pc'[q] = pc[q] /\ at'[q] = at[q] /\ event'[q] = event[q] /\ seen'[q] = seen[q]
          BY <2>1, <3>2 DEF Others
        <4>2. Held(q) /\ at[q] \in Steps
          BY DEF Ownership, TypeOK
        <4>3. CASE at[q] = s
          BY <2>1, <2>2, <4>1, <4>2, <4>3 DEF Held, Owns
        <4>4. CASE at[q] # s
          BY <1>1, <2>1, <4>1, <4>2, <4>4 DEF Held, TypeOK
        <4> QED BY <4>3, <4>4
      <3> QED BY <3>1, <3>2
    <2>5. RecordedBeforeSent' /\ AtMostOnce'
      BY <1>1, <1>2, <2>1 DEF Ownership, RecordedBeforeSent, AtMostOnce, TypeOK
    <2> QED
      BY <2>3, <2>4, <2>5 DEF Ownership
  <1>3. CASE state[s] # "none"
    <2>1. Others(p) /\ pc'[p] = "idle" /\ UNCHANGED <<state, invoked>>
      BY <1>3, ControlFrames DEF Create, outside
    <2> QED
      BY <2>1, OwnershipKept DEF Held, Owns
  <1> QED
    BY <1>2, <1>3

\* Invoke is called by the owner, who alone is affected.
LEMMA OwnershipInvoke ==
    ASSUME TypeOK, Ownership, NEW p \in Executors, Invoke(p)
    PROVE  Ownership'
  <1> DEFINE s == at[p]
  <1>1. s \in Steps /\ Owns(p, s) /\ state[s] = "dispatched" /\ invoked[s] = 0
    BY DEF TypeOK, Invoke, Owns, Ownership, Held
  <1>2. /\ invoked' = [invoked EXCEPT ![s] = @ + 1]
        /\ Others(p) /\ UNCHANGED <<at, state>>
        /\ pc'[p] = "outcome" \/ (pc'[p] = "read" /\ event'[p] = "fail")
    BY ControlFrames DEF Invoke, journal
  <1>3. \A q \in Executors \ {p} : ~ Owns(q, s)
    BY <1>1 DEF Ownership, SingleOwner
  <1>4. SingleOwner'
    BY <1>1, <1>2, <1>3 DEF Ownership, SingleOwner, Owns, Others
  <1>5. ASSUME NEW q \in Executors PROVE Held(q)'
    <2>1. CASE q = p
      BY <1>1, <1>2, <2>1 DEF Held
    <2>2. CASE q # p
      <3>1. pc'[q] = pc[q] /\ at'[q] = at[q] /\ event'[q] = event[q] /\ seen'[q] = seen[q]
        BY <1>2, <2>2 DEF Others
      <3>2. Held(q) /\ at[q] \in Steps
        BY DEF Ownership, TypeOK
      <3>3. CASE at[q] = s
        BY <1>2, <1>3, <2>2, <3>1, <3>2, <3>3 DEF Held, Owns
      <3>4. CASE at[q] # s
        BY <1>1, <1>2, <3>1, <3>2, <3>4 DEF Held, TypeOK
      <3> QED BY <3>3, <3>4
    <2> QED BY <2>1, <2>2
  <1>6. RecordedBeforeSent' /\ AtMostOnce'
    BY <1>1, <1>2 DEF Ownership, RecordedBeforeSent, AtMostOnce, TypeOK
  <1> QED
    BY <1>4, <1>5, <1>6 DEF Ownership

\* The commit of p is what makes it the owner of an effect nobody owns, or it is
\* the owner's own and moves the effect along.
LEMMA OwnershipCommit ==
    ASSUME TypeOK, Ownership, NEW p \in Executors, CommitTransition(p)
    PROVE  Ownership'
  <1> DEFINE s == at[p]
  <1>1. /\ s \in Steps /\ event[p] \in Events /\ seen[p] \in States
        /\ pc[p] = "commit" /\ event[p] \in Accepts[seen[p]] /\ Held(p)
    BY DEF TypeOK, CommitTransition, Ownership, Held
  <1>2. CASE state[s] # seen[p]
    <2>1. Others(p) /\ pc'[p] = "idle" /\ UNCHANGED <<state, invoked>>
      BY <1>2, ControlFrames DEF CommitTransition, journal, outside
    <2> QED
      BY <2>1, OwnershipKept DEF Held, Owns
  <1>3. CASE state[s] = seen[p]
    <2>1. /\ state' = [state EXCEPT ![s] = Leads[event[p]]]
          /\ AfterCommit(p) /\ UNCHANGED invoked
      BY <1>3 DEF CommitTransition, outside
    <2>2. state'[s] = Leads[event[p]]
      BY <1>1, <2>1 DEF TypeOK
    <2>3. /\ Others(p)
          /\ \/ pc'[p] \in {"idle", "get"}
             \/ /\ event[p] = "authorize"
                /\ pc'[p] = "read" /\ event'[p] = "dispatch" /\ at'[p] = s
             \/ /\ event[p] = "dispatch"
                /\ pc'[p] = "invoke" /\ at'[p] = s
             \/ /\ event[p] = "acknowledge" /\ at'[p] = s
                /\ \/ pc'[p] = "verify"
                   \/ pc'[p] = "read" /\ event'[p] = "verify_match"
      <3>1. CASE event[p] = "authorize"
        BY <2>1, <3>1, ControlFrames DEF AfterCommit
      <3>2. CASE event[p] = "dispatch"
        BY <2>1, <3>2, ControlFrames DEF AfterCommit
      <3>3. CASE event[p] = "acknowledge"
        BY <2>1, <3>3, ControlFrames DEF AfterCommit
      <3>4. CASE event[p] = "verify_match"
        BY <2>1, <3>4, ControlFrames DEF AfterCommit
      <3>5. CASE event[p] \in {"lose_certainty", "fail"}
        BY <2>1, <3>5, ControlFrames DEF AfterCommit
      <3> QED
        BY <1>1, <3>1, <3>2, <3>3, <3>4, <3>5 DEF Events
    <2>4. ASSUME NEW q \in Executors \ {p} PROVE ~ Owns(q, s)
      <3>1. CASE event[p] = "authorize"
        BY <1>1, <1>3, <3>1, LifecycleFacts, OwnedStates
      <3>2. CASE event[p] # "authorize"
        BY <1>1, <3>2 DEF Owns, Ownership, SingleOwner
      <3> QED BY <3>1, <3>2
    <2>5. SingleOwner'
      BY <1>1, <2>3, <2>4 DEF Ownership, SingleOwner, Owns, Others
    <2>6. Held(p)'
      <3>1. \/ pc'[p] \in {"idle", "get"}
            \/ pc'[p] = "read" /\ event'[p] = "dispatch" /\ at'[p] = s /\ state'[s] = "authorized"
            \/ pc'[p] = "invoke" /\ at'[p] = s /\ state'[s] = "dispatched" /\ invoked'[s] = 0
            \/ /\ pc'[p] = "verify" \/ (pc'[p] = "read" /\ event'[p] = "verify_match")
               /\ at'[p] = s /\ state'[s] = "acknowledged"
        <4>1. event[p] = "dispatch" => invoked[s] = 0
          BY <1>1, <1>3, LifecycleFacts DEF Ownership, RecordedBeforeSent, TypeOK
        <4> QED
          BY <2>1, <2>2, <2>3, <4>1, LifecycleFacts
      <3> QED
        BY <3>1 DEF Held
    <2>7. ASSUME NEW q \in Executors \ {p} PROVE Held(q)'
      <3>1. pc'[q] = pc[q] /\ at'[q] = at[q] /\ event'[q] = event[q] /\ seen'[q] = seen[q]
        BY <2>3 DEF Others
      <3>2. Held(q) /\ at[q] \in Steps
        BY DEF Ownership, TypeOK
      <3>3. CASE at[q] = s
        BY <2>1, <2>4, <3>1, <3>2, <3>3 DEF Held, Owns
      <3>4. CASE at[q] # s
        BY <1>1, <2>1, <3>1, <3>2, <3>4 DEF Held, TypeOK
      <3> QED BY <3>3, <3>4
    <2>8. RecordedBeforeSent'
      <3>1. Leads[event[p]] \in {"authorized", "none", "planned"} => invoked[s] = 0
        <4>1. Leads[event[p]] \in {"authorized", "none", "planned"} => event[p] = "authorize"
          BY <1>1, LifecycleFacts DEF Events
        <4>2. event[p] = "authorize" => state[s] = "planned"
          BY <1>1, <1>3, LifecycleFacts
        <4> QED
          BY <1>1, <4>1, <4>2 DEF Ownership, RecordedBeforeSent, TypeOK
      <3> QED
        BY <1>1, <2>1, <3>1 DEF Ownership, RecordedBeforeSent, TypeOK
    <2>9. AtMostOnce'
      BY <2>1 DEF Ownership, AtMostOnce
    <2> QED
      BY <2>5, <2>6, <2>7, <2>8, <2>9 DEF Ownership
  <1> QED
    BY <1>2, <1>3

LEMMA OwnershipStep == TypeOK /\ Ownership /\ [Next]_vars => Ownership'
  <1> SUFFICES ASSUME TypeOK, Ownership, [Next]_vars PROVE Ownership'
    OBVIOUS
  <1>1. ASSUME NEW p \in Executors, Others(p), UNCHANGED <<state, invoked>>,
               pc'[p] \in {"idle", "get", "create", "reget", "decide"}
        PROVE  Ownership'
    BY <1>1, OwnershipKept DEF Held, Owns
  <1>2. ASSUME NEW p \in Executors, Begin(p) PROVE Ownership'
    BY <1>1, <1>2, ControlFrames DEF Begin, journal, outside
  <1>3. ASSUME NEW p \in Executors, Found(p)
        PROVE  Others(p) /\ pc'[p] \in {"idle", "get", "decide"}
    BY <1>3, ControlFrames DEF Found
  <1>4. ASSUME NEW p \in Executors, Get(p) PROVE Ownership'
    BY <1>1, <1>3, <1>4, ControlFrames DEF Get, journal, outside
  <1>5. ASSUME NEW p \in Executors, Create(p) PROVE Ownership'
    BY <1>5, OwnershipCreate
  <1>6. ASSUME NEW p \in Executors, Reget(p) PROVE Ownership'
    BY <1>1, <1>3, <1>6 DEF Reget, journal, outside
  <1>7. ASSUME NEW p \in Executors, Decide(p) PROVE Ownership'
    <2>1. UNCHANGED <<state, invoked>>
      BY <1>7 DEF Decide, journal, outside
    <2>2. Stop(p) \/ Record(p, "authorize")
      BY <1>7 DEF Decide
    <2>3. CASE Stop(p)
      BY <1>1, <2>1, <2>3, ControlFrames
    <2>4. CASE Record(p, "authorize")
      <3>1. Others(p) /\ pc'[p] = "read" /\ event'[p] = "authorize"
        BY <2>4, ControlFrames
      <3> QED
        BY <2>1, <3>1, OwnershipKept DEF Held, Owns
    <2> QED BY <2>2, <2>3, <2>4
  <1>8. ASSUME NEW p \in Executors, ReadState(p) PROVE Ownership'
    <2>1. UNCHANGED <<state, invoked>>
      BY <1>8 DEF ReadState, journal, outside
    <2>2. CASE Stop(p)
      BY <1>1, <2>1, <2>2, ControlFrames
    <2>3. CASE ~ Stop(p)
      <3>1. /\ Others(p) /\ UNCHANGED <<at, event>> /\ pc[p] = "read" /\ pc'[p] = "commit"
            /\ event[p] \in Accepts[seen'[p]]
        BY <1>8, <2>3 DEF ReadState, Others, TypeOK
      <3>2. Held(p)'
        BY <2>1, <3>1 DEF Ownership, Held
      <3>3. \A s \in Steps : Owns(p, s)' => Owns(p, s)
        BY <3>1 DEF Owns
      <3> QED
        BY <2>1, <3>1, <3>2, <3>3, OwnershipKept
    <2> QED BY <2>2, <2>3
  <1>9. ASSUME NEW p \in Executors, CommitTransition(p) PROVE Ownership'
    BY <1>9, OwnershipCommit
  <1>10. ASSUME NEW p \in Executors, Invoke(p) PROVE Ownership'
    BY <1>10, OwnershipInvoke
  <1>11. ASSUME NEW p \in Executors, NEW ev \in {"acknowledge", "verify_match", "lose_certainty", "fail"},
                Record(p, ev), pc[p] \in {"outcome", "verify"}, UNCHANGED <<state, invoked>>
         PROVE  Ownership'
    <2>1. Others(p) /\ pc'[p] = "read" /\ event'[p] = ev /\ UNCHANGED at
      BY <1>11, ControlFrames
    <2>2. Held(p)'
      BY <1>11, <2>1 DEF Ownership, Held
    <2>3. \A s \in Steps : Owns(p, s)' => Owns(p, s)
      BY <1>11, <2>1 DEF Owns
    <2> QED
      BY <1>11, <2>1, <2>2, <2>3, OwnershipKept
  <1>12. ASSUME NEW p \in Executors, Outcome(p) PROVE Ownership'
    BY <1>11, <1>12 DEF Outcome, journal, outside
  <1>13. ASSUME NEW p \in Executors, Verify(p) PROVE Ownership'
    BY <1>11, <1>13 DEF Verify, journal, outside
  <1>14. ASSUME NEW s \in Steps, Settle(s) PROVE Ownership'
    BY <1>14 DEF Settle, journal, local, Ownership, SingleOwner, Owns, Held,
                 RecordedBeforeSent, AtMostOnce
  <1>15. ASSUME NEW p \in Executors, Crash(p) PROVE Ownership'
    BY <1>1, <1>15, ControlFrames DEF Crash, journal, outside
  <1>16. ASSUME NEW p \in Executors, JournalError(p) PROVE Ownership'
    BY <1>1, <1>16, ControlFrames DEF JournalError, journal, outside
  <1>17. ASSUME NEW p \in Executors, AuthorizerError(p) PROVE Ownership'
    BY <1>1, <1>17, ControlFrames DEF AuthorizerError, journal, outside
  <1>18. CASE UNCHANGED vars
    BY <1>18 DEF vars, journal, local, outside, Ownership, SingleOwner, Owns, Held,
                 RecordedBeforeSent, AtMostOnce
  <1> QED
    BY <1>2, <1>4, <1>5, <1>6, <1>7, <1>8, <1>9, <1>10, <1>12, <1>13, <1>14,
       <1>15, <1>16, <1>17, <1>18 DEF Next

THEOREM OwnershipHolds == Spec => []Ownership
  <1>1. Init => Ownership
    BY DEF Init, Ownership, SingleOwner, Owns, Held, RecordedBeforeSent, AtMostOnce
  <1>2. TypeOK /\ Ownership /\ [Next]_vars => Ownership'
    BY OwnershipStep
  <1> QED
    BY <1>1, <1>2, TypeCorrect, PTL DEF Spec

\* No effect is ever invoked twice, by any number of processes and restarts.
THEOREM DispatchedAtMostOnce == Spec => []AtMostOnce
  BY OwnershipHolds, PTL DEF Ownership

\* No effect is invoked before its record says that it may have been.
THEOREM WriteAhead == Spec => []RecordedBeforeSent
  BY OwnershipHolds, PTL DEF Ownership

\* An effect has one owner between authorization and verdict, without a lock.
THEOREM OneOwner == Spec => []SingleOwner
  BY OwnershipHolds, PTL DEF Ownership

-----------------------------------------------------------------------------
(* Evidence: what a record says of the world rests on the world.           *)

\* The events of a transition and the evidence that p holds for it.
HasEvidence(p) ==
    LET w == world[at[p]] IN
    /\ pc[p] = "invoke" => w = "absent"
    /\ pc[p] \in {"read", "commit"} =>
          /\ event[p] = "acknowledge" => w \in {"applied", "lost"}
          /\ event[p] = "fail" => w \in {"absent", "lost"}
          /\ event[p] = "verify_match" =>
                w = "applied" \/ (w = "lost" /\ profile[at[p]].class = "observe")

\* What the record of effect s says of the world.
RecordTrue(s) ==
    /\ state[s] \in {"none", "planned", "authorized"} => world[s] = "absent"
    /\ state[s] = "acknowledged" => world[s] \in {"applied", "lost"}
    /\ state[s] = "verified" => world[s] \in {"applied", "lost"}
    /\ state[s] = "failed" => world[s] \in {"absent", "lost"}
    /\ state[s] = "verified" /\ profile[s].class # "observe" => world[s] = "applied"

LEMMA EvidenceParts ==
    /\ Evidence <=> /\ \A s \in Steps : RecordTrue(s)
                    /\ \A p \in Executors : HasEvidence(p)
    /\ Evidence' <=> /\ \A s \in Steps : RecordTrue(s)'
                     /\ \A p \in Executors : HasEvidence(p)'
  BY DEF Evidence, FailureIsCertain, VerifiedIsReal, RecordTrue, HasEvidence

\* A step of p that touches neither records nor the world keeps every other
\* process's evidence.
LEMMA EvidenceKept ==
    ASSUME Evidence, NEW p \in Executors, Others(p),
           UNCHANGED <<profile, state, world>>, HasEvidence(p)'
    PROVE  Evidence'
  <1>1. \A s \in Steps : RecordTrue(s)'
    BY EvidenceParts DEF RecordTrue
  <1>2. ASSUME NEW q \in Executors PROVE HasEvidence(q)'
    BY EvidenceParts DEF HasEvidence, Others
  <1> QED
    BY <1>1, <1>2, EvidenceParts

LEMMA EvidenceCommit ==
    ASSUME TypeOK, Ownership, Evidence, NEW p \in Executors, CommitTransition(p)
    PROVE  Evidence'
  <1>0. PICK s \in Steps : s = at[p]
    BY DEF TypeOK
  <1>1. /\ s \in Steps /\ event[p] \in Events /\ seen[p] \in States
        /\ pc[p] = "commit" /\ event[p] \in Accepts[seen[p]]
        /\ UNCHANGED <<profile, world, invoked>>
        /\ world[s] \in {"absent", "inflight", "applied", "lost"}
    BY <1>0 DEF TypeOK, CommitTransition, Ownership, Held, outside
  <1>2. CASE state[s] # seen[p]
    <2>1. Others(p) /\ pc'[p] = "idle" /\ UNCHANGED state
      BY <1>0, <1>2, ControlFrames DEF CommitTransition, journal
    <2> QED
      BY <1>0, <1>1, <2>1, EvidenceKept DEF HasEvidence
  <1>3. CASE state[s] = seen[p]
    <2>1. state' = [state EXCEPT ![s] = Leads[event[p]]] /\ AfterCommit(p)
      BY <1>0, <1>3 DEF CommitTransition
    <2>2. /\ Others(p)
          /\ \/ pc'[p] \in {"idle", "get", "verify"}
             \/ pc'[p] = "read" /\ event'[p] = "dispatch"
             \/ event[p] = "dispatch" /\ pc'[p] = "invoke" /\ at'[p] = s
             \/ /\ event[p] = "acknowledge" /\ profile[s].class = "observe"
                /\ pc'[p] = "read" /\ event'[p] = "verify_match" /\ at'[p] = s
      <3>1. CASE event[p] = "authorize"
        BY <1>0, <2>1, <3>1, ControlFrames DEF AfterCommit
      <3>2. CASE event[p] = "dispatch"
        BY <1>0, <2>1, <3>2, ControlFrames DEF AfterCommit
      <3>3. CASE event[p] = "acknowledge"
        BY <1>0, <2>1, <3>3, ControlFrames DEF AfterCommit
      <3>4. CASE event[p] = "verify_match"
        BY <1>0, <2>1, <3>4, ControlFrames DEF AfterCommit
      <3>5. CASE event[p] \in {"lose_certainty", "fail"}
        BY <1>0, <2>1, <3>5, ControlFrames DEF AfterCommit
      <3> QED
        BY <1>1, <3>1, <3>2, <3>3, <3>4, <3>5 DEF Events
    <2>3. RecordTrue(s) /\ HasEvidence(p)
      BY <1>0, <1>1, EvidenceParts
    <2>4. RecordTrue(s)'
      <3>1. state'[s] = Leads[event[p]]
        BY <1>1, <2>1 DEF TypeOK
      <3>2. CASE event[p] = "authorize"
        <4>1. state[s] = "planned"
          BY <1>1, <1>3, <3>2, LifecycleFacts
        <4> QED
          BY <1>1, <2>3, <3>1, <3>2, <4>1, LifecycleFacts DEF RecordTrue
      <3>3. CASE event[p] = "acknowledge"
        BY <1>0, <1>1, <2>3, <3>1, <3>3, LifecycleFacts DEF RecordTrue, HasEvidence
      <3>4. CASE event[p] = "verify_match"
        BY <1>0, <1>1, <2>3, <3>1, <3>4, LifecycleFacts DEF RecordTrue, HasEvidence
      <3>5. CASE event[p] = "fail"
        BY <1>0, <1>1, <2>3, <3>1, <3>5, LifecycleFacts DEF RecordTrue, HasEvidence
      <3>6. CASE event[p] \in {"dispatch", "lose_certainty"}
        BY <3>1, <3>6, LifecycleFacts DEF RecordTrue
      <3> QED
        BY <1>1, <3>2, <3>3, <3>4, <3>5, <3>6 DEF Events
    <2>5. ASSUME NEW r \in Steps, r # s PROVE RecordTrue(r)'
      <3>1. state'[r] = state[r] /\ RecordTrue(r)
        BY <1>1, <2>1, <2>5, EvidenceParts DEF TypeOK
      <3> QED
        BY <1>1, <3>1 DEF RecordTrue
    <2>6. HasEvidence(p)'
      <3>1. event[p] = "dispatch" => world[s] = "absent"
        BY <1>1, <1>3, <2>3, LifecycleFacts DEF RecordTrue
      <3>2. event[p] = "acknowledge" => world[s] \in {"applied", "lost"}
        BY <1>0, <1>1, <2>3 DEF HasEvidence
      <3> QED
        BY <1>0, <1>1, <2>2, <3>1, <3>2 DEF HasEvidence
    <2>7. ASSUME NEW q \in Executors \ {p} PROVE HasEvidence(q)'
      BY <1>0, <1>1, <2>2, EvidenceParts DEF HasEvidence, Others
    <2> QED
      BY <2>4, <2>5, <2>6, <2>7, EvidenceParts
  <1> QED
    BY <1>2, <1>3

LEMMA EvidenceInvoke ==
    ASSUME TypeOK, Ownership, Evidence, NEW p \in Executors, Invoke(p)
    PROVE  Evidence'
  <1> DEFINE s == at[p]
  <1>1. /\ s \in Steps /\ Owns(p, s) /\ state[s] = "dispatched" /\ world[s] = "absent"
    BY EvidenceParts DEF TypeOK, Invoke, Owns, Ownership, Held, HasEvidence
  <1>2. /\ Others(p) /\ UNCHANGED <<at, state, profile>>
        /\ \/ world' = [world EXCEPT ![s] = "inflight"] /\ pc'[p] = "outcome"
           \/ world' = world /\ pc'[p] = "outcome"
           \/ world' = world /\ pc'[p] = "read" /\ event'[p] = "fail"
    BY ControlFrames DEF Invoke, journal
  <1>3. CASE world' = world
    <2>1. HasEvidence(p)'
      BY <1>1, <1>2, <1>3 DEF HasEvidence
    <2> QED
      BY <1>2, <1>3, <2>1, EvidenceKept
  <1>4. CASE world' = [world EXCEPT ![s] = "inflight"] /\ pc'[p] = "outcome"
    <2>1. ASSUME NEW r \in Steps PROVE RecordTrue(r)'
      <3>1. RecordTrue(r)
        BY EvidenceParts
      <3> QED
        BY <1>1, <1>2, <1>4, <3>1 DEF RecordTrue, TypeOK
    <2>2. ASSUME NEW q \in Executors \ {p} PROVE HasEvidence(q)'
      <3>1. HasEvidence(q) /\ ~ Owns(q, s) /\ at[q] \in Steps
        BY <1>1, EvidenceParts DEF Ownership, SingleOwner, TypeOK
      <3>2. pc'[q] = pc[q] /\ at'[q] = at[q] /\ event'[q] = event[q]
        BY <1>2 DEF Others
      <3> QED
        BY <1>1, <1>2, <1>4, <3>1, <3>2 DEF HasEvidence, Owns, TypeOK
    <2>3. HasEvidence(p)'
      BY <1>4 DEF HasEvidence
    <2> QED
      BY <2>1, <2>2, <2>3, EvidenceParts
  <1> QED
    BY <1>2, <1>3, <1>4

LEMMA EvidenceStep == TypeOK /\ Ownership /\ Evidence /\ [Next]_vars => Evidence'
  <1> SUFFICES ASSUME TypeOK, Ownership, Evidence, [Next]_vars PROVE Evidence'
    OBVIOUS
  <1>1. ASSUME NEW p \in Executors, Others(p), UNCHANGED <<profile, state, world>>,
               \/ pc'[p] \in {"idle", "get", "create", "reget", "decide"}
               \/ pc'[p] = "read" /\ event'[p] \in {"authorize", "lose_certainty"}
        PROVE  Evidence'
    BY <1>1, EvidenceKept DEF HasEvidence
  <1>2. ASSUME NEW p \in Executors, Found(p)
        PROVE  Others(p) /\ pc'[p] \in {"idle", "get", "decide"}
    BY <1>2, ControlFrames DEF Found
  <1>3. ASSUME NEW p \in Executors, Begin(p) PROVE Evidence'
    BY <1>1, <1>3, ControlFrames DEF Begin, journal, outside
  <1>4. ASSUME NEW p \in Executors, Get(p) PROVE Evidence'
    BY <1>1, <1>2, <1>4, ControlFrames DEF Get, journal, outside
  <1>5. ASSUME NEW p \in Executors, Create(p) PROVE Evidence'
    <2>1. Others(p) /\ pc'[p] \in {"idle", "reget"} /\ UNCHANGED <<profile, world>>
      BY <1>5, ControlFrames DEF Create, outside
    <2>2. CASE state' = state
      BY <1>1, <2>1, <2>2
    <2>3. CASE state' # state
      <3>1. PICK s \in Steps : /\ state[s] = "none"
                               /\ state' = [state EXCEPT ![s] = "planned"]
        BY <1>5, <2>3 DEF Create, TypeOK
      <3>2. ASSUME NEW r \in Steps PROVE RecordTrue(r)'
        BY <2>1, <3>1, EvidenceParts DEF RecordTrue, TypeOK
      <3>3. ASSUME NEW q \in Executors PROVE HasEvidence(q)'
        BY <2>1, EvidenceParts DEF HasEvidence, Others
      <3> QED BY <3>2, <3>3, EvidenceParts
    <2> QED BY <2>2, <2>3
  <1>6. ASSUME NEW p \in Executors, Reget(p) PROVE Evidence'
    BY <1>1, <1>2, <1>6 DEF Reget, journal, outside
  <1>7. ASSUME NEW p \in Executors, Decide(p) PROVE Evidence'
    <2>1. Stop(p) \/ Record(p, "authorize")
      BY <1>7 DEF Decide
    <2> QED
      BY <1>1, <1>7, <2>1, ControlFrames DEF Decide, journal, outside
  <1>8. ASSUME NEW p \in Executors, ReadState(p) PROVE Evidence'
    <2>1. UNCHANGED <<profile, state, world>>
      BY <1>8 DEF ReadState, journal, outside
    <2>2. CASE Stop(p)
      BY <1>1, <2>1, <2>2, ControlFrames
    <2>3. CASE ~ Stop(p)
      <3>1. /\ Others(p) /\ UNCHANGED <<at, event>>
            /\ pc[p] = "read" /\ pc'[p] = "commit"
        BY <1>8, <2>3 DEF ReadState, Others, TypeOK
      <3>2. HasEvidence(p)'
        BY <2>1, <3>1, EvidenceParts DEF HasEvidence
      <3> QED
        BY <2>1, <3>1, <3>2, EvidenceKept
    <2> QED BY <2>2, <2>3
  <1>9. ASSUME NEW p \in Executors, CommitTransition(p) PROVE Evidence'
    BY <1>9, EvidenceCommit
  <1>10. ASSUME NEW p \in Executors, Invoke(p) PROVE Evidence'
    BY <1>10, EvidenceInvoke
  <1>11. ASSUME NEW p \in Executors, NEW ev \in {"acknowledge", "verify_match", "fail"},
                Record(p, ev), UNCHANGED <<profile, state, world>>,
                ev = "acknowledge" => world[at[p]] \in {"applied", "lost"},
                ev = "verify_match" => world[at[p]] = "applied",
                ev = "fail" => world[at[p]] = "lost"
         PROVE  Evidence'
    <2>1. Others(p) /\ pc'[p] = "read" /\ event'[p] = ev /\ UNCHANGED at
      BY <1>11, ControlFrames
    <2>2. HasEvidence(p)'
      BY <1>11, <2>1 DEF HasEvidence
    <2> QED
      BY <1>11, <2>1, <2>2, EvidenceKept
  <1>12. ASSUME NEW p \in Executors, Outcome(p) PROVE Evidence'
    <2>1. UNCHANGED <<profile, state, world>>
      BY <1>12 DEF Outcome, journal, outside
    <2>2. CASE Record(p, "lose_certainty")
      BY <1>1, <2>1, <2>2, ControlFrames
    <2>3. CASE world[at[p]] \in {"applied", "lost"} /\ Record(p, "acknowledge")
      BY <1>11, <2>1, <2>3
    <2> QED
      BY <1>12, <2>2, <2>3 DEF Outcome
  <1>13. ASSUME NEW p \in Executors, Verify(p) PROVE Evidence'
    <2>1. UNCHANGED <<profile, state, world>>
      BY <1>13 DEF Verify, journal, outside
    <2>2. world[at[p]] \in {"applied", "lost"}
      BY <1>13, EvidenceParts DEF Verify, Ownership, Held, RecordTrue, TypeOK
    <2>3. CASE Record(p, "lose_certainty")
      BY <1>1, <2>1, <2>3, ControlFrames
    <2>4. CASE world[at[p]] = "applied" /\ Record(p, "verify_match")
      BY <1>11, <2>1, <2>4
    <2>5. CASE world[at[p]] # "applied" /\ Record(p, "fail")
      BY <1>11, <2>1, <2>2, <2>5
    <2> QED
      BY <1>13, <2>3, <2>4, <2>5 DEF Verify
  <1>14. ASSUME NEW s \in Steps, Settle(s) PROVE Evidence'
    <2>1. /\ world[s] = "inflight" /\ world'[s] \in {"applied", "lost"}
          /\ \A r \in Steps : r # s => world'[r] = world[r]
          /\ UNCHANGED <<profile, state, pc, at, event>>
      BY <1>14 DEF Settle, journal, local, TypeOK
    <2>2. ASSUME NEW r \in Steps PROVE RecordTrue(r)'
      BY <2>1, EvidenceParts DEF RecordTrue
    <2>3. ASSUME NEW q \in Executors PROVE HasEvidence(q)'
      <3>1. at[q] \in Steps /\ HasEvidence(q)
        BY EvidenceParts DEF TypeOK
      <3> QED
        BY <2>1, <3>1 DEF HasEvidence
    <2> QED
      BY <2>2, <2>3, EvidenceParts
  <1>15. ASSUME NEW p \in Executors, Crash(p) PROVE Evidence'
    BY <1>1, <1>15, ControlFrames DEF Crash, journal, outside
  <1>16. ASSUME NEW p \in Executors, JournalError(p) PROVE Evidence'
    BY <1>1, <1>16, ControlFrames DEF JournalError, journal, outside
  <1>17. ASSUME NEW p \in Executors, AuthorizerError(p) PROVE Evidence'
    BY <1>1, <1>17, ControlFrames DEF AuthorizerError, journal, outside
  <1>18. CASE UNCHANGED vars
    BY <1>18, EvidenceParts DEF vars, journal, local, outside, RecordTrue, HasEvidence
  <1> QED
    BY <1>3, <1>4, <1>5, <1>6, <1>7, <1>8, <1>9, <1>10, <1>12, <1>13, <1>14,
       <1>15, <1>16, <1>17, <1>18 DEF Next

THEOREM EvidenceHolds == Spec => []Evidence
  <1>1. Init => Evidence
    BY DEF Init, Evidence, FailureIsCertain, VerifiedIsReal
  <1>2. TypeOK /\ Ownership /\ Evidence /\ [Next]_vars => Evidence'
    BY EvidenceStep
  <1> QED
    BY <1>1, <1>2, TypeCorrect, OwnershipHolds, PTL DEF Spec

\* What is recorded as failed never took hold of the world.
THEOREM FailureCertain == Spec => []FailureIsCertain
  BY EvidenceHolds, PTL DEF Evidence

\* What is recorded as verified is there.
THEOREM VerificationReal == Spec => []VerifiedIsReal
  BY EvidenceHolds, PTL DEF Evidence

-----------------------------------------------------------------------------
(* Order: a process reaches a step through verified steps only.            *)

\* Only Create and CommitTransition write the table of effects.
LEMMA RecordWriters ==
    ASSUME [Next]_vars, ~ UNCHANGED state
    PROVE  \E p \in Executors : Create(p) \/ CommitTransition(p)
  <1>1. ASSUME NEW p \in Executors, Begin(p) \/ Get(p) \/ Reget(p) \/ Decide(p) PROVE FALSE
    BY <1>1 DEF Begin, Get, Reget, Decide, journal
  <1>2. ASSUME NEW p \in Executors, ReadState(p) \/ Invoke(p) \/ Outcome(p) \/ Verify(p)
        PROVE FALSE
    BY <1>2 DEF ReadState, Invoke, Outcome, Verify, journal
  <1>3. ASSUME NEW p \in Executors, Crash(p) \/ JournalError(p) \/ AuthorizerError(p)
        PROVE FALSE
    BY <1>3 DEF Crash, JournalError, AuthorizerError, journal
  <1>4. ASSUME NEW s \in Steps, Settle(s) PROVE FALSE
    BY <1>4 DEF Settle, journal
  <1>5. ASSUME UNCHANGED vars PROVE FALSE
    BY <1>5 DEF vars, journal
  <1> QED
    BY <1>1, <1>2, <1>3, <1>4, <1>5 DEF Next

\* A verified effect stays verified, because no event is accepted for it.
LEMMA VerifiedStays ==
    ASSUME TypeOK, Ownership, [Next]_vars, NEW s \in Steps, state[s] = "verified"
    PROVE  state'[s] = "verified"
  <1>1. ASSUME NEW p \in Executors, CommitTransition(p) PROVE state'[s] = "verified"
    <2>1. pc[p] = "commit" /\ event[p] \in Accepts[seen[p]] /\ seen[p] \in States
          /\ event[p] \in Events
      BY <1>1 DEF CommitTransition, Ownership, Held, TypeOK
    <2>2. seen[p] # "verified"
      BY <2>1, LifecycleFacts
    <2> QED
      BY <1>1, <2>2 DEF CommitTransition, TypeOK, journal
  <1>2. ASSUME NEW p \in Executors, Create(p) PROVE state'[s] = "verified"
    BY <1>2 DEF Create, TypeOK
  <1> QED
    BY <1>1, <1>2, RecordWriters

\* What a process may rely on about the steps before its own.
Behind(p) == \A s \in Steps : s < at[p] => state[s] = "verified"

\* A process that stays with its step, or starts over, still has only verified
\* steps behind it; so do the others, whatever became of the records.
LEMMA BehindKept ==
    ASSUME TypeOK, InOrder, Ownership, [Next]_vars, NEW p \in Executors, Others(p),
           at'[p] \in {1, at[p]} \/ Behind(p)'
    PROVE  \A q \in Executors : Behind(q)'
  <1>1. \A s \in Steps : state[s] = "verified" => state'[s] = "verified"
    BY VerifiedStays
  <1>2. \A q \in Executors : Behind(q)
    BY DEF InOrder, Behind
  <1>3. ASSUME NEW q \in Executors PROVE Behind(q)'
    <2>1. CASE q = p
      <3>1. \A s \in Steps : ~ (s < 1)
        BY DEF Steps
      <3> QED
        BY <1>1, <1>2, <2>1, <3>1 DEF Behind
    <2>2. CASE q # p
      BY <1>1, <1>2, <2>2 DEF Behind, Others
    <2> QED BY <2>1, <2>2
  <1> QED BY <1>3

\* Where each control operator leaves the step of its process.
LEMMA ControlSteps ==
    ASSUME TypeOK, NEW p \in Executors
    PROVE  /\ \A place : GoTo(p, place) => Others(p) /\ at'[p] = at[p]
           /\ Stop(p) => Others(p) /\ at'[p] = 1
           /\ \A ev : Record(p, ev) => Others(p) /\ at'[p] = at[p]
           /\ StepDone(p) => Others(p) /\ (at'[p] = 1 \/ at'[p] = at[p] + 1)
  BY ControlFrames DEF GoTo, Stop, Record, StepDone, TypeOK

\* A process that is done with a verified step goes on to the next one.
LEMMA BehindStepDone ==
    ASSUME TypeOK, InOrder, Ownership, [Next]_vars, NEW p \in Executors,
           StepDone(p), state'[at[p]] = "verified"
    PROVE  \A q \in Executors : Behind(q)'
  <1>1. Others(p) /\ (at'[p] = 1 \/ at'[p] = at[p] + 1) /\ at[p] \in Steps
    BY ControlSteps DEF TypeOK
  <1>2. CASE at'[p] = at[p] + 1
    <2>1. ASSUME NEW s \in Steps, s < at'[p] PROVE state'[s] = "verified"
      <3>1. s = at[p] \/ s < at[p]
        BY <1>1, <1>2, <2>1 DEF Steps
      <3> QED
        BY <3>1, VerifiedStays DEF InOrder
    <2> QED
      BY <1>1, <2>1, BehindKept DEF Behind
  <1> QED
    BY <1>1, <1>2, BehindKept

LEMMA InOrderStep == TypeOK /\ Ownership /\ InOrder /\ [Next]_vars => InOrder'
  <1> SUFFICES ASSUME TypeOK, Ownership, InOrder, [Next]_vars PROVE InOrder'
    OBVIOUS
  <1> DEFINE AllBehind == \A q \in Executors : Behind(q)
  <1>1. ASSUME NEW p \in Executors,
               \/ \E place : GoTo(p, place)
               \/ Stop(p)
               \/ \E ev : Record(p, ev)
        PROVE  AllBehind'
    BY <1>1, ControlSteps, BehindKept
  <1>2. ASSUME NEW p \in Executors, Found(p), UNCHANGED state PROVE AllBehind'
    <2>1. CASE StepDone(p) /\ state[at[p]] = "verified"
      BY <1>2, <2>1, BehindStepDone
    <2> QED
      BY <1>1, <1>2, <2>1 DEF Found
  <1>3. ASSUME NEW p \in Executors, CommitTransition(p) PROVE AllBehind'
    <2>1. at[p] \in Steps /\ event[p] \in Events /\ seen[p] \in States
      BY DEF TypeOK
    <2>2. CASE StepDone(p) /\ event[p] = "verify_match" /\ state[at[p]] = seen[p]
      <3>1. state'[at[p]] = "verified"
        BY <1>3, <2>1, <2>2, LifecycleFacts DEF CommitTransition, TypeOK
      <3> QED
        BY <2>2, <3>1, BehindStepDone
    <2>3. CASE ~ (StepDone(p) /\ event[p] = "verify_match" /\ state[at[p]] = seen[p])
      <3>1. CASE state[at[p]] # seen[p]
        BY <1>1, <1>3, <3>1 DEF CommitTransition
      <3>2. CASE state[at[p]] = seen[p]
        <4>1. AfterCommit(p)
          BY <1>3, <3>2 DEF CommitTransition
        <4>2. CASE event[p] = "authorize"
          BY <1>1, <4>1, <4>2 DEF AfterCommit
        <4>3. CASE event[p] = "dispatch"
          BY <1>1, <4>1, <4>3 DEF AfterCommit
        <4>4. CASE event[p] = "acknowledge"
          BY <1>1, <4>1, <4>4 DEF AfterCommit
        <4>5. CASE event[p] = "verify_match"
          BY <2>3, <3>2, <4>1, <4>5 DEF AfterCommit
        <4>6. CASE event[p] \in {"lose_certainty", "fail"}
          BY <1>1, <4>1, <4>6 DEF AfterCommit
        <4> QED
          BY <2>1, <4>2, <4>3, <4>4, <4>5, <4>6 DEF Events
      <3> QED BY <3>1, <3>2
    <2> QED BY <2>2, <2>3
  <1>4. ASSUME NEW p \in Executors, Get(p) PROVE AllBehind'
    BY <1>1, <1>2, <1>4 DEF Get, journal
  <1>5. ASSUME NEW p \in Executors, Reget(p) PROVE AllBehind'
    BY <1>2, <1>5 DEF Reget, journal
  <1>6. ASSUME NEW p \in Executors, ReadState(p) PROVE AllBehind'
    <2>1. Stop(p) \/ (Others(p) /\ at'[p] = at[p])
      BY <1>6 DEF ReadState, Others, TypeOK
    <2> QED
      BY <1>1, <2>1, BehindKept
  <1>7. ASSUME NEW s \in Steps, Settle(s) PROVE AllBehind'
    BY <1>7 DEF Settle, journal, local, InOrder, Behind
  <1>8. ASSUME UNCHANGED vars PROVE AllBehind'
    BY <1>8 DEF vars, journal, local, InOrder, Behind
  <1>9. ASSUME NEW p \in Executors, Create(p) PROVE AllBehind'
    BY <1>1, <1>9 DEF Create
  <1>10. AllBehind'
    <2>1. ASSUME NEW p \in Executors, Begin(p) \/ Decide(p) \/ Invoke(p) \/ Outcome(p) \/ Verify(p)
          PROVE  AllBehind'
      BY <1>1, <2>1 DEF Begin, Decide, Invoke, Outcome, Verify
    <2>2. ASSUME NEW p \in Executors, Crash(p) \/ JournalError(p) \/ AuthorizerError(p)
          PROVE  AllBehind'
      BY <1>1, <2>2 DEF Crash, JournalError, AuthorizerError
    <2> QED
      BY <1>3, <1>4, <1>5, <1>6, <1>7, <1>8, <1>9, <2>1, <2>2 DEF Next
  <1>11. StepsInOrder'
    <2> SUFFICES ASSUME NEW s \in Steps, NEW t \in Steps, s < t, state'[t] # "none"
                 PROVE  state'[s] = "verified"
      BY DEF StepsInOrder
    <2>1. CASE state[t] # "none"
      BY <2>1, VerifiedStays DEF InOrder, StepsInOrder
    <2>2. CASE state[t] = "none"
      <3>1. PICK p \in Executors : Create(p) \/ CommitTransition(p)
        BY <2>2, RecordWriters
      <3>2. ~ (CommitTransition(p) /\ at[p] = t)
        BY <2>2 DEF CommitTransition, TypeOK, States, journal
      <3>3. at[p] = t
        BY <2>2, <3>1 DEF CommitTransition, Create, TypeOK, journal
      <3> QED
        BY <3>3, VerifiedStays DEF InOrder
    <2> QED BY <2>1, <2>2
  <1> QED
    BY <1>10, <1>11 DEF InOrder, Behind

THEOREM InOrderHolds == Spec => []InOrder
  <1>1. Init => InOrder
    BY DEF Init, InOrder, StepsInOrder, Steps
  <1>2. TypeOK /\ Ownership /\ InOrder /\ [Next]_vars => InOrder'
    BY InOrderStep
  <1> QED
    BY <1>1, <1>2, TypeCorrect, OwnershipHolds, PTL DEF Spec

\* A step leaves no trace before all earlier steps are verified.
THEOREM OrderedSteps == Spec => []StepsInOrder
  BY InOrderHolds, PTL DEF InOrder

-----------------------------------------------------------------------------
(* Admission: nobody gets an effect past Decide that its profile excludes. *)

\* The places of a process whose current step has been authorized.
PastDecide == {"read", "commit", "invoke", "outcome", "verify"}

\* Whatever the mode, an authorizer that answers says yes or no.
LEMMA DecisionsAreBoolean ==
    ASSUME NEW c \in Profiles
    PROVE  Decisions(c) \subseteq BOOLEAN
  <1>1. c.mode \in Modes
    BY DEF Profiles
  <1>2. PolicyAllows(c) \in BOOLEAN
    BY DEF PolicyAllows
  <1>3. CASE c.mode = "automatic"
    BY <1>3 DEF Decisions
  <1>4. CASE c.mode = "approval"
    BY <1>4 DEF Decisions
  <1>5. CASE c.mode = "policy" /\ c.authority = "opa"
    BY <1>2, <1>5 DEF Decisions
  <1>6. CASE c.mode = "policy" /\ c.authority # "opa"
    BY <1>6 DEF Decisions
  <1> QED
    BY <1>1, <1>3, <1>4, <1>5, <1>6 DEF Modes

\* A process past the authorization of its step was let through.
Cleared(p) == pc[p] \in PastDecide => TRUE \in Decisions(profile[at[p]])

\* Every step keeps the profiles, and moves at most one process; that process
\* passes Decide only with an admitting decision.
LEMMA ClearedStep ==
    ASSUME TypeOK, [Next]_vars, \A p \in Executors : Cleared(p)
    PROVE  profile' = profile /\ \A p \in Executors : Cleared(p)'
  <1> DEFINE AllCleared == \A q \in Executors : Cleared(q)
  <1>1. ASSUME NEW p \in Executors, Others(p), profile' = profile,
               \/ pc'[p] \notin PastDecide
               \/ pc[p] \in PastDecide /\ at'[p] = at[p]
        PROVE  AllCleared'
    <2> SUFFICES ASSUME NEW q \in Executors PROVE Cleared(q)'
      OBVIOUS
    <2>1. CASE q = p
      BY <1>1, <2>1 DEF Cleared
    <2>2. CASE q # p
      BY <1>1, <2>2 DEF Cleared, Others
    <2> QED BY <2>1, <2>2
  <1>2. ASSUME NEW p \in Executors, profile' = profile,
               \/ Stop(p)
               \/ StepDone(p)
               \/ \E place \in {"get", "create", "reget", "decide"} : GoTo(p, place)
               \/ pc[p] \in PastDecide /\ \E place : GoTo(p, place)
               \/ pc[p] \in PastDecide /\ \E ev : Record(p, ev)
        PROVE  AllCleared'
    <2>1. Others(p) /\ (pc'[p] \notin PastDecide \/ (pc[p] \in PastDecide /\ at'[p] = at[p]))
      BY <1>2, ControlFrames DEF PastDecide
    <2> QED
      BY <1>1, <1>2, <2>1
  <1>3. ASSUME NEW p \in Executors, Begin(p) \/ Create(p)
        PROVE  profile' = profile /\ AllCleared'
    BY <1>2, <1>3 DEF Begin, Create
  <1>4. ASSUME NEW p \in Executors, Get(p) \/ Reget(p)
        PROVE  profile' = profile /\ AllCleared'
    BY <1>2, <1>4 DEF Get, Reget, Found
  <1>5. ASSUME NEW p \in Executors, Decide(p) PROVE profile' = profile /\ AllCleared'
    <2>1. profile' = profile
      BY <1>5 DEF Decide
    <2>2. CASE Stop(p)
      BY <1>2, <2>1, <2>2
    <2>3. CASE TRUE \in Decisions(profile[at[p]]) /\ Record(p, "authorize")
      <3>1. Cleared(p)'
        BY <2>1, <2>3, ControlFrames DEF Cleared
      <3>2. \A q \in Executors \ {p} : Cleared(q)'
        BY <2>1, <2>3, ControlFrames DEF Cleared, Others
      <3> QED BY <2>1, <3>1, <3>2
    <2>4. ASSUME NEW allow \in Decisions(profile[at[p]]),
                 IF allow THEN Record(p, "authorize") ELSE Stop(p)
          PROVE  Stop(p) \/ (TRUE \in Decisions(profile[at[p]]) /\ Record(p, "authorize"))
      <3>1. profile[at[p]] \in Profiles
        BY CatalogAssumption DEF TypeOK
      <3>2. allow \in BOOLEAN
        BY <3>1, DecisionsAreBoolean
      <3> QED
        BY <2>4, <3>2
    <2> QED
      BY <1>5, <2>2, <2>3, <2>4 DEF Decide
  <1>6. ASSUME NEW p \in Executors, ReadState(p) PROVE profile' = profile /\ AllCleared'
    <2>1. profile' = profile /\ pc[p] \in PastDecide
      BY <1>6 DEF ReadState, PastDecide
    <2>2. Stop(p) \/ (Others(p) /\ at'[p] = at[p])
      BY <1>6 DEF ReadState, Others, TypeOK
    <2> QED
      BY <1>1, <1>2, <2>1, <2>2
  <1>7. ASSUME NEW p \in Executors, CommitTransition(p) PROVE profile' = profile /\ AllCleared'
    <2>1. /\ profile' = profile /\ pc[p] \in PastDecide /\ event[p] \in Events
          /\ Stop(p) \/ AfterCommit(p)
      BY <1>7 DEF CommitTransition, PastDecide, TypeOK
    <2>2. CASE AfterCommit(p)
      <3>1. CASE event[p] = "authorize"
        BY <1>2, <2>1, <2>2, <3>1 DEF AfterCommit
      <3>2. CASE event[p] = "dispatch"
        BY <1>2, <2>1, <2>2, <3>2 DEF AfterCommit
      <3>3. CASE event[p] = "acknowledge"
        BY <1>2, <2>1, <2>2, <3>3 DEF AfterCommit
      <3>4. CASE event[p] = "verify_match"
        BY <1>2, <2>1, <2>2, <3>4 DEF AfterCommit
      <3>5. CASE event[p] \in {"lose_certainty", "fail"}
        BY <1>2, <2>1, <2>2, <3>5 DEF AfterCommit
      <3> QED
        BY <2>1, <3>1, <3>2, <3>3, <3>4, <3>5 DEF Events
    <2> QED
      BY <1>2, <2>1, <2>2
  <1>8. ASSUME NEW p \in Executors, Invoke(p) \/ Outcome(p) \/ Verify(p)
        PROVE  profile' = profile /\ AllCleared'
    BY <1>2, <1>8 DEF Invoke, Outcome, Verify, PastDecide
  <1>9. ASSUME NEW p \in Executors, Crash(p) \/ JournalError(p) \/ AuthorizerError(p)
        PROVE  profile' = profile /\ AllCleared'
    BY <1>2, <1>9 DEF Crash, JournalError, AuthorizerError
  <1>10. ASSUME NEW s \in Steps, Settle(s) PROVE profile' = profile /\ AllCleared'
    BY <1>10 DEF Settle, local, Cleared
  <1>11. ASSUME UNCHANGED vars PROVE profile' = profile /\ AllCleared'
    BY <1>11 DEF vars, local, Cleared
  <1> QED
    BY <1>3, <1>4, <1>5, <1>6, <1>7, <1>8, <1>9, <1>10, <1>11 DEF Next

LEMMA AdmittedStep == TypeOK /\ Admitted /\ [Next]_vars => Admitted'
  <1> SUFFICES ASSUME TypeOK, Admitted, [Next]_vars PROVE Admitted'
    OBVIOUS
  <1>1. \A p \in Executors : Cleared(p)
    BY DEF Admitted, Cleared, PastDecide
  <1>2. profile' = profile /\ \A p \in Executors : Cleared(p)'
    BY <1>1, ClearedStep
  <1>3. ASSUME NEW s \in Steps, state'[s] \notin {"none", "planned"}
        PROVE  TRUE \in Decisions(profile[s])
    <2>1. CASE state'[s] = state[s]
      BY <1>3, <2>1 DEF Admitted
    <2>2. CASE state'[s] # state[s]
      <3>1. PICK p \in Executors : Create(p) \/ CommitTransition(p)
        BY <2>2, RecordWriters
      <3>2. CASE Create(p)
        BY <1>3, <2>2, <3>2 DEF Create, TypeOK
      <3>3. CASE CommitTransition(p)
        <4>1. at[p] = s /\ pc[p] \in PastDecide
          BY <2>2, <3>3 DEF CommitTransition, TypeOK, PastDecide, journal
        <4> QED
          BY <1>1, <4>1 DEF Cleared
      <3> QED BY <3>1, <3>2, <3>3
    <2> QED BY <2>1, <2>2
  <1> QED
    BY <1>2, <1>3 DEF Admitted, Cleared, PastDecide

THEOREM AdmittedHolds == Spec => []Admitted
  <1>1. Init => Admitted
    BY DEF Init, Admitted
  <1>2. TypeOK /\ Admitted /\ [Next]_vars => Admitted'
    BY AdmittedStep
  <1> QED
    BY <1>1, <1>2, TypeCorrect, PTL DEF Spec

\* Compiler and policy leave no way to dispatch an unrepeatable effect that
\* only the policy speaks for.
THEOREM PolicyNeverAlone == Spec => []NeverUnattended
  <1>1. TypeOK /\ Ownership /\ Admitted => NeverUnattended
    <2> SUFFICES ASSUME TypeOK, Ownership, Admitted, NEW s \in Steps,
                        profile[s].class \in Unrepeatable, profile[s].authority = "opa"
                 PROVE  invoked[s] = 0
      BY DEF NeverUnattended
    <2>1. profile[s].mode \in {"approval", "policy"}
      BY CatalogAssumption DEF Admitted, Admissible, TypeOK, Profiles, Modes
    <2>2. ~ PolicyAllows(profile[s])
      BY DEF PolicyAllows
    <2>3. TRUE \notin Decisions(profile[s])
      BY <2>1, <2>2 DEF Decisions
    <2>4. state[s] \in {"none", "planned"}
      BY <2>3 DEF Admitted
    <2> QED
      BY <2>4 DEF Ownership, RecordedBeforeSent, TypeOK
  <1> QED
    BY <1>1, TypeCorrect, OwnershipHolds, AdmittedHolds, PTL

-----------------------------------------------------------------------------
(* Refinement: the executor implements EffectCertainty.  The abstract       *)
(* verdict of an effect is its record, once that record is terminal or      *)
(* uncertain; only CommitTransition changes it, only Invoke sends.          *)

VerdictOf(st) == IF st \in {"verified", "uncertain", "failed"} THEN st ELSE "open"

LEMMA PromiseStutters ==
    ASSUME profile' = profile, world' = world,
           \A s \in Steps : VerdictOf(state'[s]) = VerdictOf(state[s])
    PROVE  UNCHANGED Certainty!promise
  BY DEF Certainty!promise, VerdictOf

\* Facts a process has gathered before it records a verdict.
LEMMA VerdictGrounded ==
    ASSUME TypeOK, Ownership, Evidence, NEW p \in Executors, NEW s \in Steps, s = at[p],
           pc[p] = "commit", state[s] = seen[p],
           Leads[event[p]] \in {"verified", "uncertain", "failed"}
    PROVE  /\ VerdictOf(state[s]) = "open"
           /\ Certainty!Grounds(s, Leads[event[p]])
  <1>1. event[p] \in Events /\ event[p] \in Accepts[seen[p]]
    BY DEF TypeOK, Ownership, Held
  <1>2. event[p] \in {"verify_match", "lose_certainty", "fail"}
    BY <1>1 DEF Leads, Events
  <1>3. state[s] \in {"dispatched", "acknowledged"}
    BY <1>2 DEF Ownership, Held
  <1>4. HasEvidence(p)
    BY EvidenceParts
  <1>5. s \in {r \in Steps : profile[r].class = "observe"} <=> profile[s].class = "observe"
    OBVIOUS
  <1>6. CASE event[p] = "verify_match"
    <2>1. Leads[event[p]] = "verified"
      BY <1>6, LifecycleFacts
    <2>2. world[s] = "applied" \/ (world[s] = "lost" /\ profile[s].class = "observe")
      BY <1>4, <1>6 DEF HasEvidence
    <2> QED
      BY <1>3, <1>5, <2>1, <2>2 DEF VerdictOf, Certainty!Grounds
  <1>7. CASE event[p] = "fail"
    <2>1. Leads[event[p]] = "failed"
      BY <1>7, LifecycleFacts
    <2>2. world[s] \in {"absent", "lost"}
      BY <1>4, <1>7 DEF HasEvidence
    <2> QED
      BY <1>3, <2>1, <2>2 DEF VerdictOf, Certainty!Grounds
  <1>8. CASE event[p] = "lose_certainty"
    <2>1. Leads[event[p]] = "uncertain"
      BY <1>8, LifecycleFacts
    <2> QED
      BY <1>3, <2>1 DEF VerdictOf, Certainty!Grounds
  <1> QED
    BY <1>2, <1>6, <1>7, <1>8

LEMMA CommitRefines ==
    ASSUME TypeOK, Ownership, Evidence, NEW p \in Executors, CommitTransition(p)
    PROVE  [Certainty!Next]_(Certainty!promise)
  <1>0. PICK s \in Steps : s = at[p]
    BY DEF TypeOK
  <1>1. pc[p] = "commit" /\ profile' = profile /\ world' = world /\ event[p] \in Events
    BY DEF CommitTransition, outside, TypeOK
  <1>2. CASE state[s] # seen[p]
    <2>1. state' = state
      BY <1>0, <1>2 DEF CommitTransition, journal
    <2> QED
      BY <1>1, <2>1, PromiseStutters
  <1>3. CASE state[s] = seen[p]
    <2> DEFINE to == Leads[event[p]]
    <2>1. state' = [state EXCEPT ![s] = to]
      BY <1>0, <1>3 DEF CommitTransition
    <2>2. \A r \in Steps : state'[r] = IF r = s THEN to ELSE state[r]
      BY <2>1 DEF TypeOK
    <2>3. CASE to \in {"verified", "uncertain", "failed"}
      <3>1. VerdictOf(state[s]) = "open" /\ Certainty!Grounds(s, to)
        BY <1>0, <1>1, <1>3, <2>3, VerdictGrounded
      <3>2. [r \in Steps |-> VerdictOf(state'[r])]
              = [[r \in Steps |-> VerdictOf(state[r])] EXCEPT ![s] = to]
        BY <2>2, <2>3 DEF VerdictOf
      <3>3. Certainty!Judge(s)
        BY <1>1, <2>3, <3>1, <3>2 DEF VerdictOf, Certainty!Judge, Certainty!Verdicts
      <3> QED
        BY <3>3 DEF Certainty!Next
    <2>4. CASE to \notin {"verified", "uncertain", "failed"}
      <3>1. event[p] \in {"authorize", "dispatch", "acknowledge"}
        BY <1>1, <2>4 DEF Events, Leads
      <3>2. event[p] \in Accepts[seen[p]] /\ seen[p] \in States
        BY <1>1 DEF Ownership, Held, TypeOK
      <3>3. state[s] \in {"planned", "authorized", "dispatched"}
        BY <1>3, <3>1, <3>2 DEF Accepts, States
      <3>4. \A r \in Steps : VerdictOf(state'[r]) = VerdictOf(state[r])
        BY <2>2, <2>4, <3>3 DEF VerdictOf
      <3> QED
        BY <1>1, <3>4, PromiseStutters
    <2> QED
      BY <2>3, <2>4
  <1> QED
    BY <1>2, <1>3

LEMMA InvokeRefines ==
    ASSUME TypeOK, Ownership, Evidence, NEW p \in Executors, Invoke(p)
    PROVE  [Certainty!Next]_(Certainty!promise)
  <1>0. PICK s \in Steps : s = at[p]
    BY DEF TypeOK
  <1>1. /\ state[s] = "dispatched" /\ world[s] = "absent"
        /\ profile' = profile /\ state' = state
    BY <1>0, EvidenceParts DEF Invoke, Ownership, Held, HasEvidence, journal
  <1>2. CASE world' = world
    BY <1>1, <1>2, PromiseStutters
  <1>3. CASE world' = [world EXCEPT ![s] = "inflight"]
    <2>1. Certainty!Send(s)
      BY <1>1, <1>3 DEF Certainty!Send
    <2> QED
      BY <2>1 DEF Certainty!Next
  <1> QED
    BY <1>0, <1>2, <1>3 DEF Invoke

LEMMA RefinementStep ==
    TypeOK /\ Ownership /\ Evidence /\ [Next]_vars => [Certainty!Next]_(Certainty!promise)
  <1> SUFFICES ASSUME TypeOK, Ownership, Evidence, [Next]_vars
               PROVE  [Certainty!Next]_(Certainty!promise)
    OBVIOUS
  <1>1. ASSUME profile' = profile, world' = world, state' = state
        PROVE  UNCHANGED Certainty!promise
    BY <1>1, PromiseStutters
  <1>2. ASSUME NEW p \in Executors,
               \/ Begin(p) \/ Get(p) \/ Reget(p) \/ Decide(p) \/ ReadState(p)
               \/ Outcome(p) \/ Verify(p)
               \/ Crash(p) \/ JournalError(p) \/ AuthorizerError(p)
        PROVE  UNCHANGED Certainty!promise
    BY <1>1, <1>2 DEF Begin, Get, Reget, Decide, ReadState, Outcome, Verify,
                      Crash, JournalError, AuthorizerError, journal, outside
  <1>3. ASSUME NEW p \in Executors, Create(p) PROVE UNCHANGED Certainty!promise
    <2>1. \A s \in Steps : VerdictOf(state'[s]) = VerdictOf(state[s])
      BY <1>3 DEF Create, VerdictOf, TypeOK
    <2> QED
      BY <1>3, <2>1, PromiseStutters DEF Create, outside
  <1>4. ASSUME NEW s \in Steps, Settle(s) PROVE Certainty!Settle(s)
    <2>1. profile' = profile /\ state' = state
      BY <1>4 DEF Settle, journal
    <2> QED
      BY <1>4, <2>1 DEF Settle, Certainty!Settle
  <1>5. CASE UNCHANGED vars
    BY <1>1, <1>5 DEF vars, journal, outside
  <1> QED
    BY <1>2, <1>3, <1>4, <1>5, CommitRefines, InvokeRefines DEF Next, Certainty!Next

\* The executor implements the promise of module EffectCertainty: an effect is
\* sent at most once and only while its verdict is open, and each verdict is
\* given once, on facts.
THEOREM ExecutorKeepsPromise == Spec => KeepsPromise
  <1>1. Init => Certainty!Init
    BY DEF Init, Certainty!Init
  <1>2. TypeOK /\ Ownership /\ Evidence /\ [Next]_vars
            => [Certainty!Next]_(Certainty!promise)
    BY RefinementStep
  <1> QED
    BY <1>1, <1>2, TypeCorrect, OwnershipHolds, EvidenceHolds, PTL
       DEF Spec, KeepsPromise, Certainty!Spec

-----------------------------------------------------------------------------
(* The event log is one legal path to the recorded state.                   *)

\* The rows l of one effect retell a legal path to its state st.
PathTo(l, st) ==
    /\ \A i \in 1 .. Len(l) :
          /\ l[i].event \in Accepts[l[i].from]
          /\ l[i].from = IF i = 1 THEN "planned" ELSE l[i - 1].to
    /\ st = IF l # << >> THEN l[Len(l)].to
            ELSE IF st = "none" THEN "none" ELSE "planned"

LEMMA PathParts ==
    /\ LogIsAPath <=> \A s \in Steps : PathTo(log[s], state[s])
    /\ LogIsAPath' <=> \A s \in Steps : PathTo(log'[s], state'[s])
  BY DEF LogIsAPath, PathTo

\* A legal path grows by a transition that starts where it ended.
LEMMA PathGrows ==
    ASSUME NEW l \in Seq(Entry), NEW st \in States, PathTo(l, st),
           NEW e \in Entry, e.from = st, e.event \in Accepts[st]
    PROVE  PathTo(Append(l, e), e.to)
  <1> DEFINE m == Append(l, e)
  <1>1. /\ m \in Seq(Entry) /\ Len(m) = Len(l) + 1 /\ m # << >>
        /\ m[Len(m)] = e
        /\ \A i \in 1 .. Len(l) : m[i] = l[i]
    OBVIOUS
  <1>2. st # "none"
    BY DEF States
  <1>3. ASSUME NEW i \in 1 .. Len(m)
        PROVE  /\ m[i].event \in Accepts[m[i].from]
               /\ m[i].from = IF i = 1 THEN "planned" ELSE m[i - 1].to
    <2>1. CASE i \in 1 .. Len(l)
      BY <1>1, <2>1 DEF PathTo
    <2>2. CASE i = Len(m)
      <3>1. CASE l = << >>
        BY <1>1, <1>2, <2>2, <3>1 DEF PathTo
      <3>2. CASE l # << >>
        <4>1. Len(l) \in 1 .. Len(l) /\ Len(l) = i - 1 /\ i # 1
          BY <1>1, <2>2, <3>2
        <4> QED
          BY <1>1, <2>2, <3>2, <4>1 DEF PathTo
      <3> QED BY <3>1, <3>2
    <2> QED BY <1>1, <2>1, <2>2
  <1> HIDE DEF m
  <1>4. PathTo(m, e.to)
    BY <1>1, <1>3 DEF PathTo
  <1> QED
    BY <1>4 DEF m

LEMMA PathStep == TypeOK /\ Ownership /\ LogIsAPath /\ [Next]_vars => LogIsAPath'
  <1> SUFFICES ASSUME TypeOK, Ownership, LogIsAPath, [Next]_vars, NEW s \in Steps
               PROVE  PathTo(log'[s], state'[s])
    BY PathParts
  <1>0. PathTo(log[s], state[s])
    BY PathParts
  <1>1. ASSUME NEW p \in Executors,
               \/ Begin(p) \/ Get(p) \/ Reget(p) \/ Decide(p) \/ ReadState(p)
               \/ Invoke(p) \/ Outcome(p) \/ Verify(p)
               \/ Crash(p) \/ JournalError(p) \/ AuthorizerError(p)
        PROVE  UNCHANGED journal
    BY <1>1 DEF Begin, Get, Reget, Decide, ReadState, Invoke, Outcome, Verify,
                Crash, JournalError, AuthorizerError
  <1>2. ASSUME NEW p \in Executors, Create(p) PROVE PathTo(log'[s], state'[s])
    <2>1. log' = log /\ (state'[s] = state[s] \/ (state[s] = "none" /\ state'[s] = "planned"))
      BY <1>2 DEF Create, TypeOK
    <2>2. CASE state[s] = "none" /\ state'[s] = "planned"
      <3>1. log[s] = << >>
        <4>1. SUFFICES ASSUME log[s] # << >> PROVE FALSE
          OBVIOUS
        <4>2. log[s] \in Seq(Entry) /\ log[s][Len(log[s])] \in Entry
          BY <4>1 DEF TypeOK
        <4>3. log[s][Len(log[s])].to \in States
          BY <4>2 DEF Entry
        <4> QED
          BY <1>0, <2>2, <4>1, <4>3 DEF PathTo, States
      <3> QED
        BY <2>1, <2>2, <3>1 DEF PathTo
    <2> QED
      BY <1>0, <2>1, <2>2
  <1>3. ASSUME NEW p \in Executors, CommitTransition(p) PROVE PathTo(log'[s], state'[s])
    <2>1. PICK e : e = [from |-> seen[p], event |-> event[p], to |-> Leads[event[p]]]
      OBVIOUS
    <2>2. /\ e \in Entry /\ e.from = seen[p] /\ e.to = Leads[event[p]]
          /\ e.event \in Accepts[seen[p]] /\ seen[p] \in States
      BY <1>3, <2>1, LifecycleFacts DEF CommitTransition, TypeOK, Entry, Ownership, Held
    <2>3. CASE log'[s] = log[s] /\ state'[s] = state[s]
      BY <1>0, <2>3
    <2>4. CASE s = at[p] /\ state[s] = seen[p]
      <3>1. log'[s] = Append(log[s], e) /\ state'[s] = e.to
        BY <1>3, <2>1, <2>4 DEF CommitTransition, TypeOK
      <3>2. log[s] \in Seq(Entry)
        BY DEF TypeOK
      <3> QED
        BY <1>0, <2>2, <2>4, <3>1, <3>2, PathGrows
    <2> QED
      BY <1>3, <2>3, <2>4 DEF CommitTransition, TypeOK, journal
  <1>4. ASSUME NEW r \in Steps, Settle(r) PROVE UNCHANGED journal
    BY <1>4 DEF Settle
  <1>5. CASE UNCHANGED vars
    BY <1>0, <1>5 DEF vars, journal
  <1> QED
    BY <1>0, <1>1, <1>2, <1>3, <1>4, <1>5 DEF Next, journal

\* Whatever raced, the rows of effect_events retell one legal path from planned
\* to the state of the effects row.
THEOREM JournalIsAPath == Spec => []LogIsAPath
  <1>1. Init => LogIsAPath
    BY DEF Init, LogIsAPath
  <1>2. TypeOK /\ Ownership /\ LogIsAPath /\ [Next]_vars => LogIsAPath'
    BY PathStep
  <1> QED
    BY <1>1, <1>2, TypeCorrect, OwnershipHolds, PTL DEF Spec

=============================================================================
