-------------------------- MODULE EffectCertainty --------------------------
(***************************************************************************)
(* What Continuity promises about each effect of a plan, whatever executes *)
(* it: the effect crosses into the outside world at most once, and the     *)
(* verdict that is recorded about it is never a guess.  Nothing is said    *)
(* here of processes, journals, authorizers or crashes; EffectExecutor     *)
(* implements this module.                                                 *)
(***************************************************************************)
CONSTANT Steps              \* the effects of one compiled plan

VARIABLES
    world,                  \* what became of each effect outside
    verdict,                \* what is on record about it
    observed                \* effects whose class only observes the world

promise == <<world, verdict, observed>>

\* "absent": never sent.  "inflight": sent, and it may still take effect.
\* "applied" and "lost": sent, and settled one way or the other.
WorldStates == {"absent", "inflight", "applied", "lost"}

Verdicts == {"open", "verified", "uncertain", "failed"}

Init ==
    /\ world = [s \in Steps |-> "absent"]
    /\ verdict = [s \in Steps |-> "open"]
    /\ observed \in SUBSET Steps

\* An effect is sent only while its verdict is open, and never a second time.
Send(s) ==
    /\ verdict[s] = "open"
    /\ world[s] = "absent"
    /\ world' = [world EXCEPT ![s] = "inflight"]
    /\ UNCHANGED <<verdict, observed>>

\* The world settles a sent effect on its own, whoever is watching.
Settle(s) ==
    /\ world[s] = "inflight"
    /\ \E w \in {"applied", "lost"} : world' = [world EXCEPT ![s] = w]
    /\ UNCHANGED <<verdict, observed>>

\* The facts each verdict must rest on.  Uncertainty claims nothing.
Grounds(s, v) ==
    /\ v = "verified" => world[s] = "applied" \/ (s \in observed /\ world[s] # "absent")
    /\ v = "failed" => world[s] \in {"absent", "lost"}

Judge(s) ==
    /\ verdict[s] = "open"
    /\ \E v \in Verdicts \ {"open"} :
          /\ Grounds(s, v)
          /\ verdict' = [verdict EXCEPT ![s] = v]
    /\ UNCHANGED <<world, observed>>

Next == \E s \in Steps : Send(s) \/ Settle(s) \/ Judge(s)

Spec == Init /\ [][Next]_promise
=============================================================================
