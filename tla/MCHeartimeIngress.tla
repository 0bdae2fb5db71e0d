-------------------------- MODULE MCHeartimeIngress --------------------------
(* Small instances of HeartimeIngress: activations a and b, both handed to  *)
(* relationship h, and reviews r and s of a, handed to relationship k.      *)
EXTENDS HeartimeIngress, TLC

CONSTANTS a, b, r, s, h, k

\* The defaults of OutcomeMap.normalize.
MCMeaning ==
    "true" :> "verified" @@ "false" :> "uncertain" @@ "missing" :> "uncertain"
        @@ "refused" :> "contained" @@ "error" :> "failed"

\* The route of the activations is configured, or not (any more).
MCConfigurations == {{}, Occurrences \ Reviews}

MCParentOf == [o \in Reviews |-> a]

MCHandoffOf == [o \in Occurrences |-> IF o \in Reviews THEN k ELSE h]
=============================================================================
