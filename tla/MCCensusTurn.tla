----------------------------- MODULE MCCensusTurn -----------------------------
(* Three members, of which two are looked for under one name.               *)
EXTENDS CensusTurn, TLC

CONSTANTS pf_a, a, pf_b, dir_a, dir_b, dir_x

MCMembers == <<a, pf_a, pf_b>>
MCNameOf == (a :> dir_a) @@ (pf_a :> dir_a) @@ (pf_b :> dir_b)
===============================================================================
