----------------------------- MODULE MCWorkTurn -----------------------------
(* Small instances of WorkTurn: keys 1 and 2, rationales 1 and 2; files that *)
(* name key 2 alone, so that a row for key 1 may be retired, or both; a      *)
(* route that proposes the row for either key, both with the one for key 1   *)
(* rewritten, or garbage.                                                    *)
EXTENDS WorkTurn

Row(k, t) == [key |-> k, text |-> t]

MCSources == {{2}, {1, 2}}

MCOutputs == {{Row(1, 1)}, {Row(1, 2), Row(2, 1)}, {Row(2, 1)}, None}
=============================================================================
