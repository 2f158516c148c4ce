----------------------------- MODULE DurableCell -----------------------------
(***************************************************************************)
(* What a durable file promises its callers: it holds one value at a time, *)
(* a write replaces it in one step, and a loss of power brings back one of *)
(* the values not yet superseded by a completed write.                     *)
(***************************************************************************)
CONSTANTS
  Value,
  First   \* the value before the first write

VARIABLES
  cell,   \* what a reader sees
  may     \* what a loss of power may bring back

vars == <<cell, may>>

Init == cell = First /\ may = {First}

\* A new value, which a loss of power may still undo.
Replace == \E v \in Value : cell' = v /\ may' = may \cup {v}

\* The value is safe.
Settle == may' = {cell} /\ UNCHANGED cell

PowerLoss == cell' \in may /\ may' = {cell'}

Next == Replace \/ Settle \/ PowerLoss

Spec == Init /\ [][Next]_vars
=============================================================================
