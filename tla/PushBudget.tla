----------------------------- MODULE PushBudget -----------------------------
(***************************************************************************)
(* What the arbitration of the transport promises, with every mechanism    *)
(* left out: a play can be overruled, for good, and an overruled play      *)
(* pushes its stream at most once more.                                    *)
(***************************************************************************)
EXTENDS Naturals

CONSTANT Play

VARIABLES
  overruled,    \* the plays that have lost the transport
  late          \* how often each has pushed since

vars == <<overruled, late>>

Init == overruled = {} /\ late = [x \in Play |-> 0]

Overrule ==
  /\ overruled' \in SUBSET Play /\ overruled \subseteq overruled'
  /\ UNCHANGED late

LatePush(x) ==
  /\ x \in overruled /\ late[x] = 0
  /\ late' = [late EXCEPT ![x] = 1]
  /\ UNCHANGED overruled

Next == Overrule \/ \E x \in Play : LatePush(x)

Spec == Init /\ [][Next]_vars
=============================================================================
