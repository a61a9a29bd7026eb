------------------------------ MODULE MCFanOut ------------------------------
(***************************************************************************)
(* FanOut on small instances.  Every bound is a constant of the            *)
(* configuration; the initial states are cut down to those that differ in  *)
(* more than the order of the branches.                                    *)
(***************************************************************************)
EXTENDS FanOut

(* The mirror image of an assignment of kinds differs only in the order in *)
(* which the loop marks and drains.  A branch that is safe to run twice    *)
(* differs from an opaque one only under re-dispatch, and without one      *)
(* re-dispatch is fail-closed.  Two safe branches have nothing to lose,    *)
(* and by far the most behaviours: one is enough next to another kind.     *)
Order == [safe |-> 1, opaque |-> 2, fenced |-> 3]

MCInit ==
  /\ Init
  /\ \A b, c \in Branches : b < c => Order[kind[b]] <= Order[kind[c]]
  /\ (\E b \in Branches : kind[b] = "safe") <=> onTimeout = "re-dispatch"
  /\ \A b, c \in Branches : kind[b] = "safe" /\ kind[c] = "safe" => b = c

MCFairSpec == MCInit /\ [][Next]_vars /\ Fairness
=============================================================================
