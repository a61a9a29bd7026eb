---------------------------- MODULE WorkflowRun ----------------------------
(***************************************************************************)
(* What a linear workflow run promises to whoever started it, however      *)
(* often and by whom it is driven: its steps are performed and committed   *)
(* in their order, no step is performed before all steps in front of it    *)
(* are committed, and a success is only reported of a run all of whose     *)
(* steps are committed.  LinearDriver implements it.                       *)
(***************************************************************************)
EXTENDS Naturals

CONSTANT NSteps  (* len(steps), positive                                   *)

VARIABLES
  committed,  (* how many steps are in the ledger                          *)
  performed,  (* the steps that have been executed, committed or not       *)
  success     (* somebody holds the result SUCCESS                         *)

vars == <<committed, performed, success>>

Init == committed = 0 /\ performed = {} /\ success = FALSE

(* A step is performed, perhaps again, when all before it are committed.   *)
Perform ==
  /\ \E i \in 0 .. NSteps - 1 :
       i <= committed /\ performed' = performed \cup {i}
  /\ UNCHANGED <<committed, success>>

Commit ==
  /\ committed < NSteps /\ committed \in performed
  /\ committed' = committed + 1
  /\ UNCHANGED <<performed, success>>

Succeed ==
  /\ committed = NSteps /\ success' = TRUE
  /\ UNCHANGED <<committed, performed>>

(* The result is dropped: a crash, or the next drive of the thread.        *)
Forget ==
  /\ success' = FALSE
  /\ UNCHANGED <<committed, performed>>

Next == Perform \/ Commit \/ Succeed \/ Forget

Spec == Init /\ [][Next]_vars
=============================================================================
