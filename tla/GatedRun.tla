------------------------------ MODULE GatedRun ------------------------------
(***************************************************************************)
(* What the human gate promises about a run and its resumes: a step that   *)
(* owes an audit entry is run only on the credit of recorded decisions,    *)
(* with a payload that is its own or was edited for it, and after all      *)
(* steps in front of it; a drive whose step was rejected runs nothing      *)
(* more; and what a drive has ended with is final.  There is no gate, no   *)
(* webhook and no timer here: HitlGate implements this with all of them.   *)
(***************************************************************************)
EXTENDS Naturals

CONSTANT Drives

VARIABLES
  owed,      (* the steps that owe an audit entry                          *)
  credit,    (* how often one decision lets each step run                  *)
  decided,   (* decisions recorded in favour of each step                  *)
  performed, (* how often each step has been run                           *)
  running,   (* the step each drive is running, or 0                       *)
  edited,    (* the step whose edit that run uses, or 0                    *)
  rejected,  (* drives with a step that was rejected                       *)
  outcome    (* what each drive has ended with, or "open"                  *)

vars == <<owed, credit, decided, performed, running, edited, rejected, outcome>>
rules == <<owed, credit>>
Steps == DOMAIN performed

Init ==
  /\ owed \subseteq Steps /\ credit \in [Steps -> Nat \ {0}]
  /\ decided = [s \in Steps |-> 0] /\ performed = [s \in Steps |-> 0]
  /\ running = [d \in Drives |-> 0] /\ edited = [d \in Drives |-> 0]
  /\ rejected = {} /\ outcome = [d \in Drives |-> "open"]

(* A step runs under a decision that is recorded with it, or on what the   *)
(* recorded ones have left.                                                *)
Run(d, s) ==
  /\ d \notin rejected /\ running[d] = 0
  /\ \A t \in 1 .. s - 1 : performed[t] > 0
  /\ \/ decided' = [decided EXCEPT ![s] = @ + 1]
     \/ UNCHANGED decided /\ (s \in owed => performed[s] < decided[s] * credit[s])
  /\ performed' = [performed EXCEPT ![s] = @ + 1]
  /\ running' = [running EXCEPT ![d] = s]
  /\ \E e \in {0, s} : edited' = [edited EXCEPT ![d] = e]
  /\ UNCHANGED <<rules, rejected, outcome>>

(* A drive is no longer running its step, and may have come to its end.    *)
Settle(d) ==
  /\ running' = [running EXCEPT ![d] = 0] /\ edited' = [edited EXCEPT ![d] = 0]
  /\ \/ UNCHANGED outcome
     \/ /\ outcome[d] = "open"
        /\ \/ \E how \in {"failed", "paused"} : outcome' = [outcome EXCEPT ![d] = how]
           \/ /\ \A s \in Steps : performed[s] > 0
              /\ outcome' = [outcome EXCEPT ![d] = "done"]
  /\ UNCHANGED <<rules, decided, performed, rejected>>

(* It has failed, although its step may still be running.                  *)
Abandon(d) ==
  /\ outcome[d] = "open" /\ outcome' = [outcome EXCEPT ![d] = "failed"]
  /\ UNCHANGED <<rules, decided, performed, running, edited, rejected>>

Reject(d) ==
  /\ running[d] = 0 /\ outcome[d] \in {"open", "failed"}
  /\ rejected' = rejected \cup {d} /\ outcome' = [outcome EXCEPT ![d] = "failed"]
  /\ UNCHANGED <<rules, decided, performed, running, edited>>

Next ==
  \E d \in Drives :
    \/ \E s \in Steps : Run(d, s)
    \/ Settle(d) \/ Abandon(d) \/ Reject(d)

Spec == Init /\ [][Next]_vars
=============================================================================
