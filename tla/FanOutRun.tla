----------------------------- MODULE FanOutRun -----------------------------
(***************************************************************************)
(* What a run of parallel branches promises to whoever started it, however *)
(* often it is driven, from a crash or from a pause: the effect of a       *)
(* guarded branch runs once; what became of a branch is kept, before the   *)
(* ledger says that it ended and while no result is out; a failure that    *)
(* ends the run is final; a success has every branch behind it, and a      *)
(* pause can be resumed.  FanOut implements it.                            *)
(***************************************************************************)
EXTENDS Naturals

CONSTANT Branches

VARIABLES
  once,       (* branches whose effect must not run twice                  *)
  ran,        (* how often each effect ran                                 *)
  sound,      (* there is a store, and no write of it has failed           *)
  kept,       (* branches whose end the store knows                        *)
  entries,    (* the terminal entries of the ledger                        *)
  failure,    (* a failure is recorded that ends the run                   *)
  resumable,  (* there is a snapshot                                       *)
  outcome     (* the result somebody holds, or "none"                      *)

vars == <<once, ran, sound, kept, entries, failure, resumable, outcome>>

Init ==
  /\ once \subseteq Branches /\ sound \in BOOLEAN
  /\ ran = [b \in Branches |-> 0] /\ entries = [b \in Branches |-> "none"]
  /\ kept = {} /\ failure = FALSE /\ resumable = FALSE /\ outcome = "none"

(* A drive begins: the result of the last one is dropped.                  *)
Begin ==
  /\ outcome' = "none"
  /\ UNCHANGED <<once, ran, sound, kept, entries, failure, resumable>>

(* An effect, perhaps of a call that nobody waits for any more.            *)
Run(b) ==
  /\ b \in once => ran[b] = 0
  /\ ran' = [ran EXCEPT ![b] = @ + 1]
  /\ UNCHANGED <<once, sound, kept, entries, failure, resumable, outcome>>

(* The end of a branch is recorded; nothing takes it back.                 *)
Keep(b) ==
  /\ outcome = "none"
  /\ kept' = kept \cup {b} /\ failure' \in {failure, TRUE}
  /\ UNCHANGED <<once, ran, sound, entries, resumable, outcome>>

(* The one terminal entry of a branch: the store knew its end before.      *)
Enter(b, status) ==
  /\ outcome = "none" /\ entries[b] = "none"
  /\ sound /\ status # "cancelled" => b \in kept
  /\ entries' = [entries EXCEPT ![b] = status]
  /\ UNCHANGED <<once, ran, sound, kept, failure, resumable, outcome>>

Offer ==
  /\ outcome = "none" /\ resumable' = TRUE
  /\ UNCHANGED <<once, ran, sound, kept, entries, failure, outcome>>

(* A write of the store fails: the markers guard less from now on.         *)
Lose ==
  /\ outcome = "none" /\ outcome' \in {"none", "RAISED"}
  /\ sound' = FALSE /\ once' \subseteq once
  /\ UNCHANGED <<ran, kept, entries, failure, resumable>>

Report(status) ==
  /\ status = "SUCCESS" => /\ \A b \in Branches : ran[b] > 0
                           /\ sound => kept = Branches
  /\ status = "PAUSED" => resumable
  /\ failure => status \notin {"SUCCESS", "PARTIAL", "PAUSED"}
  /\ outcome' = status
  /\ UNCHANGED <<once, ran, sound, kept, entries, failure, resumable>>

Next ==
  \/ Begin \/ Offer \/ Lose
  \/ \E b \in Branches : Run(b) \/ Keep(b)
  \/ \E b \in Branches, status \in {"completed", "timed_out", "cancelled"} :
       Enter(b, status)
  \/ \E status \in {"SUCCESS", "PARTIAL", "FAILED", "PAUSED", "RAISED"} : Report(status)

Spec == Init /\ [][Next]_vars
=============================================================================
