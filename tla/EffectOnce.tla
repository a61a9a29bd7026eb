----------------------------- MODULE EffectOnce -----------------------------
(***************************************************************************)
(* What the effect fence promises about the non-idempotent effect of a     *)
(* step: it runs once.  When nobody can tell whether it ran, the operator  *)
(* is told so, and only then may it run a second time, by his mistake and  *)
(* never a third time.  A caller is given a result only of an effect that  *)
(* ran.  There are no files, attempts, crashes or late requests here:      *)
(* EffectFence implements this with all of them.                           *)
(***************************************************************************)
EXTENDS Naturals

CONSTANTS
  Keys,     (* one per effect                                              *)
  Fenced,   (* the keys that the promise is about                          *)
  Honest    (* keys whose operator makes no mistake                        *)

VARIABLES
  ran,      (* how often each effect ran                                   *)
  unknown,  (* keys reported to the operator as ambiguous                  *)
  told      (* keys of which somebody holds a result                       *)

vars == <<ran, unknown, told>>

Init ==
  /\ ran = [k \in Keys |-> 0]
  /\ unknown = {}
  /\ told = {}

(* An operator who is mistaken about what was reported as ambiguous.       *)
MayRunAgain(k) == ran[k] = 1 /\ k \in unknown /\ k \notin Honest

Run(k) ==
  /\ k \in Fenced => ran[k] = 0 \/ MayRunAgain(k)
  /\ ran' = [ran EXCEPT ![k] = @ + 1]
  /\ UNCHANGED <<unknown, told>>

Report(k) ==
  /\ k \in Fenced
  /\ unknown' = unknown \cup {k}
  /\ UNCHANGED <<ran, told>>

Answer(k) ==
  /\ ran[k] >= 1
  /\ told' = told \cup {k}
  /\ UNCHANGED <<ran, unknown>>

(* The one who held a result is gone, or works on something else.          *)
Forget ==
  /\ told' \in SUBSET told
  /\ UNCHANGED <<ran, unknown>>

Next == (\E k \in Keys : Run(k) \/ Report(k) \/ Answer(k)) \/ Forget

Spec == Init /\ [][Next]_vars
=============================================================================
