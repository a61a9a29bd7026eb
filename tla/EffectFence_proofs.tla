------------------------- MODULE EffectFence_proofs -------------------------
(***************************************************************************)
(* Proofs about the effect fence, for every number of dispatchers, keys,   *)
(* attempts and dispatches:                                                *)
(*                                                                         *)
(*   TypeCorrect     TypeOK is invariant                                   *)
(*   ResultsAreReal  a returned output stands for an executed effect       *)
(*   AtMostOnceThm   where the operator is honest a fenced effect runs at  *)
(*                   most once, and its claim stays on disk once it ran    *)
(*   AtMostTwiceThm  wherever it is, a fenced effect runs at most twice    *)
(*   OnceThm         the fence keeps the promise of EffectOnce: who runs   *)
(*                   an effect again was told that it was ambiguous        *)
(***************************************************************************)
EXTENDS EffectFence, TLAPS

USE DEF files, local, world, operator

LEMMA TypeInit == Init => TypeOK
BY FenceAssumption DEF Init, TypeOK, Resolutions, PCs, Outcomes

LEMMA TypeStep == TypeOK /\ [Next]_vars => TypeOK'
<1> SUFFICES ASSUME TypeOK, [Next]_vars
             PROVE  TypeOK'
  OBVIOUS
<1> USE FenceAssumption DEF TypeOK, Resolutions, PCs, Outcomes, Goto, Keep,
                            Finish, TransientError, SyncDirectory, Resolution
<1>1. ASSUME NEW p \in Procs, Crash(p)
      PROVE  TypeOK'
  BY <1>1 DEF Crash
<1>2. ASSUME NEW p \in Procs, NEW k \in Keys, NEW d \in Keys \cup {NoKey},
             Dispatch(p, k, d)
      PROVE  TypeOK'
  BY <1>2 DEF Dispatch
<1>3. ASSUME NEW k \in Keys, NEW r \in Resolutions, Resolve(k, r)
      PROVE  TypeOK'
  BY <1>3 DEF Resolve
<1>4. ASSUME NEW k \in Keys, LateExecute(k) \/ LateDrop(k)
      PROVE  TypeOK'
  BY <1>4 DEF LateExecute, LateDrop
<1>5. CASE PowerLoss
  BY <1>5 DEF PowerLoss
<1>6. ASSUME NEW p \in Procs, Step(p)
      PROVE  TypeOK'
  <2>1. CASE PassGate(p) \/ ConsumeRefire(p) \/ SyncRefire(p)
    BY <2>1 DEF PassGate, ConsumeRefire, SyncRefire
  <2>2. CASE ClearClaim(p) \/ ClearOutput(p)
    BY <2>2 DEF ClearClaim, ClearOutput
  <2>3. CASE TryReserve(p) \/ SyncReserve(p)
    BY <2>3 DEF TryReserve, SyncReserve
  <2>4. CASE LostReserve(p)
    BY <2>4 DEF LostReserve
  <2>5. CASE SendCall(p) \/ HostUnreachable(p)
    BY <2>5 DEF SendCall, HostUnreachable
  <2>6. CASE Execute(p)
    BY <2>6 DEF Execute
  <2>7. CASE CallTimesOut(p)
    BY <2>7 DEF CallTimesOut
  <2>8. CASE CallRejected(p) \/ CallReturns(p)
    BY <2>8 DEF CallRejected, CallReturns
  <2>9. CASE CaptureOutput(p) \/ SyncCapture(p)
    BY <2>9 DEF CaptureOutput, SyncCapture
  <2> QED
    BY <1>6, <2>1, <2>2, <2>3, <2>4, <2>5, <2>6, <2>7, <2>8, <2>9 DEF Step
<1>7. CASE UNCHANGED vars
  BY <1>7 DEF vars
<1> QED
  BY <1>1, <1>2, <1>3, <1>4, <1>5, <1>6, <1>7 DEF Next

(* Every behaviour of the fence is well typed; in particular no dispatch   *)
(* goes around the retry loop more often than RetryPolicy.max_attempts.    *)
THEOREM TypeCorrect == Spec => []TypeOK
BY TypeInit, TypeStep, PTL DEF Spec

-----------------------------------------------------------------------------
(* What a returned output stands for.                                      *)

Ran(k) == effects[k] >= 1

ResultInv ==
  /\ \A p \in Procs : pc[p] \in {"executed", "capture", "captureSync"}
                        => Ran(key[p])
  /\ \A p \in Procs : outcome[p] \in {"ok", "suppressed"}
                        => key[p] \in Keys /\ Ran(key[p])
  /\ \A k \in outputs \cup onDisk.outputs : Ran(k)

LEMMA ResultInit == Init => ResultInv
BY DEF Init, ResultInv

LEMMA ResultStep == TypeOK /\ ResultInv /\ [Next]_vars => ResultInv'
<1> SUFFICES ASSUME TypeOK, ResultInv, [Next]_vars
             PROVE  ResultInv'
  OBVIOUS
<1> USE DEF TypeOK, ResultInv, Ran, Goto, Keep, Finish, TransientError,
            SyncDirectory
<1>1. ASSUME NEW p \in Procs, Crash(p)
      PROVE  ResultInv'
  BY <1>1 DEF Crash
<1>2. ASSUME NEW p \in Procs, NEW k \in Keys, NEW d \in Keys \cup {NoKey},
             Dispatch(p, k, d)
      PROVE  ResultInv'
  BY <1>2 DEF Dispatch
<1>3. ASSUME NEW k \in Keys, NEW r \in Resolutions, Resolve(k, r)
      PROVE  ResultInv'
  BY <1>3 DEF Resolve
<1>4. ASSUME NEW k \in Keys, LateExecute(k) \/ LateDrop(k)
      PROVE  ResultInv'
  BY <1>4 DEF LateExecute, LateDrop
<1>5. CASE PowerLoss
  BY <1>5 DEF PowerLoss, Survives
<1>6. ASSUME NEW p \in Procs, Step(p)
      PROVE  ResultInv'
  <2>1. CASE PassGate(p) \/ ConsumeRefire(p) \/ SyncRefire(p)
    BY <2>1 DEF PassGate, ConsumeRefire, SyncRefire
  <2>2. CASE ClearClaim(p) \/ ClearOutput(p)
    BY <2>2 DEF ClearClaim, ClearOutput
  <2>3. CASE TryReserve(p) \/ SyncReserve(p)
    BY <2>3 DEF TryReserve, SyncReserve
  <2>4. CASE LostReserve(p)
    BY <2>4 DEF LostReserve
  <2>5. CASE SendCall(p) \/ HostUnreachable(p)
    BY <2>5 DEF SendCall, HostUnreachable
  <2>6. CASE Execute(p)
    BY <2>6 DEF Execute
  <2>7. CASE CallTimesOut(p)
    BY <2>7 DEF CallTimesOut
  <2>8. CASE CallRejected(p) \/ CallReturns(p)
    BY <2>8 DEF CallRejected, CallReturns
  <2>9. CASE CaptureOutput(p) \/ SyncCapture(p)
    BY <2>9 DEF CaptureOutput, SyncCapture
  <2> QED
    BY <1>6, <2>1, <2>2, <2>3, <2>4, <2>5, <2>6, <2>7, <2>8, <2>9 DEF Step
<1>7. CASE UNCHANGED vars
  BY <1>7 DEF vars
<1> QED
  BY <1>1, <1>2, <1>3, <1>4, <1>5, <1>6, <1>7 DEF Next

(* Suppress-and-continue, and a fresh success, are proof of completion,    *)
(* whatever the operator answers and whatever the disk loses.              *)
THEOREM ResultsAreReal == Spec => []ResultMeansExecuted
<1>1. ResultInv => ResultMeansExecuted
  BY DEF ResultInv, ResultMeansExecuted, Ran
<1> QED
  BY <1>1, TypeInit, TypeStep, ResultInit, ResultStep, PTL DEF Spec

-----------------------------------------------------------------------------
(* At most once.                                                           *)

Trusted == Fenced \cap Honest

Fired(k) == effects[k] + orphans[k]

Quiet(k) == Fired(k) = 0 /\ \A p \in Procs : ~Permit(p, k)

(* One permit at a time, only for an effect that has not fired, and        *)
(* covered by the claim, which is durable before the call.                 *)
PermitInv ==
  \A k \in Trusted :
    /\ Fired(k) <= 1
    /\ Fired(k) > 0 => k \in claims /\ k \in onDisk.claims
    /\ \A p \in Procs : Permit(p, k) =>
         /\ Fired(k) = 0
         /\ k \in claims
         /\ pc[p] # "reserveSync" => k \in onDisk.claims
         /\ \A q \in Procs : Permit(q, k) => q = p

(* A RE_FIRE that has not been consumed yet, in the operator's answer or   *)
(* in a dispatch under way, is for a quiet key whose claim is held.        *)
ArmedInv ==
  \A k \in Trusted :
    k \notin refires
    /\ (\/ decision[k] = "re_fire"
        \/ \E p \in Procs : pc[p] # "idle" /\ dirKey[p] = k
                             /\ dirRes[p] = "re_fire")
    => Quiet(k) /\ k \in claims

(* The dispatcher that consumed it is alone until it clears the claim.     *)
ClearInv ==
  \A p \in Procs :
    pc[p] \in {"refireSync", "clearClaim"} /\ key[p] \in Trusted =>
    /\ key[p] \in refires /\ key[p] \in claims
    /\ Quiet(key[p])
    /\ \A q \in Procs : pc[q] \in {"refireSync", "clearClaim"}
                          /\ key[q] = key[p] => q = p

FenceInv == PermitInv /\ ArmedInv /\ ClearInv

LEMMA FenceInit == Init => FenceInv
BY FenceAssumption DEF Init, FenceInv, PermitInv, ArmedInv, ClearInv, Permit,
                       Trusted, Quiet, Fired

(* The steps are proved action by action; those that touch no claim, no    *)
(* latch and no permit leave every part as it is.                          *)
LEMMA FenceStep ==
  TypeOK /\ FenceInv /\ [Next]_vars => FenceInv'
<1> SUFFICES ASSUME TypeOK, FenceInv, [Next]_vars
             PROVE  FenceInv'
  OBVIOUS
<1> USE FenceAssumption
    DEF TypeOK, Trusted, Quiet, Fired, Permit, Goto, Keep, FenceInv, PermitInv,
        ArmedInv, ClearInv
<1>1. ASSUME NEW p \in Procs, Crash(p)
      PROVE  FenceInv'
  BY <1>1 DEF Crash
<1>2. ASSUME NEW p \in Procs, NEW k \in Keys, NEW d \in Keys \cup {NoKey},
             Dispatch(p, k, d)
      PROVE  FenceInv'
  BY <1>2 DEF Dispatch
<1>3. ASSUME NEW k \in Keys, NEW r \in Resolutions, Resolve(k, r)
      PROVE  FenceInv'
  BY <1>3 DEF Resolve
<1>4. ASSUME NEW k \in Keys, LateExecute(k) \/ LateDrop(k)
      PROVE  FenceInv'
  BY <1>4 DEF LateExecute, LateDrop
<1>5. CASE PowerLoss
  BY <1>5 DEF PowerLoss, Survives
<1>6. ASSUME NEW p \in Procs, Step(p)
      PROVE  FenceInv'
  <2>1. CASE PassGate(p)
    BY <2>1 DEF PassGate
  <2>2. CASE ConsumeRefire(p)
    <3>1. PermitInv' /\ ArmedInv'
      BY <2>2 DEF ConsumeRefire
    <3>2. CASE Resolution(p) = "re_fire" /\ key[p] \notin refires
      <4>1. dirKey[p] = key[p] /\ dirRes[p] = "re_fire" /\ pc[p] # "idle"
        BY <2>2, <3>2 DEF ConsumeRefire, Resolution
      <4>2. key[p] \in Trusted => Quiet(key[p]) /\ key[p] \in claims
        BY <2>2, <3>2, <4>1 DEF ConsumeRefire
      <4>3. ClearInv'
        BY <2>2, <3>2, <4>2 DEF ConsumeRefire
      <4> QED
        BY <3>1, <4>3
    <3>3. CASE ~(Resolution(p) = "re_fire" /\ key[p] \notin refires)
      BY <2>2, <3>1, <3>3 DEF ConsumeRefire
    <3> QED
      BY <3>2, <3>3
  <2>3. CASE SyncRefire(p) \/ SyncReserve(p)
    BY <2>3 DEF SyncRefire, SyncReserve, SyncDirectory
  <2>4. CASE ClearClaim(p) \/ ClearOutput(p)
    BY <2>4 DEF ClearClaim, ClearOutput
  <2>5. CASE TryReserve(p)
    BY <2>5 DEF TryReserve
  <2>6. CASE LostReserve(p)
    BY <2>6 DEF LostReserve, Finish
  <2>7. CASE SendCall(p) \/ HostUnreachable(p)
    BY <2>7 DEF SendCall, HostUnreachable, TransientError, Finish
  <2>8. CASE Execute(p)
    BY <2>8 DEF Execute
  <2>9. CASE CallTimesOut(p)
    BY <2>9 DEF CallTimesOut, TransientError, Finish
  <2>10. CASE CallRejected(p) \/ CallReturns(p)
    BY <2>10 DEF CallRejected, CallReturns, Finish
  <2>11. CASE CaptureOutput(p) \/ SyncCapture(p)
    BY <2>11 DEF CaptureOutput, SyncCapture, Finish, SyncDirectory
  <2> QED
    BY <1>6, <2>1, <2>2, <2>3, <2>4, <2>5, <2>6, <2>7, <2>8, <2>9, <2>10,
       <2>11 DEF Step
<1>7. CASE UNCHANGED vars
  BY <1>7 DEF vars
<1> QED
  BY <1>1, <1>2, <1>3, <1>4, <1>5, <1>6, <1>7 DEF Next

(* Where the operator is honest a fenced effect runs at most once,         *)
(* whatever crashes, concurrent resumes, retries after a timeout, late     *)
(* executions and power losses happen.                                     *)
THEOREM AtMostOnceThm == Spec => []AtMostOnce
<1>1. TypeOK /\ FenceInv => AtMostOnce
  BY FenceAssumption DEF TypeOK, FenceInv, PermitInv, Trusted, Fired, AtMostOnce
<1>2. TypeOK /\ FenceInv /\ [Next]_vars => FenceInv'
  BY FenceStep
<1> QED
  BY <1>1, <1>2, TypeInit, TypeStep, FenceInit, PTL DEF Spec

(* An effect that ran, or may still run, stays behind a durable claim.     *)
THEOREM FiredStaysClaimedThm == Spec => []FiredStaysClaimed
<1>1. TypeOK /\ FenceInv => FiredStaysClaimed
  BY FenceAssumption DEF TypeOK, FenceInv, PermitInv, Trusted, Fired, FiredStaysClaimed
<1>2. TypeOK /\ FenceInv /\ [Next]_vars => FenceInv'
  BY FenceStep
<1> QED
  BY <1>1, <1>2, TypeInit, TypeStep, FenceInit, PTL DEF Spec
-----------------------------------------------------------------------------
(* At most twice, whatever the operator answers.                           *)

(* Who may still make the effect happen, and how often it did: at most one *)
(* of these in all, or at most two.                                        *)
One(k) ==
  /\ Fired(k) <= 1
  /\ \A p \in Procs : Permit(p, k) =>
       Fired(k) = 0 /\ \A q \in Procs : Permit(q, k) => q = p

Two(k) ==
  /\ Fired(k) <= 2
  /\ \A p \in Procs : Permit(p, k) =>
       /\ Fired(k) <= 1
       /\ \A q, r \in Procs :
            q # p /\ Permit(q, k) => Fired(k) = 0 /\ (Permit(r, k) => r \in {p, q})

(* The dispatcher that has consumed the latch, before it clears the claim. *)
Clearer(p, k) == key[p] = k /\ pc[p] \in {"refireSync", "clearClaim"}

(* No claim of k has been cleared.                                         *)
Uncleared(k) == k \notin onDisk.refires \/ \E p \in Procs : Clearer(p, k)

(* The winner of the claim has synced it.                                  *)
Synced(k) == \A p \in Procs : ~(key[p] = k /\ pc[p] = "reserveSync")

LatchInv ==
  /\ onDisk.refires \subseteq refires
  /\ \A k \in Fenced, p \in Procs : Clearer(p, k) =>
       /\ k \in refires
       /\ pc[p] = "clearClaim" => k \in onDisk.refires
       /\ \A q \in Procs : Clearer(q, k) => q = p

(* The claim admits one, and a second one after it was cleared, which      *)
(* happens once; what it admitted is durable before it can fire.           *)
TwiceInv ==
  \A k \in Fenced :
    /\ Two(k)
    /\ k \notin claims => One(k)
    /\ ~One(k) /\ Synced(k) => k \in onDisk.claims
    /\ Uncleared(k) =>
         /\ One(k)
         /\ k \notin claims => Quiet(k)
         /\ ~Quiet(k) /\ Synced(k) => k \in onDisk.claims

LEMMA LatchStep == TypeOK /\ LatchInv /\ [Next]_vars => LatchInv'
<1> SUFFICES ASSUME TypeOK, LatchInv, [Next]_vars
             PROVE  LatchInv'
  OBVIOUS
<1> USE FenceAssumption
    DEF TypeOK, LatchInv, Clearer, Goto, Keep, Finish, TransientError, SyncDirectory
<1>1. ASSUME NEW p \in Procs, Crash(p)
      PROVE  LatchInv'
  BY <1>1 DEF Crash
<1>2. ASSUME NEW p \in Procs, NEW k \in Keys, NEW d \in Keys \cup {NoKey},
             Dispatch(p, k, d)
      PROVE  LatchInv'
  BY <1>2 DEF Dispatch
<1>3. ASSUME NEW k \in Keys, NEW r \in Resolutions, Resolve(k, r)
      PROVE  LatchInv'
  BY <1>3 DEF Resolve
<1>4. ASSUME NEW k \in Keys, LateExecute(k) \/ LateDrop(k)
      PROVE  LatchInv'
  BY <1>4 DEF LateExecute, LateDrop
<1>5. CASE PowerLoss
  BY <1>5 DEF PowerLoss, Survives
<1>6. ASSUME NEW p \in Procs, Step(p)
      PROVE  LatchInv'
  <2>1. CASE PassGate(p) \/ ConsumeRefire(p)
    BY <2>1 DEF PassGate, ConsumeRefire
  <2>2. CASE SyncRefire(p) \/ SyncReserve(p) \/ SyncCapture(p)
    BY <2>2 DEF SyncRefire, SyncReserve, SyncCapture
  <2>3. CASE ClearClaim(p) \/ ClearOutput(p) \/ TryReserve(p) \/ CaptureOutput(p)
    BY <2>3 DEF ClearClaim, ClearOutput, TryReserve, CaptureOutput
  <2>4. CASE LostReserve(p)
    BY <2>4 DEF LostReserve
  <2>5. CASE SendCall(p) \/ HostUnreachable(p) \/ Execute(p)
    BY <2>5 DEF SendCall, HostUnreachable, Execute
  <2>6. CASE CallTimesOut(p) \/ CallRejected(p) \/ CallReturns(p)
    BY <2>6 DEF CallTimesOut, CallRejected, CallReturns
  <2> QED
    BY <1>6, <2>1, <2>2, <2>3, <2>4, <2>5, <2>6 DEF Step
<1>7. CASE UNCHANGED vars
  BY <1>7 DEF vars
<1> QED
  BY <1>1, <1>2, <1>3, <1>4, <1>5, <1>6, <1>7 DEF Next

(* A permit that is used up, whether its request is executed, is left to   *)
(* the network or never left, covers one execution.                        *)
LEMMA Spend ==
  ASSUME TypeOK, TwiceInv, NEW p \in Procs, pc[p] \in {"sent", "executed"},
         pc' \in [Procs -> PCs],
         pc'[p] \notin {"reserveSync", "call", "sent", "refireSync", "clearClaim"},
         \A q \in Procs : q # p => pc'[q] = pc[q],
         UNCHANGED <<files, key>>,
         effects' \in [Keys -> Nat], orphans' \in [Keys -> Nat],
         \A k \in Keys : k # key[p] => Fired(k)' = Fired(k),
         \/ Fired(key[p])' = Fired(key[p])
         \/ pc[p] = "sent" /\ Fired(key[p])' = Fired(key[p]) + 1
  PROVE  TwiceInv'
<1> DEFINE j == key[p]
<1>1. j \in Keys /\ \A k \in Keys : Fired(k) \in Nat /\ Fired(k)' \in Nat
  BY DEF TypeOK, Fired
<1>2. ASSUME NEW k \in Fenced
      PROVE  /\ \A q \in Procs : Permit(q, k)' <=> Permit(q, k) /\ q # p
             /\ \A q \in Procs : Clearer(q, k)' <=> Clearer(q, k)
             /\ Synced(k)' <=> Synced(k)
             /\ k \in Keys
             /\ k = j /\ pc[p] = "sent" => Permit(p, k)
  BY FenceAssumption DEF Permit, Clearer, Synced
<1>3. ASSUME NEW k \in Fenced
      PROVE  /\ Two(k)'
             /\ Quiet(k) => Quiet(k)'
             /\ One(k) => One(k)'
  <2>1. CASE k = j /\ pc[p] = "sent" /\ Fired(j)' = Fired(j) + 1
    <3>1. Permit(p, k) /\ Two(k) /\ Fired(k)' = Fired(k) + 1
      BY <1>2, <2>1 DEF TwiceInv
    <3> HIDE DEF j
    <3>2. QED  BY <1>1, <1>2, <3>1 DEF Two, One, Quiet
  <2>2. CASE ~(k = j /\ pc[p] = "sent" /\ Fired(j)' = Fired(j) + 1)
    <3>1. Two(k) /\ Fired(k)' = Fired(k)
      BY <1>2, <2>2 DEF TwiceInv
    <3>2. QED  BY <1>1, <1>2, <3>1 DEF Two, One, Quiet
  <2>3. QED  BY <2>1, <2>2
<1>4. \A k \in Fenced : Uncleared(k)' <=> Uncleared(k)
  BY <1>2 DEF Uncleared
<1>5. QED  BY <1>2, <1>3, <1>4 DEF TwiceInv

LEMMA TwiceStep == TypeOK /\ LatchInv /\ TwiceInv /\ [Next]_vars => TwiceInv'
<1> SUFFICES ASSUME TypeOK, LatchInv, TwiceInv, [Next]_vars
             PROVE  TwiceInv'
  OBVIOUS
<1> USE FenceAssumption
    DEF TypeOK, TwiceInv, One, Two, Quiet, Fired, Permit, Uncleared, Clearer, Synced, Goto,
        Keep, SyncDirectory
<1>1. ASSUME NEW p \in Procs, Crash(p)
      PROVE  TwiceInv'
  BY <1>1 DEF Crash
<1>2. ASSUME NEW p \in Procs, NEW k \in Keys, NEW d \in Keys \cup {NoKey},
             Dispatch(p, k, d)
      PROVE  TwiceInv'
  BY <1>2 DEF Dispatch
<1>3. ASSUME NEW k \in Keys, NEW r \in Resolutions, Resolve(k, r)
      PROVE  TwiceInv'
  BY <1>3 DEF Resolve
<1>4. ASSUME NEW k \in Keys, LateExecute(k) \/ LateDrop(k)
      PROVE  TwiceInv'
  BY <1>4 DEF LateExecute, LateDrop
<1>5. CASE PowerLoss
  BY <1>5 DEF PowerLoss, Survives, LatchInv
<1>6. ASSUME NEW p \in Procs, Step(p)
      PROVE  TwiceInv'
  <2>1. CASE PassGate(p)
    BY <2>1 DEF PassGate
  <2>2. CASE ConsumeRefire(p)
    BY <2>2 DEF ConsumeRefire, LatchInv
  <2>3. CASE SyncRefire(p) \/ SyncReserve(p)
    BY <2>3 DEF SyncRefire, SyncReserve, LatchInv
  <2>4. CASE ClearClaim(p)
    BY <2>4 DEF ClearClaim, LatchInv
  <2>5. CASE ClearOutput(p) \/ CaptureOutput(p)
    BY <2>5 DEF ClearOutput, CaptureOutput, Finish
  <2>6. CASE TryReserve(p)
    BY <2>6 DEF TryReserve
  <2>7. CASE LostReserve(p)
    BY <2>7 DEF LostReserve, Finish
  <2>8. CASE SendCall(p)
    BY <2>8 DEF SendCall
  <2>9. CASE HostUnreachable(p)
    BY <2>9 DEF HostUnreachable, TransientError, Finish
  <2>10. CASE Execute(p) \/ CallTimesOut(p) \/ CallRejected(p) \/ CallReturns(p)
    <3>1. pc[p] \in {"sent", "executed"}
      BY <2>10 DEF Execute, CallTimesOut, CallRejected, CallReturns
    <3>2. /\ pc'[p] \in {"executed", "start", "capture", "idle"}
          /\ \A q \in Procs : q # p => pc'[q] = pc[q]
          /\ UNCHANGED <<claims, refires, outputs, onDisk, key>>
      BY <2>10 DEF Execute, CallTimesOut, CallRejected, CallReturns, TransientError, Finish
    <3>3. /\ \A k \in Keys : k # key[p] => Fired(k)' = Fired(k)
          /\ \/ Fired(key[p])' = Fired(key[p])
             \/ pc[p] = "sent" /\ Fired(key[p])' = Fired(key[p]) + 1
      <4> DEFINE j == key[p]
      <4>1. j \in Keys /\ key'[p] = j /\ effects[j] \in Nat /\ orphans[j] \in Nat
        BY <3>1, <3>2
      <4>2. \/ UNCHANGED <<effects, orphans>>
            \/ /\ pc[p] = "sent"
               /\ \/ effects' = [effects EXCEPT ![j] = @ + 1] /\ UNCHANGED orphans
                  \/ orphans' = [orphans EXCEPT ![j] = @ + 1] /\ UNCHANGED effects
        BY <2>10 DEF Execute, CallTimesOut, CallRejected, CallReturns
      <4>3. \A k \in Keys : k # j => effects'[k] = effects[k] /\ orphans'[k] = orphans[k]
        BY <4>2
      <4>4. \/ effects'[j] = effects[j] /\ orphans'[j] = orphans[j]
            \/ /\ pc[p] = "sent"
               /\ \/ effects'[j] = effects[j] + 1 /\ orphans'[j] = orphans[j]
                  \/ effects'[j] = effects[j] /\ orphans'[j] = orphans[j] + 1
        BY <4>1, <4>2
      <4> HIDE DEF j
      <4>5. (effects[j] + 1) + orphans[j] = (effects[j] + orphans[j]) + 1
        BY <4>1
      <4>6. effects[j] + (orphans[j] + 1) = (effects[j] + orphans[j]) + 1
        BY <4>1
      <4> QED
        BY <4>1, <4>3, <4>4, <4>5, <4>6 DEF j
    <3>4. TypeOK'
      BY TypeStep
    <3> HIDE DEF TwiceInv, One, Two, Quiet, Fired, Permit, Uncleared, Clearer, Synced
    <3> QED
      BY <3>1, <3>2, <3>3, <3>4, Spend
  <2>11. CASE SyncCapture(p)
    BY <2>11 DEF SyncCapture, Finish, LatchInv
  <2> QED
    BY <1>6, <2>1, <2>2, <2>3, <2>4, <2>5, <2>6, <2>7, <2>8, <2>9, <2>10, <2>11, <2>11,
       <2>11 DEF Step
<1>7. CASE UNCHANGED vars
  BY <1>7 DEF vars
<1> QED
  BY <1>1, <1>2, <1>3, <1>4, <1>5, <1>6, <1>7 DEF Next

(* Whatever the operator answers, and whatever crashes, late requests and  *)
(* power losses happen, a fenced effect runs at most twice: the latch that *)
(* lets a claim be cleared is durable before the claim is.                 *)
THEOREM AtMostTwiceThm == Spec => []AtMostTwice
<1>1. Init => LatchInv /\ TwiceInv
  BY FenceAssumption
  DEF Init, LatchInv, TwiceInv, One, Two, Quiet, Fired, Permit, Uncleared, Clearer, Synced
<1>2. TypeOK /\ TwiceInv => AtMostTwice
  BY FenceAssumption DEF TypeOK, TwiceInv, Two, Fired, AtMostTwice
<1> QED
  BY <1>1, <1>2, TypeInit, TypeStep, LatchStep, TwiceStep, PTL DEF Spec

-----------------------------------------------------------------------------
(* The promise of EffectOnce.                                              *)

Told == {key[p] : p \in HoldsResult}

(* Step 6b of the sink behind its gate, up to the claim.                   *)
AtFence == {"refireSync", "clearClaim", "clearOutput", "reserve", "reserveSync", "lost"}

(* Nobody holds a directive, and nobody took the latch, for a key that was *)
(* not reported; only fenced keys are claimed; who is under way has no     *)
(* outcome yet.                                                            *)
ReportInv ==
  /\ refires \subseteq paused /\ onDisk.refires \subseteq paused
  /\ \A p \in Procs : dirKey[p] # NoKey => dirKey[p] \in paused
  /\ \A p \in Procs : pc[p] \in AtFence => key[p] \in Fenced
  /\ \A p \in Procs : pc[p] # "idle" => outcome[p] = "none"

LEMMA ReportStep == TypeOK /\ ReportInv /\ [Next]_vars => ReportInv'
<1> SUFFICES ASSUME TypeOK, ReportInv, [Next]_vars
             PROVE  ReportInv'
  OBVIOUS
<1> USE FenceAssumption
    DEF TypeOK, ReportInv, AtFence, Goto, Keep, Finish, TransientError, SyncDirectory
<1>1. ASSUME NEW p \in Procs, Crash(p)
      PROVE  ReportInv'
  BY <1>1 DEF Crash
<1>2. ASSUME NEW p \in Procs, NEW k \in Keys, NEW d \in Keys \cup {NoKey},
             Dispatch(p, k, d)
      PROVE  ReportInv'
  BY <1>2 DEF Dispatch
<1>3. ASSUME NEW k \in Keys, NEW r \in Resolutions, Resolve(k, r)
      PROVE  ReportInv'
  BY <1>3 DEF Resolve
<1>4. ASSUME NEW k \in Keys, LateExecute(k) \/ LateDrop(k)
      PROVE  ReportInv'
  BY <1>4 DEF LateExecute, LateDrop
<1>5. CASE PowerLoss
  BY <1>5 DEF PowerLoss, Survives
<1>6. ASSUME NEW p \in Procs, Step(p)
      PROVE  ReportInv'
  <2>1. CASE PassGate(p)
    BY <2>1 DEF PassGate
  <2>2. CASE ConsumeRefire(p)
    BY <2>2 DEF ConsumeRefire, Resolution
  <2>3. CASE SyncRefire(p) \/ SyncReserve(p) \/ SyncCapture(p)
    BY <2>3 DEF SyncRefire, SyncReserve, SyncCapture
  <2>4. CASE ClearClaim(p) \/ ClearOutput(p) \/ TryReserve(p) \/ CaptureOutput(p)
    BY <2>4 DEF ClearClaim, ClearOutput, TryReserve, CaptureOutput
  <2>5. CASE LostReserve(p)
    BY <2>5 DEF LostReserve
  <2>6. CASE SendCall(p) \/ HostUnreachable(p) \/ Execute(p)
    BY <2>6 DEF SendCall, HostUnreachable, Execute
  <2>7. CASE CallTimesOut(p) \/ CallRejected(p) \/ CallReturns(p)
    BY <2>7 DEF CallTimesOut, CallRejected, CallReturns
  <2> QED
    BY <1>6, <2>1, <2>2, <2>3, <2>4, <2>5, <2>6, <2>7 DEF Step
<1>7. CASE UNCHANGED vars
  BY <1>7 DEF vars
<1> QED
  BY <1>1, <1>2, <1>3, <1>4, <1>5, <1>6, <1>7 DEF Next

(* A dispatch ends with a result, or without one, or one begins.           *)
LEMMA TellOne ==
  ASSUME TypeOK, TypeOK', ResultInv', NEW p \in Procs, UNCHANGED <<effects, paused>>,
         \A q \in Procs : q # p => outcome'[q] = outcome[q] /\ key'[q] = key[q],
         outcome'[p] \in {"ok", "suppressed"} => key'[p] = key[p] /\ outcome[p] = "none"
  PROVE  Once!Next
<1>1. CASE outcome'[p] \in {"ok", "suppressed"}
  <2>1. HoldsResult' = HoldsResult \cup {p} /\ p \notin HoldsResult
    BY <1>1 DEF HoldsResult
  <2>2. Told' = Told \cup {key[p]}
    BY <1>1, <2>1 DEF Told, HoldsResult
  <2>3. key[p] \in Keys /\ effects[key[p]] >= 1
    BY <1>1 DEF ResultInv, Ran
  <2> QED
    BY <2>2, <2>3 DEF Once!Next, Once!Answer, Told
<1>2. CASE outcome'[p] \notin {"ok", "suppressed"}
  <2>1. \A q \in HoldsResult' : q \in HoldsResult /\ key'[q] = key[q]
    BY <1>2 DEF HoldsResult
  <2>2. Told' \subseteq Told
    BY <2>1 DEF Told
  <2> QED
    BY <2>2 DEF Once!Next, Once!Forget, Told
<1> QED
  BY <1>1, <1>2

(* An effect that runs has not run before, or an operator who knew that it *)
(* was ambiguous lets it run again.                                        *)
LEMMA RunsAgain ==
  ASSUME TypeOK, TypeOK', TwiceInv, TwiceInv', ReportInv, AtMostOnce', NEW k \in Keys,
         effects' = [effects EXCEPT ![k] = @ + 1],
         (\E p \in Procs : Permit(p, k)) \/ orphans[k] > 0
  PROVE  k \in Fenced => effects[k] = 0 \/ (effects[k] = 1 /\ k \in paused /\ k \notin Honest)
<1> SUFFICES ASSUME k \in Fenced, effects[k] # 0
             PROVE  effects[k] = 1 /\ k \in paused /\ k \notin Honest
  OBVIOUS
<1>1. effects[k] \in Nat /\ orphans[k] \in Nat /\ effects'[k] = effects[k] + 1
      /\ orphans'[k] \in Nat
  BY DEF TypeOK
<1>2. effects[k] = 1
  BY <1>1 DEF TwiceInv, Two, Fired
<1>3. k \notin Honest
  BY <1>1, <1>2 DEF AtMostOnce
<1>4. ~One(k)
  BY <1>1, <1>2 DEF One, Fired
<1>5. k \in onDisk.refires
  BY <1>4 DEF TwiceInv, Uncleared
<1> QED
  BY <1>2, <1>3, <1>5 DEF ReportInv

LEMMA OnceNext ==
  ASSUME TypeOK, TypeOK', ResultInv, ResultInv', TwiceInv, TwiceInv', ReportInv,
         AtMostOnce', [Next]_vars
  PROVE  [Once!Next]_(Once!vars)
<1>1. ASSUME UNCHANGED <<effects, paused, key, outcome>>
      PROVE  UNCHANGED Once!vars
  BY <1>1 DEF Once!vars, HoldsResult
<1>2. ASSUME NEW k \in Keys, effects' = [effects EXCEPT ![k] = @ + 1],
             (\E p \in Procs : Permit(p, k)) \/ orphans[k] > 0,
             UNCHANGED <<paused, key, outcome>>
      PROVE  Once!Next
  <2>1. Told' = Told
    BY <1>2 DEF Told, HoldsResult
  <2> QED
    BY <1>2, <2>1, RunsAgain DEF Once!Next, Once!Run, Once!MayRunAgain, Told
<1>3. ASSUME NEW p \in Procs, Crash(p)
      PROVE  Once!Next
  BY <1>3, TellOne DEF Crash, Goto, TypeOK
<1>4. ASSUME NEW p \in Procs, NEW k \in Keys, NEW d \in Keys \cup {NoKey},
             Dispatch(p, k, d)
      PROVE  Once!Next
  BY <1>4, TellOne DEF Dispatch, Goto, TypeOK
<1>5. ASSUME (\E k \in Keys, r \in Resolutions : Resolve(k, r)) \/ PowerLoss
             \/ (\E k \in Keys : LateDrop(k)) \/ UNCHANGED vars
      PROVE  UNCHANGED Once!vars
  BY <1>1, <1>5 DEF Resolve, PowerLoss, LateDrop, vars
<1>6. ASSUME NEW k \in Keys, LateExecute(k)
      PROVE  Once!Next
  BY <1>2, <1>6 DEF LateExecute
<1>7. ASSUME NEW p \in Procs, Step(p)
      PROVE  [Once!Next]_(Once!vars)
  <2>1. CASE UNCHANGED <<effects, paused, key, outcome>>
    BY <1>1, <2>1
  <2>2. CASE Execute(p)
    <3>1. Permit(p, key[p]) /\ key[p] \in Keys
      BY <2>2 DEF Execute, Permit, TypeOK
    <3> QED
      BY <1>2, <2>2, <3>1 DEF Execute, Keep
  <2>3. CASE LostReserve(p)
    <3>1. CASE UNCHANGED paused
      BY <2>3, <3>1, TellOne DEF LostReserve, Finish, ReportInv, TypeOK
    <3>2. CASE ~UNCHANGED paused
      <4>1. /\ paused' = paused \cup {key[p]} /\ key[p] \in Fenced
            /\ outcome' = [outcome EXCEPT ![p] = "ambiguous"] /\ outcome[p] = "none"
            /\ UNCHANGED <<effects, key>>
        BY <2>3, <3>2 DEF LostReserve, Finish, ReportInv, AtFence
      <4>2. HoldsResult' = HoldsResult
        BY <4>1 DEF HoldsResult, TypeOK
      <4>3. Told' = Told
        BY <4>1, <4>2 DEF Told
      <4> QED
        BY <4>1, <4>3, FenceAssumption DEF Once!Next, Once!Report, Told
    <3> QED
      BY <3>1, <3>2
  <2>4. CASE HostUnreachable(p) \/ CallTimesOut(p) \/ CallRejected(p)
    BY <1>1, <2>4, TellOne DEF HostUnreachable, CallTimesOut, CallRejected, TransientError,
       Finish, TypeOK
  <2>5. CASE CallReturns(p) \/ CaptureOutput(p) \/ SyncCapture(p)
    BY <1>1, <2>5, TellOne DEF CallReturns, CaptureOutput, SyncCapture, SyncDirectory,
       Finish, Keep, ReportInv, TypeOK
  <2>6. CASE \/ PassGate(p) \/ ConsumeRefire(p) \/ SyncRefire(p) \/ ClearClaim(p)
             \/ ClearOutput(p) \/ TryReserve(p) \/ SyncReserve(p) \/ SendCall(p)
    BY <1>1, <2>6 DEF PassGate, ConsumeRefire, SyncRefire, ClearClaim, ClearOutput,
       TryReserve, SyncReserve, SendCall, SyncDirectory, Keep
  <2> QED
    BY <1>7, <2>2, <2>3, <2>4, <2>5, <2>6 DEF Step
<1> QED
  BY <1>3, <1>4, <1>5, <1>6, <1>7 DEF Next

(* Whoever dispatches an effect, however often, through retries, crashes,  *)
(* late requests and power losses: it runs once, or its ambiguity was      *)
(* reported and a mistaken operator had it run once more; and a result is  *)
(* given to nobody before it ran.                                          *)
THEOREM OnceThm == Spec => ImplementsOnce
<1>1. Init => Once!Init /\ LatchInv /\ TwiceInv /\ ReportInv
  <2> SUFFICES ASSUME Init PROVE Once!Init /\ LatchInv /\ TwiceInv /\ ReportInv
    OBVIOUS
  <2>1. LatchInv /\ TwiceInv
    BY FenceAssumption DEF Init, LatchInv, TwiceInv, One, Two, Quiet, Fired, Permit,
       Uncleared, Clearer, Synced
  <2>2. ReportInv
    BY DEF Init, ReportInv, AtFence
  <2>3. HoldsResult = {}
    BY DEF Init, HoldsResult
  <2> QED
    BY <2>1, <2>2, <2>3 DEF Init, Once!Init
<1>2. TypeOK /\ FenceInv => AtMostOnce
  BY FenceAssumption DEF TypeOK, FenceInv, PermitInv, Trusted, Fired, AtMostOnce
<1>3. TypeOK /\ FenceInv /\ [Next]_vars => FenceInv'
  BY FenceStep
<1>4. /\ TypeOK /\ TypeOK' /\ ResultInv /\ ResultInv' /\ TwiceInv /\ TwiceInv'
      /\ ReportInv /\ AtMostOnce' /\ [Next]_vars
      => [Once!Next]_(Once!vars)
  BY OnceNext
<1> QED
  BY <1>1, <1>2, <1>3, <1>4, TypeInit, TypeStep, ResultInit, ResultStep, FenceInit,
     LatchStep, TwiceStep, ReportStep, PTL DEF Spec, ImplementsOnce, Once!Spec
=============================================================================
