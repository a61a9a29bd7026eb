----------------------------- MODULE EffectFence -----------------------------
(***************************************************************************)
(* The effect fence of the tool sink: at-most-once EXECUTION of the        *)
(* non-idempotent effect of a workflow step.                               *)
(*                                                                         *)
(*   lifecycle/effect_fence.py             the files and their atomic steps *)
(*   lifecycle/runtime_tool_dispatcher.py  step 6b .. 10b of one dispatch   *)
(*   lifecycle/retry_breaker_tool.py       the retry loop around a dispatch *)
(*                                                                         *)
(* Several dispatchers may work on the same key: a resumed run, a second   *)
(* resume of the same run, or a dispatch that outlived its caller, because *)
(* the thread bridge gives up on a timeout without cancelling the coroutine *)
(* (sync_dispatcher_facade.py).  Each file operation is a step of its own, *)
(* a dispatcher may crash between any two, and a power loss may undo the   *)
(* directory changes that were not fsync-ed yet.                           *)
(***************************************************************************)
EXTENDS Naturals, FiniteSets

CONSTANTS
  Procs,          (* dispatchers: processes, resumes, outlived dispatches   *)
  Keys,           (* composed idempotency keys, one per (run, step, tool)   *)
  Fenced,         (* the keys whose fence gate is open                      *)
  NoKey,          (* "no directive"                                         *)
  MaxAttempts,    (* RetryPolicy.max_attempts of the tool dispatcher        *)
  MaxDispatches,  (* bound: dispatches started in a behaviour               *)
  Honest          (* keys whose RE_FIRE is decided only when the effect    *)
                  (* has not run                                            *)

ASSUME FenceAssumption ==
  /\ Fenced \subseteq Keys
  /\ NoKey \notin Keys
  /\ MaxAttempts \in Nat \ {0}
  /\ MaxDispatches \in Nat
  /\ Honest \subseteq Keys

Resolutions == {"skip_as_fired", "re_fire", "abort"}

PCs == {"idle", "start", "refireSync", "clearClaim", "clearOutput", "reserve",
        "reserveSync", "lost", "call", "sent", "executed", "capture",
        "captureSync"}

Outcomes == {"none", "ok", "suppressed", "skipped", "aborted", "ambiguous",
             "failed"}

VARIABLES
  claims,     (* keys whose .claim file is visible                          *)
  refires,    (* keys whose .refire latch is visible                        *)
  outputs,    (* keys whose .output file is visible                         *)
  onDisk,     (* the same three sets as the disk would show after power loss *)
  pc,         (* where each dispatcher stands                               *)
  key,        (* the key it dispatches                                      *)
  dirKey,     (* the key its operator directive is bound to, or NoKey       *)
  dirRes,     (* the resolution the directive carries                       *)
  attempt,    (* attempts its retry loop has used                           *)
  outcome,    (* how its last dispatch ended                                *)
  paused,     (* keys with an EFFECT_FENCE_AMBIGUOUS pause snapshot         *)
  decision,   (* what the operator currently answers for a paused key       *)
  dispatches, (* dispatches started so far                                  *)
  effects,    (* executions of the effect in the outside world              *)
  orphans     (* requests sent by a dispatcher that is gone, not yet run    *)

files == <<claims, refires, outputs, onDisk>>
local == <<pc, key, dirKey, dirRes, attempt, outcome>>
world == <<effects, orphans>>
operator == <<paused, decision>>
vars == <<files, local, world, operator, dispatches>>

Init ==
  /\ claims = {} /\ refires = {} /\ outputs = {}
  /\ onDisk = [claims |-> {}, refires |-> {}, outputs |-> {}]
  /\ pc = [p \in Procs |-> "idle"]
  /\ key = [p \in Procs |-> NoKey]
  /\ dirKey = [p \in Procs |-> NoKey]
  /\ dirRes = [p \in Procs |-> "none"]
  /\ attempt = [p \in Procs |-> 0]
  /\ outcome = [p \in Procs |-> "none"]
  /\ paused = {}
  /\ decision = [k \in Keys |-> "none"]
  /\ dispatches = 0
  /\ effects = [k \in Keys |-> 0]
  /\ orphans = [k \in Keys |-> 0]

-----------------------------------------------------------------------------
(* Steps of a dispatcher that only move its program counter.               *)

Goto(p, there) == pc' = [pc EXCEPT ![p] = there]

Finish(p, result) ==
  /\ Goto(p, "idle")
  /\ outcome' = [outcome EXCEPT ![p] = result]
  /\ UNCHANGED <<key, dirKey, dirRes, attempt>>

Keep == UNCHANGED <<key, dirKey, dirRes, attempt, outcome>>

(* The directive applies only when it is bound to the very key that this   *)
(* dispatch recomputed.                                                    *)
Resolution(p) == IF dirKey[p] = key[p] THEN dirRes[p] ELSE "none"

(* A transient error goes around the retry loop while attempts are left.   *)
TransientError(p) ==
  IF attempt[p] + 1 < MaxAttempts
  THEN /\ attempt' = [attempt EXCEPT ![p] = @ + 1]
       /\ Goto(p, "start")
       /\ UNCHANGED <<key, dirKey, dirRes, outcome>>
  ELSE Finish(p, "failed")

(* Faulty variant: the directory is never synced.                          *)
SyncNothing == UNCHANGED files

(* fsync of the fence directory makes every visible entry durable.         *)
SyncDirectory ==
  /\ onDisk' = [claims |-> claims, refires |-> refires, outputs |-> outputs]
  /\ UNCHANGED <<claims, refires, outputs>>

-----------------------------------------------------------------------------
(* The operator and the driver around the sink.                            *)

(* A dispatcher that may still make the effect happen.                     *)
Permit(p, k) == key[p] = k /\ pc[p] \in {"reserveSync", "call", "sent"}

(* The operator answers a paused key.  An honest one answers RE_FIRE only  *)
(* for a held claim whose effect has not run, and of which no request and  *)
(* no dispatcher that could still send one is left.                        *)
Resolve(k, r) ==
  /\ k \in paused
  /\ k \in Honest /\ r = "re_fire" =>
        /\ k \in claims
        /\ effects[k] = 0 /\ orphans[k] = 0
        /\ \A p \in Procs : ~Permit(p, k)
  /\ decision' = [decision EXCEPT ![k] = r]
  /\ UNCHANGED <<files, local, world, paused, dispatches>>

(* The driver dispatches the step, with the directive of the snapshot it   *)
(* resumes from (d) or without one; the directive may be bound to another  *)
(* key than the one this step composes.                                    *)
Dispatch(p, k, d) ==
  /\ pc[p] = "idle"
  /\ dispatches < MaxDispatches
  /\ d # NoKey => d \in paused /\ decision[d] # "none"
  /\ dispatches' = dispatches + 1
  /\ Goto(p, "start")
  /\ key' = [key EXCEPT ![p] = k]
  /\ dirKey' = [dirKey EXCEPT ![p] = d]
  /\ dirRes' = [dirRes EXCEPT ![p] = IF d = NoKey THEN "none" ELSE decision[d]]
  /\ attempt' = [attempt EXCEPT ![p] = 0]
  /\ outcome' = [outcome EXCEPT ![p] = "none"]
  /\ UNCHANGED <<files, world, operator>>

-----------------------------------------------------------------------------
(* Step 6b of the sink.                                                    *)

(* The gate is closed: no reserve, the call goes out unfenced.             *)
PassGate(p) ==
  /\ pc[p] = "start"
  /\ key[p] \notin Fenced
  /\ Goto(p, "call")
  /\ Keep /\ UNCHANGED <<files, world, operator, dispatches>>

(* Faulty variant: RE_FIRE is not limited to one use.                      *)
ConsumeRefireAgain(p) ==
  /\ pc[p] = "start"
  /\ key[p] \in Fenced
  /\ IF Resolution(p) = "re_fire"
     THEN refires' = refires \cup {key[p]} /\ Goto(p, "refireSync")
     ELSE UNCHANGED refires /\ Goto(p, "reserve")
  /\ Keep /\ UNCHANGED <<claims, outputs, onDisk, world, operator, dispatches>>

(* try_consume_refire up to os.link: the first RE_FIRE takes the latch,    *)
(* every later one finds it taken and goes on without clearing.            *)
ConsumeRefire(p) ==
  /\ pc[p] = "start"
  /\ key[p] \in Fenced
  /\ IF Resolution(p) = "re_fire" /\ key[p] \notin refires
     THEN /\ refires' = refires \cup {key[p]}
          /\ Goto(p, "refireSync")
     ELSE /\ Goto(p, "reserve")
          /\ UNCHANGED refires
  /\ Keep /\ UNCHANGED <<claims, outputs, onDisk, world, operator, dispatches>>

SyncRefire(p) ==
  /\ pc[p] = "refireSync"
  /\ SyncDirectory
  /\ Goto(p, "clearClaim")
  /\ Keep /\ UNCHANGED <<world, operator, dispatches>>

(* clear_claim: two unlinks, neither of them followed by an fsync.         *)
ClearClaim(p) ==
  /\ pc[p] = "clearClaim"
  /\ claims' = claims \ {key[p]}
  /\ Goto(p, "clearOutput")
  /\ Keep /\ UNCHANGED <<refires, outputs, onDisk, world, operator, dispatches>>

ClearOutput(p) ==
  /\ pc[p] = "clearOutput"
  /\ outputs' = outputs \ {key[p]}
  /\ Goto(p, "reserve")
  /\ Keep /\ UNCHANGED <<claims, refires, onDisk, world, operator, dispatches>>

(* Faulty variant: the claim is written without looking for an older one.  *)
TryReserveBlindly(p) ==
  /\ pc[p] = "reserve"
  /\ Goto(p, "reserveSync") /\ claims' = claims \cup {key[p]}
  /\ Keep /\ UNCHANGED <<refires, outputs, onDisk, world, operator, dispatches>>

(* try_reserve up to os.link: atomic, one winner per claim file.           *)
TryReserve(p) ==
  /\ pc[p] = "reserve"
  /\ IF key[p] \in claims
     THEN Goto(p, "lost") /\ UNCHANGED claims
     ELSE Goto(p, "reserveSync") /\ claims' = claims \cup {key[p]}
  /\ Keep /\ UNCHANGED <<refires, outputs, onDisk, world, operator, dispatches>>

(* The won claim is durable before try_reserve returns True.               *)
SyncReserve(p) ==
  /\ pc[p] = "reserveSync"
  /\ SyncDirectory
  /\ Goto(p, "call")
  /\ Keep /\ UNCHANGED <<world, operator, dispatches>>

(* The claim was held: an operator's SKIP or ABORT first, then the split on *)
(* the captured output.  An ambiguous dispatch becomes a pause.            *)
LostReserve(p) ==
  /\ pc[p] = "lost"
  /\ \/ /\ Resolution(p) = "skip_as_fired"
        /\ Finish(p, "skipped") /\ UNCHANGED paused
     \/ /\ Resolution(p) = "abort"
        /\ Finish(p, "aborted") /\ UNCHANGED paused
     \/ /\ Resolution(p) \notin {"skip_as_fired", "abort"}
        /\ key[p] \in outputs
        /\ Finish(p, "suppressed") /\ UNCHANGED paused
     \/ /\ Resolution(p) \notin {"skip_as_fired", "abort"}
        /\ key[p] \notin outputs
        /\ Finish(p, "ambiguous") /\ paused' = paused \cup {key[p]}
  /\ UNCHANGED <<files, world, decision, dispatches>>

-----------------------------------------------------------------------------
(* Steps 7 .. 10b: the call, and the capture of its output.                *)

SendCall(p) ==
  /\ pc[p] = "call"
  /\ Goto(p, "sent")
  /\ Keep /\ UNCHANGED <<files, world, operator, dispatches>>

(* MCPHostUnreachableError: nothing was sent.                              *)
HostUnreachable(p) ==
  /\ pc[p] = "call"
  /\ TransientError(p)
  /\ UNCHANGED <<files, world, operator, dispatches>>

(* The tool server executes the request of a waiting dispatcher.           *)
Execute(p) ==
  /\ pc[p] = "sent"
  /\ effects' = [effects EXCEPT ![key[p]] = @ + 1]
  /\ Goto(p, "executed")
  /\ Keep /\ UNCHANGED <<files, orphans, operator, dispatches>>

(* ToolInvocationTimeoutError: the request may still be executed later.    *)
CallTimesOut(p) ==
  /\ pc[p] \in {"sent", "executed"}
  /\ TransientError(p)
  /\ orphans' = IF pc[p] = "sent"
                THEN [orphans EXCEPT ![key[p]] = @ + 1] ELSE orphans
  /\ UNCHANGED <<files, effects, operator, dispatches>>

(* A protocol error, or a response that fails the output schema: no retry, *)
(* no capture, whether or not the effect ran.                              *)
CallRejected(p) ==
  /\ pc[p] \in {"sent", "executed"}
  /\ Finish(p, "failed")
  /\ UNCHANGED <<files, world, operator, dispatches>>

CallReturns(p) ==
  /\ pc[p] = "executed"
  /\ IF key[p] \in Fenced
     THEN Goto(p, "capture") /\ Keep
     ELSE Finish(p, "ok")
  /\ UNCHANGED <<files, world, operator, dispatches>>

(* capture_output up to os.link; an output that is already there wins and  *)
(* the function returns at once.                                           *)
CaptureOutput(p) ==
  /\ pc[p] = "capture"
  /\ IF key[p] \in outputs
     THEN Finish(p, "ok") /\ UNCHANGED outputs
     ELSE /\ outputs' = outputs \cup {key[p]}
          /\ Goto(p, "captureSync") /\ Keep
  /\ UNCHANGED <<claims, refires, onDisk, world, operator, dispatches>>

SyncCapture(p) ==
  /\ pc[p] = "captureSync"
  /\ SyncDirectory
  /\ Finish(p, "ok")
  /\ UNCHANGED <<world, operator, dispatches>>

-----------------------------------------------------------------------------
(* The environment: late requests, crashes and power loss.                 *)

LateExecute(k) ==
  /\ orphans[k] > 0
  /\ orphans' = [orphans EXCEPT ![k] = @ - 1]
  /\ effects' = [effects EXCEPT ![k] = @ + 1]
  /\ UNCHANGED <<files, local, operator, dispatches>>

LateDrop(k) ==
  /\ orphans[k] > 0
  /\ orphans' = [orphans EXCEPT ![k] = @ - 1]
  /\ UNCHANGED <<files, local, effects, operator, dispatches>>

(* A dispatcher dies; a request it had sent stays under way.               *)
Crash(p) ==
  /\ pc[p] # "idle"
  /\ Goto(p, "idle")
  /\ outcome' = [outcome EXCEPT ![p] = "none"]
  /\ orphans' = IF pc[p] = "sent"
                THEN [orphans EXCEPT ![key[p]] = @ + 1] ELSE orphans
  /\ UNCHANGED <<key, dirKey, dirRes, attempt, files, effects, operator,
                 dispatches>>

(* The host loses power (after every dispatcher died with it): a directory *)
(* change that was not synced is kept or undone, entry by entry.  The      *)
(* operator answers anew after a restart.                                  *)
Survives(after, visible, durable) ==
  /\ visible \cap durable \subseteq after
  /\ after \subseteq visible \cup durable

PowerLoss ==
  /\ \A p \in Procs : pc[p] = "idle"
  /\ \E c, r, o \in SUBSET Keys :
       /\ Survives(c, claims, onDisk.claims)
       /\ Survives(r, refires, onDisk.refires)
       /\ Survives(o, outputs, onDisk.outputs)
       /\ claims' = c /\ refires' = r /\ outputs' = o
       /\ onDisk' = [claims |-> c, refires |-> r, outputs |-> o]
  /\ decision' = [k \in Keys |-> "none"]
  /\ UNCHANGED <<local, world, paused, dispatches>>

-----------------------------------------------------------------------------
Step(p) ==
  \/ PassGate(p) \/ ConsumeRefire(p) \/ SyncRefire(p)
  \/ ClearClaim(p) \/ ClearOutput(p)
  \/ TryReserve(p) \/ SyncReserve(p) \/ LostReserve(p)
  \/ SendCall(p) \/ HostUnreachable(p) \/ Execute(p) \/ CallTimesOut(p)
  \/ CallRejected(p) \/ CallReturns(p) \/ CaptureOutput(p) \/ SyncCapture(p)

Next ==
  \/ \E p \in Procs : Step(p) \/ Crash(p)
  \/ \E p \in Procs, k \in Keys, d \in Keys \cup {NoKey} : Dispatch(p, k, d)
  \/ \E k \in Keys, r \in Resolutions : Resolve(k, r)
  \/ \E k \in Keys : LateExecute(k) \/ LateDrop(k)
  \/ PowerLoss

Spec == Init /\ [][Next]_vars

-----------------------------------------------------------------------------
TypeOK ==
  /\ claims \subseteq Keys /\ refires \subseteq Keys /\ outputs \subseteq Keys
  /\ onDisk \in [claims : SUBSET Keys, refires : SUBSET Keys,
                 outputs : SUBSET Keys]
  /\ pc \in [Procs -> PCs]
  /\ key \in [Procs -> Keys \cup {NoKey}]
  /\ \A p \in Procs : pc[p] # "idle" => key[p] \in Keys
  /\ dirKey \in [Procs -> Keys \cup {NoKey}]
  /\ dirRes \in [Procs -> Resolutions \cup {"none"}]
  /\ attempt \in [Procs -> 0..(MaxAttempts - 1)]
  /\ outcome \in [Procs -> Outcomes]
  /\ paused \subseteq Keys
  /\ decision \in [Keys -> Resolutions \cup {"none"}]
  /\ dispatches \in 0..MaxDispatches
  /\ effects \in [Keys -> Nat]
  /\ orphans \in [Keys -> Nat]

(* "The first dispatch wins and any re-dispatch of the SAME effect loses":  *)
(* where the operator is honest, whatever crashes, resumes, retries, late  *)
(* executions and power losses happen, a fenced effect runs at most once.  *)
AtMostOnce == \A k \in Fenced \cap Honest : effects[k] <= 1

(* The consume-once latch bounds what a mistaken operator can cause: one   *)
(* RE_FIRE per key ever takes effect, so an effect runs at most twice.     *)
AtMostTwice == \A k \in Fenced : effects[k] <= 2

(* Once an effect has run, or may still run, its claim is on disk and      *)
(* stays there: no restart makes the key look fresh again.                 *)
FiredStaysClaimed ==
  \A k \in Fenced \cap Honest :
    effects[k] > 0 \/ orphans[k] > 0 => k \in claims /\ k \in onDisk.claims

(* Suppress-and-continue is proof of completion: a dispatch that returns a *)
(* fresh or a captured output does so only for an effect that has run.     *)
ResultMeansExecuted ==
  \A p \in Procs :
    outcome[p] \in {"ok", "suppressed"} => effects[key[p]] >= 1

(* To those who ask for it, the effect is one that runs once or is reported *)
(* as unknown (EffectOnce), however often and by whom it is dispatched.    *)
HoldsResult == {p \in Procs : outcome[p] \in {"ok", "suppressed"}}

Once == INSTANCE EffectOnce WITH
  ran <- effects,
  unknown <- paused,
  told <- {key[p] : p \in HoldsResult}

ImplementsOnce == Once!Spec
=============================================================================
