-------------------------- MODULE ProviderDispatch --------------------------
(***************************************************************************)
(* Inference steps dispatched to the model providers                       *)
(* (harness_runtime/lifecycle: retry_breaker_fallback.py, retry_breaker.py,*)
(* llm_dispatch.py, sync_dispatcher_facade.py).                            *)
(*                                                                         *)
(* A worker thread has the facade run the dispatch as a coroutine of the   *)
(* process's one event loop and waits for it no longer than a timeout,     *)
(* which leaves the coroutine running.  The dispatch tries the candidates  *)
(* of its fallback chain in turn, each several times, and passes over      *)
(* those whose breaker is open.  It knows the candidate it is at and not   *)
(* its place: the next one is that behind the candidate's first place in   *)
(* the chain, and a chain that lists a candidate twice is walked in a      *)
(* circle from there.  Coroutines change places only where one awaits: a   *)
(* gate, a provider, a tool or a delay.  What happens between two awaits   *)
(* is one action, but for the walk to the next candidate: each step of it  *)
(* is one, and keeps the loop.                                             *)
(***************************************************************************)
EXTENDS Integers, Sequences, FiniteSets, Functions

CONSTANTS
  Dispatches,     (* dispatches of the process, each made at most once      *)
  Candidates,     (* (provider, model) pairs                                *)
  None,           (* no candidate                                           *)
  BaseChain,      (* the configured fallback chain                          *)
  Requests,       (* what the layers that choose a model have bound for a   *)
                  (* step, and the candidates with what the step needs      *)
  MaxAttempts,    (* policy.max_attempts                                    *)
  FailThreshold   (* fail_threshold of a breaker                            *)

ASSUME ChainAssumption == BaseChain \in Seq(Candidates) /\ BaseChain # <<>>
ASSUME BoundsAssumption ==
  MaxAttempts \in Nat \ {0} /\ FailThreshold \in Nat \ {0}
ASSUME ChoicesAssumption ==
  /\ None \notin Candidates
  /\ Requests \subseteq
       [bound : [{"override", "workload", "role", "routed"} -> Candidates \cup {None}],
        able : SUBSET Candidates]

VARIABLES
  pc,       (* [Dispatches -> where the coroutine awaits or chooses]        *)
  chain,    (* [Dispatches -> its effective chain]                          *)
  able,     (* [Dispatches -> the candidates with what the step needs]      *)
  cand,     (* [Dispatches -> the candidate it is at]                       *)
  attempt,  (* [Dispatches -> attempt, from 0]                              *)
  breaker,  (* [Candidates -> the breaker's state and fail_count]           *)
  tried,    (* [Dispatches -> [Candidates -> attempts begun, as counted     *)
            (* by Count]]                                                   *)
  costs,    (* [Dispatches -> cost attributions]                            *)
  grace     (* [Candidates -> dispatches trying it when its breaker opened] *)

vars == <<pc, chain, able, cand, attempt, breaker, tried, costs, grace>>

Trying == {"attempt", "sleep"}
Ended == {"returned", "exhausted", "raised"}

Init ==
  /\ pc = [d \in Dispatches |-> "new"]
  /\ chain = [d \in Dispatches |-> BaseChain]
  /\ able = [d \in Dispatches |-> Candidates]
  /\ cand = [d \in Dispatches |-> BaseChain[1]]
  /\ attempt = [d \in Dispatches |-> 0]
  /\ breaker = [c \in Candidates |-> [state |-> "closed", fails |-> 0]]
  /\ tried = [d \in Dispatches |-> [c \in Candidates |-> 0]]
  /\ costs = [d \in Dispatches |-> 0]
  /\ grace = [c \in Candidates |-> {}]

-----------------------------------------------------------------------------
(* The chain and the breakers.                                             *)

(* list.index: the first place of candidate c.                             *)
Position(ch, c) == CHOOSE i \in DOMAIN ch : ch[i] = c /\ \A j \in 1 .. i - 1 : ch[j] # c

(* Chain ch without p: its n-th candidate is at the place with n - 1       *)
(* other candidates before it (SelectSeq, written for the provers).        *)
Without(ch, p) ==
  LET keep == {i \in DOMAIN ch : ch[i] # p}
      rank(i) == Cardinality({j \in keep : j <= i})
  IN [n \in 1 .. Cardinality(keep) |-> ch[CHOOSE i \in keep : rank(i) = n]]

(* The chain behind another primary, which is taken from wherever it is in *)
(* it.  A chain of this candidate alone stays as it is.                    *)
Augment(p) ==
  IF Range(BaseChain) = {p} THEN BaseChain ELSE <<p>> \o Without(BaseChain, p)

(* Faulty variant: the primary that is displaced is not kept as a fallback.*)
EffectiveShort(b) ==
  IF \A l \in DOMAIN b : b[l] = None
  THEN BaseChain
  ELSE LET p == CHOOSE c \in Candidates : \E l \in DOMAIN b : b[l] = c
       IN <<p>> \o Without(Tail(BaseChain), p)

(* The step's override goes before the workload's, the role's and the      *)
(* router's choice.                                                        *)
Effective(b) ==
  CASE b["override"] # None -> Augment(b["override"])
    [] b["override"] = None /\ b["workload"] # None -> Augment(b["workload"])
    [] b["override"] = None /\ b["workload"] = None /\ b["role"] # None -> Augment(b["role"])
    [] b["override"] = None /\ b["workload"] = None /\ b["role"] = None ->
         IF b["routed"] = None THEN BaseChain ELSE Augment(b["routed"])

(* A candidate is passed over for its capabilities or its open breaker.    *)
MayTry(d) == {c \in able[d] : breaker[c].state # "open"}

(* record_failure and record_success.  Nothing calls attempt_half_open: no *)
(* breaker is ever half open.                                              *)
AfterFailure(b) ==
  IF b.state = "open" THEN b
  ELSE [fails |-> b.fails + 1,
        state |-> IF b.fails + 1 >= FailThreshold THEN "open" ELSE "closed"]

AfterSuccess(b) == IF b.state = "closed" THEN [b EXCEPT !.fails = 0] ELSE b

(* The dispatch ends, and its locals with it.                              *)
End(d, how) ==
  /\ pc' = [pc EXCEPT ![d] = how]
  /\ chain' = [chain EXCEPT ![d] = BaseChain]
  /\ cand' = [cand EXCEPT ![d] = BaseChain[1]]
  /\ attempt' = [attempt EXCEPT ![d] = 0]

(* What is kept only to judge how a dispatch came to exhaust its chain.    *)
Forget(d) ==
  /\ able' = [able EXCEPT ![d] = Candidates]
  /\ tried' = [tried EXCEPT ![d] = [c \in Candidates |-> 0]]

(* on_provider_failure: on to what is behind the first place of the        *)
(* candidate, or the chain is exhausted.                                   *)
Advance(d) ==
  LET place == Position(chain[d], cand[d]) IN
  \/ place = Len(chain[d]) /\ End(d, "exhausted")
  \/ /\ place < Len(chain[d])
     /\ pc' = [pc EXCEPT ![d] = "choosing"]
     /\ cand' = [cand EXCEPT ![d] = chain[d][place + 1]]
     /\ UNCHANGED <<chain, attempt>>

(* One more attempt; those beyond the first too many are not counted.      *)
Count(n) == IF n > MaxAttempts THEN n ELSE n + 1

-----------------------------------------------------------------------------
(* The coroutine of dispatch d.                                            *)

(* No coroutine is on its way to the next await.                           *)
LoopFree == \A d \in Dispatches : pc[d] # "choosing"

(* The routing layers have been asked; the chain is entered.               *)
Start(d) ==
  /\ pc[d] = "new" /\ LoopFree
  /\ \E r \in Requests :
       /\ able' = [able EXCEPT ![d] = r.able]
       /\ chain' = [chain EXCEPT ![d] = Effective(r.bound)]
       /\ cand' = [cand EXCEPT ![d] = Effective(r.bound)[1]]
  /\ pc' = [pc EXCEPT ![d] = "choosing"]
  /\ UNCHANGED <<attempt, breaker, tried, costs, grace>>

(* The first attempt at the candidate begins.                              *)
Enter(d) ==
  /\ pc' = [pc EXCEPT ![d] = "attempt"]
  /\ attempt' = [attempt EXCEPT ![d] = 0]
  /\ tried' = [tried EXCEPT ![d][cand[d]] = Count(@)]
  /\ UNCHANGED <<chain, cand>>

(* Faulty variant: the breaker of the candidate is not looked at.          *)
ChooseBlind(d) ==
  /\ pc[d] = "choosing"
  /\ \/ cand[d] \in able[d] /\ Enter(d)
     \/ cand[d] \notin able[d] /\ Advance(d) /\ UNCHANGED tried
  /\ UNCHANGED <<able, breaker, costs, grace>>

(* The candidate is tried or passed over.  This loop awaits nothing: no    *)
(* other coroutine runs until it has found one, or is exhausted.           *)
Choose(d) ==
  /\ pc[d] = "choosing"
  /\ \/ cand[d] \in MayTry(d) /\ Enter(d)
     \/ cand[d] \notin MayTry(d) /\ Advance(d) /\ UNCHANGED tried
  /\ UNCHANGED <<able, breaker, costs, grace>>

(* The provider answers, the memory captures the turn, the cost is         *)
(* attributed (an error there is swallowed) and the dispatch returns.      *)
Succeed(d) ==
  /\ pc[d] = "attempt"
  /\ costs' = [costs EXCEPT ![d] = @ + 1]
  /\ breaker' = [breaker EXCEPT ![cand[d]] = AfterSuccess(@)]
  /\ End(d, "returned") /\ Forget(d)
  /\ UNCHANGED grace

(* The candidate has failed: its breaker learns, and the loop goes on.     *)
Abandon(d) ==
  LET c == cand[d] IN
  /\ breaker' = [breaker EXCEPT ![c] = AfterFailure(@)]
  /\ grace' = [grace EXCEPT ![c] =
       IF breaker[c].state = "open" \/ breaker'[c].state # "open" THEN @
       ELSE {e \in Dispatches \ {d} : cand[e] = c /\ pc[e] \in Trying}]
  /\ Advance(d)
  /\ UNCHANGED tried

(* Transient failures: every exception but the ones below.  An attempt     *)
(* remains: delay it.                                                      *)
Backoff(d) ==
  /\ attempt[d] < MaxAttempts - 1
  /\ pc' = [pc EXCEPT ![d] = "sleep"]
  /\ UNCHANGED <<chain, cand, attempt, tried, breaker, grace>>

Transient(d) == Backoff(d) \/ (attempt[d] = MaxAttempts - 1 /\ Abandon(d))

(* The memory, the provider or the tool loop raises, or the turn cannot be *)
(* captured although the provider has answered.                            *)
FailTransient(d) ==
  /\ pc[d] = "attempt"
  /\ Transient(d)
  /\ UNCHANGED <<able, costs>>

(* No such provider, or a payload it cannot take.                          *)
FailPermanent(d) ==
  /\ pc[d] = "attempt"
  /\ Abandon(d)
  /\ UNCHANGED <<able, costs>>

(* The operator's decision at the gate, a cancellation or a pause leaves   *)
(* the dispatcher at once and tells the breaker nothing.                   *)
Propagate(d) ==
  /\ pc[d] \in Trying
  /\ End(d, "raised") /\ Forget(d)
  /\ UNCHANGED <<breaker, costs, grace>>

(* Faulty variant: the attempt is not counted.                             *)
WakeUncounted(d) ==
  /\ pc[d] = "sleep"
  /\ pc' = [pc EXCEPT ![d] = "attempt"]
  /\ tried' = [tried EXCEPT ![d][cand[d]] = Count(@)]
  /\ UNCHANGED <<chain, able, cand, attempt, breaker, costs, grace>>

(* The delay is over: the same candidate again, whatever its breaker says. *)
Wake(d) ==
  /\ pc[d] = "sleep"
  /\ pc' = [pc EXCEPT ![d] = "attempt"]
  /\ attempt' = [attempt EXCEPT ![d] = @ + 1]
  /\ tried' = [tried EXCEPT ![d][cand[d]] = Count(@)]
  /\ UNCHANGED <<chain, able, cand, breaker, costs, grace>>

-----------------------------------------------------------------------------
Step(d) ==
  \/ Choose(d)
  \/ /\ LoopFree
     /\ \/ Succeed(d)
        \/ FailTransient(d) \/ FailPermanent(d) \/ Propagate(d) \/ Wake(d)

Next == \E d \in Dispatches : Start(d) \/ Step(d)

Spec == Init /\ [][Next]_vars

-----------------------------------------------------------------------------
(* Properties.                                                             *)

(* Every variable has its type.                                            *)
TypeOK ==
  /\ pc \in [Dispatches -> {"new", "choosing"} \cup Trying \cup Ended]
  /\ chain \in [Dispatches -> Seq(Candidates)]
  /\ able \in [Dispatches -> SUBSET Candidates]
  /\ cand \in [Dispatches -> Candidates]
  /\ attempt \in [Dispatches -> 0 .. MaxAttempts - 1]
  /\ breaker \in [Candidates -> [state : {"closed", "open"}, fails : 0 .. FailThreshold]]
  /\ tried \in [Dispatches -> [Candidates -> 0 .. MaxAttempts + 1]]
  /\ costs \in [Dispatches -> Nat]
  /\ grace \in [Candidates -> SUBSET Dispatches]

(* The candidates of the circle in which chain ch is walked: what is       *)
(* between the two places of the first candidate that comes again.  There  *)
(* are none if every candidate has one place.                              *)
Circle(ch) ==
  {ch[m] : m \in {m \in DOMAIN ch :
     \E k \in DOMAIN ch :
       /\ Position(ch, ch[k]) <= m /\ m < k
       /\ \A i \in 1 .. k - 1 : Position(ch, ch[i]) = i}}

(* The retry budget: whatever fails, and whatever other dispatches do to   *)
(* the breakers meanwhile, a dispatch tries a candidate MaxAttempts times  *)
(* at most, and comes back to none it has left, except while it goes       *)
(* round in the circle of a chain that lists a candidate twice.            *)
BudgetHolds ==
  \A d \in Dispatches, c \in Candidates :
    \/ pc[d] \in Trying \cup {"choosing"} /\ c \in Circle(chain[d])
    \/ tried[d][c] <= IF pc[d] \in Trying /\ cand[d] = c THEN attempt[d] + 1 ELSE MaxAttempts

(* A dispatch reports that its chain is exhausted only when every          *)
(* configured candidate, also one displaced by an override, was tried,     *)
(* lacks a capability or has an open breaker.                              *)
ExhaustedTriedAll ==
  \A d \in Dispatches :
    pc[d] = "exhausted" =>
      \A c \in Range(BaseChain) : tried[d][c] > 0 \/ c \notin MayTry(d)

(* Only the dispatches that were trying a candidate when its breaker       *)
(* opened still try it afterwards.                                         *)
OpenStopsCalls ==
  \A d \in Dispatches :
    pc[d] \in Trying /\ breaker[cand[d]].state = "open" => d \in grace[cand[d]]

(* However many answers its attempts obtained and paid for, the cost of a  *)
(* dispatch is attributed once, for the answer that it returns.            *)
CostOfResult ==
  \A d \in Dispatches : costs[d] = IF pc[d] = "returned" THEN 1 ELSE 0

(* A dispatch may try nothing that its chain has, and the chain lists a    *)
(* candidate twice.                                                        *)
Circling(d) ==
  /\ pc[d] = "choosing"
  /\ Range(chain[d]) \cap MayTry(d) = {}
  /\ ~IsInjective(chain[d])

(* It goes on like this, and nobody else moves: the dispatch is never      *)
(* exhausted, although the loop says of itself (retry_breaker_fallback.py, *)
(* 496) "All candidates short -> the chain exhausts".                      *)
CirclingLasts ==
  [][\A d \in Dispatches : Circling(d) =>
       /\ Circling(d)'
       /\ \A e \in Dispatches \ {d} : pc'[e] = pc[e]
       /\ UNCHANGED <<breaker, tried, costs>>]_vars

=============================================================================
