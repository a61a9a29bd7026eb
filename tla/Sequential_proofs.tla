-------------------------- MODULE Sequential_proofs --------------------------
(***************************************************************************)
(* Proofs about Sequential, for every cap and every number of stages,      *)
(* drives and faults: type correctness, that no resume is given what the   *)
(* ledger lacks, that the cap holds over all drives together, and that a   *)
(* success is the whole run.                                               *)
(***************************************************************************)
EXTENDS Sequential, TLAPS

-----------------------------------------------------------------------------
(* Inductive invariants.                                                   *)

(* A run has no entry from here on.                                        *)
Last == IF Evaluator THEN 2 * Cap ELSE NStages

(* What a drive keeps is what its first `next` entries give, whichever     *)
(* drives made them.                                                       *)
Followed ==
  /\ next \in 0 .. Last
  /\ channel = Outputs(next)
  /\ iterations = Counted(next)
  /\ handoffs = HandedOver(next)

LoopInv ==
  /\ snapshots \subseteq 0 .. Last
  /\ pc # "idle" => Followed
  /\ pc \in {"idle", "step"} => verdict = "none"
  /\ pc = "capture" => ~Evaluator
  /\ verdict = "SUCCESS" => ~Due

TypeInv == TypeOK /\ LoopInv

(* What the completed entries of a drive have to write is written or       *)
(* buffered.                                                               *)
DrainInv ==
  Evaluator =>
    /\ \A n \in snapshots : \A e \in 0 .. n - 1 : EntriesOf(e) \subseteq ledger
    /\ pc # "idle" => \A e \in 0 .. next - 1 : EntriesOf(e) \subseteq ledger \cup buffer

-----------------------------------------------------------------------------
(* Entries.                                                                *)

LEMMA EntriesIs ==
  ASSUME strategy \in {"evaluator", "handoff"}
  PROVE  /\ Last \in Nat \ {0} /\ 0 .. Last \subseteq Entries /\ Entries \subseteq Nat
         /\ Evaluator => 0 \in Entries /\ 1 \in Entries
         /\ Last + 1 \in Entries
BY SequentialAssumption DEF Last, Entries, Evaluator

LEMMA DeclaredIs ==
  ASSUME strategy \in {"evaluator", "handoff"}, NEW e \in 0 .. Last
  PROVE  Declared(e) \in Entries
<1>1. CASE Evaluator
  <2>1. e % 2 \in {0, 1}  BY <1>1, EntriesIs
  <2>2. QED  BY <1>1, <2>1, EntriesIs DEF Declared
<1>2. CASE ~Evaluator  BY <1>2, EntriesIs DEF Declared
<1>3. QED  BY <1>1, <1>2

(* A step that is due is one of the run.                                   *)
LEMMA DueIs ==
  ASSUME TypeOK, Followed, Due
  PROVE  next < Last
<1>1. CASE Evaluator
  <2>1. next \in Nat /\ iterations = (next + 1) \div 2 /\ next <= 2 * Cap
    BY <1>1, EntriesIs DEF TypeOK, Followed, Counted, Generates, Last
  <2>2. CASE next % 2 = 1
    BY <2>1, <2>2, <1>1, SequentialAssumption DEF Last
  <2>3. CASE next % 2 # 1 /\ iterations < Cap
    BY <2>1, <2>3, <1>1, SequentialAssumption DEF Last
  <2>4. QED  BY <1>1, <2>2, <2>3 DEF Due
<1>2. CASE ~Evaluator
  BY <1>2 DEF Due, Last, Followed
<1>3. QED  BY <1>1, <1>2

LEMMA MaxIs ==
  ASSUME NEW S, S \subseteq Int, NEW m \in S, \A y \in S : y <= m
  PROVE  Max(S) = m
<1>1. \A x \in S : (\A y \in S : x >= y) => x = m  BY SMT
<1>2. \A y \in S : m >= y  BY SMT
<1>3. QED  BY <1>1, <1>2 DEF Max

(* The outputs that n entries leave, and that one more leaves.             *)
LEMMA OutputsIs ==
  ASSUME strategy \in {"evaluator", "handoff"}, NEW n \in 0 .. Last
  PROVE  Outputs(n) \in [Entries -> Entries \cup {-1}]
<1> DEFINE S(d) == {-1} \cup {e \in 0 .. n - 1 : Declared(e) = d}
<1>1. ASSUME NEW d \in Entries PROVE Max(S(d)) \in Entries \cup {-1}
  <2>0. S(d) \subseteq Int /\ n \in Nat /\ d \in Nat  BY EntriesIs
  <2>1. CASE \A e \in 0 .. n - 1 : Declared(e) # d
    <3>1. S(d) = {-1}  BY <2>1
    <3>2. Max(S(d)) = -1  BY <3>1, MaxIs
    <3>3. QED  BY <3>2
  <2>2. CASE ~Evaluator /\ \E e \in 0 .. n - 1 : Declared(e) = d
    <3>1. S(d) = {-1, d}  BY <2>2 DEF Declared
    <3>2. Max(S(d)) = d  BY <3>1, <2>0, MaxIs
    <3>3. QED  BY <3>2
  <2>3. CASE Evaluator /\ \E e \in 0 .. n - 1 : Declared(e) = d
    <3> DEFINE m == IF (n - 1) % 2 = d THEN n - 1 ELSE n - 2
    <3>1. PICK e \in 0 .. n - 1 : e % 2 = d  BY <2>3 DEF Declared
    <3>2. m \in 0 .. n - 1 /\ m % 2 = d  BY <3>1, <2>0
    <3>3. \A y \in 0 .. n - 1 : y % 2 = d => y <= m  BY <3>1, <2>0
    <3>4. m \in S(d) /\ \A y \in S(d) : y <= m  BY <3>2, <3>3, <2>3, <2>0 DEF Declared
    <3>5. Max(S(d)) = m  BY <3>4, <2>0, MaxIs
    <3>6. m \in Entries  BY <3>2, <2>0, EntriesIs
    <3>7. QED  BY <3>5, <3>6
  <2>4. QED  BY <2>1, <2>2, <2>3
<1>2. QED  BY <1>1 DEF Outputs

LEMMA OutputsNext ==
  ASSUME strategy \in {"evaluator", "handoff"}, NEW n \in 0 .. Last - 1
  PROVE  [Outputs(n) EXCEPT ![Declared(n)] = n] = Outputs(n + 1)
<1>0. n \in Nat /\ n \in 0 .. Last  BY EntriesIs
<1>1. Declared(n) \in Entries  BY <1>0, DeclaredIs
<1> DEFINE S(k, d) == {-1} \cup {e \in 0 .. k - 1 : Declared(e) = d}
<1>2. ASSUME NEW d \in Entries, d # Declared(n) PROVE S(n + 1, d) = S(n, d)
  BY <1>0, <1>2
<1>3. Max(S(n + 1, Declared(n))) = n
  <2>1. n \in S(n + 1, Declared(n)) /\ S(n + 1, Declared(n)) \subseteq Int
        /\ \A y \in S(n + 1, Declared(n)) : y <= n
    BY <1>0
  <2>2. QED  BY <2>1, MaxIs
<1>4. Outputs(n) = [d \in Entries |-> Max(S(n, d))]  BY DEF Outputs
<1>5. Outputs(n + 1) = [d \in Entries |-> Max(S(n + 1, d))]  BY DEF Outputs
<1> HIDE DEF S
<1>6. QED  BY <1>1, <1>2, <1>3, <1>4, <1>5
(* What a number of entries counts to.                                     *)
LEMMA CountedIs ==
  ASSUME strategy \in {"evaluator", "handoff"}, NEW n \in 0 .. Last
  PROVE  Counted(n) \in 0 .. Cap /\ HandedOver(n) \subseteq Entries
<1>1. Counted(n) \in 0 .. Cap
  BY EntriesIs, SequentialAssumption DEF Counted, Generates, Last
<1>2. HandedOver(n) \subseteq 0 .. Last
  BY EntriesIs, SequentialAssumption DEF HandedOver, Last
<1>3. QED  BY <1>1, <1>2, EntriesIs

-----------------------------------------------------------------------------
(* Type correctness, with the control of a drive.                          *)

(* Steps that leave the drive, or what it has, as it is.                   *)
LEMMA Unmoved ==
  ASSUME LoopInv, UNCHANGED <<strategy, next, iterations, accepted, channel, handoffs>>,
         pc # "idle", snapshots' \subseteq snapshots \cup {next},
         pc' = "capture" => ~Evaluator, pc' \in {"idle", "step"} => verdict' = "none",
         verdict' = "SUCCESS" => ~Due
  PROVE  LoopInv'
BY DEF LoopInv, Followed, Last, Evaluator, Counted, Generates, HandedOver, Outputs, Declared,
       Entries, Due

LEMMA StartStep ==
  ASSUME TypeInv, NEW n \in 0 .. Last, Begin(n)
  PROVE  TypeInv'
<1>1. TypeOK /\ LoopInv /\ strategy \in {"evaluator", "handoff"}
  BY DEF TypeInv, TypeOK
<1>2. /\ pc' = "step" /\ next' = n /\ origin' = n /\ channel' = Outputs(n)
      /\ iterations' = Counted(n) /\ handoffs' = HandedOver(n) /\ accepted' = FALSE
      /\ drives < MaxDrives /\ drives' = drives + 1 /\ result' = "none" /\ pc = "idle"
      /\ UNCHANGED <<strategy, policy, ledger, snapshots, buffer, verdict, runs, faults>>
  BY DEF Begin, Start, Keep
<1>3. /\ Outputs(n) \in [Entries -> Entries \cup {-1}] /\ Counted(n) \in 0 .. Cap
      /\ HandedOver(n) \subseteq Entries /\ n \in Entries
  BY <1>1, OutputsIs, CountedIs, EntriesIs
<1>4. UNCHANGED Entries  BY <1>2 DEF Entries
<1>5. TypeOK'
  <2>1. drives' \in 0 .. MaxDrives  BY <1>1, <1>2, SequentialAssumption DEF TypeOK
  <2>2. accepted' \in BOOLEAN  BY <1>2
  <2>3. QED  BY <1>1, <1>2, <1>3, <1>4, <2>1, <2>2 DEF TypeOK
<1>6. Last' = Last /\ Outputs(n)' = Outputs(n) /\ Counted(n)' = Counted(n)
      /\ HandedOver(n)' = HandedOver(n)
  BY <1>2 DEF Last, Outputs, Counted, HandedOver, Evaluator, Declared, Generates, Entries
<1>7. LoopInv'
  BY <1>1, <1>2, <1>6
  DEF LoopInv, Followed, Outputs, Counted, HandedOver, Evaluator, Declared, Generates, Entries
<1>8. QED  BY <1>5, <1>7 DEF TypeInv

LEMMA ReturnsStep ==
  ASSUME TypeInv, StepReturns
  PROVE  TypeInv'
<1>1. TypeOK /\ LoopInv /\ strategy \in {"evaluator", "handoff"}
  BY DEF TypeInv, TypeOK
<1>2. /\ pc = "step" /\ Due /\ next' = next + 1
      /\ UNCHANGED <<strategy, policy, ledger, snapshots, pc, origin, verdict, result,
                     drives, faults>>
  BY DEF StepReturns, Keep
<1>3. next \in 0 .. Last - 1 /\ Followed /\ verdict = "none"
  <2>1. Followed /\ verdict = "none"  BY <1>1, <1>2 DEF LoopInv
  <2>2. next < Last  BY <1>1, <1>2, <2>1, DueIs
  <2>3. QED  BY <2>1, <2>2, <1>1, EntriesIs DEF Followed
<1>4. UNCHANGED <<Entries, Last>>  BY <1>2 DEF Entries, Last, Evaluator
<1>5. next \in 0 .. Last /\ next + 1 \in 0 .. Last /\ next \in Nat  BY <1>1, <1>3, EntriesIs
<1>6. channel' = Outputs(next + 1)
  <2>1. channel' = [channel EXCEPT ![Declared(next)] = next]  BY DEF StepReturns
  <2>2. QED  BY <2>1, <1>1, <1>3, OutputsNext DEF Followed
<1>7. iterations' = Counted(next + 1)
  BY <1>3, <1>5 DEF StepReturns, Followed, Counted, Generates, Evaluator
<1>8. handoffs' = HandedOver(next + 1)
  <2>1. CASE Evaluator
    BY <2>1, <1>3 DEF StepReturns, Followed, HandedOver, Evaluator
  <2>2. CASE ~Evaluator /\ next < NStages - 1
    <3>1. handoffs' = handoffs \cup {next}  BY <2>2 DEF StepReturns, Evaluator
    <3>2. handoffs = 0 .. next - 1
      BY <2>2, <1>3, <1>5, SequentialAssumption DEF Followed, HandedOver, Evaluator
    <3>3. HandedOver(next + 1) = 0 .. next
      BY <2>2, <1>5, SequentialAssumption DEF HandedOver, Evaluator
    <3>4. QED  BY <3>1, <3>2, <3>3, <1>5
  <2>3. CASE ~Evaluator /\ ~(next < NStages - 1)
    <3>1. handoffs' = handoffs  BY <2>3 DEF StepReturns, Evaluator
    <3>2. handoffs = 0 .. NStages - 2
      BY <2>3, <1>3, <1>5, SequentialAssumption DEF Followed, HandedOver, Evaluator, Last
    <3>3. HandedOver(next + 1) = 0 .. NStages - 2
      BY <2>3, <1>5, SequentialAssumption DEF HandedOver, Evaluator
    <3>4. QED  BY <3>1, <3>2, <3>3
  <2>4. QED  BY <2>1, <2>2, <2>3
<1>9. Followed'
  BY <1>2, <1>4, <1>5, <1>6, <1>7, <1>8
  DEF Followed, Outputs, Counted, Generates, HandedOver, Evaluator, Declared, Entries
<1>10. LoopInv'
  BY <1>1, <1>2, <1>3, <1>4, <1>9 DEF LoopInv, Evaluator
<1>11. next \in Entries /\ next + 1 \in Entries  BY <1>1, <1>5, EntriesIs
<1>12. /\ runs' \in [Entries -> Nat] /\ accepted' \in BOOLEAN
       /\ buffer' \subseteq Entries \X {"step", "end"}
  <2>1. runs' \in [Entries -> Nat]  BY <1>1, <1>11 DEF TypeOK, StepReturns
  <2>2. accepted' \in BOOLEAN  BY Zenon DEF StepReturns
  <2>3. EntriesOf(next) \subseteq Entries \X {"step", "end"}  BY <1>11 DEF EntriesOf
  <2>4. QED  BY <1>1, <2>1, <2>2, <2>3 DEF TypeOK, StepReturns
<1>13. /\ channel' \in [Entries -> Entries \cup {-1}] /\ iterations' \in 0 .. Cap
       /\ handoffs' \subseteq Entries
  BY <1>1, <1>5, <1>6, <1>7, <1>8, OutputsIs, CountedIs
<1>14. TypeOK'
  BY <1>1, <1>2, <1>4, <1>11, <1>12, <1>13 DEF TypeOK
<1>15. QED  BY <1>10, <1>14 DEF TypeInv

LEMMA TypeStep ==
  ASSUME TypeInv, [Next]_vars
  PROVE  TypeInv'
<1>1. TypeOK /\ LoopInv /\ strategy \in {"evaluator", "handoff"}
  BY DEF TypeInv, TypeOK
<1>2. UNCHANGED strategy  BY DEF Next, vars, local, Drive, DriveMalformed, Begin, Start,
  StepReturns, StepPauses, StepFails, StepUnsupported, AllDone, Conclude, Drain, Capture,
  Return, WriteRaises, Crash, Resume, Refuse, Keep
<1>3. UNCHANGED <<Entries, Last>>  BY <1>2 DEF Entries, Last, Evaluator
<1>4. ASSUME NEW P, UNCHANGED <<strategy, next, iterations, accepted, channel, handoffs>>
      PROVE  (Due' <=> Due) /\ (Followed' <=> Followed)
  BY <1>2, <1>3, <1>4 DEF Due, Followed, Evaluator, Outputs, Counted, Generates, HandedOver,
    Declared, Entries, Last
<1>5. CASE UNCHANGED vars
  BY <1>5, <1>1, <1>3 DEF vars, local, TypeInv, TypeOK, LoopInv, Followed, Evaluator, Outputs,
    Counted, Generates, HandedOver, Declared, Entries, Last, Due
<1>6. CASE Drive
  <2>1. Begin(0) /\ 0 \in 0 .. Last  BY <1>6, <1>1, EntriesIs DEF Drive
  <2>2. QED  BY <2>1, StartStep
<1>7. ASSUME NEW n \in snapshots, NEW body, Resume(n, body) PROVE TypeInv'
  <2>1. Begin(n) /\ n \in 0 .. Last  BY <1>1, <1>7 DEF Resume, LoopInv
  <2>2. QED  BY <2>1, StartStep
<1>8. CASE DriveMalformed \/ \E n \in snapshots : \E body \in Bodies : Refuse(n, body)
  <2>1. /\ drives' \in 0 .. MaxDrives /\ result' \in {"SUCCESS", "FAILED"}
        /\ UNCHANGED <<strategy, policy, ledger, snapshots, local, runs, faults>>
    BY <1>8, <1>1, SequentialAssumption DEF DriveMalformed, Refuse, Keep, TypeOK
  <2>2. TypeOK'  BY <2>1, <1>1, <1>3 DEF TypeOK, local
  <2>3. LoopInv'  BY <2>1, <1>1, <1>3, <1>4 DEF LoopInv, local, Evaluator
  <2>4. QED  BY <2>2, <2>3 DEF TypeInv
<1>9. CASE StepReturns  BY <1>9, ReturnsStep
<1>10. CASE StepPauses \/ StepFails \/ StepUnsupported \/ AllDone
  <2>1. /\ pc = "step" /\ pc' \in {"drain", "capture"} /\ (pc' = "capture" => ~Evaluator)
        /\ verdict' \in {"SUCCESS", "PARTIAL", "FAILED", "PAUSED"}
        /\ verdict' = "SUCCESS" => ~Due
        /\ faults' \in 0 .. MaxFaults /\ runs' \in [Entries -> Nat]
        /\ UNCHANGED <<strategy, policy, ledger, snapshots, origin, next, iterations,
                       accepted, channel, handoffs, buffer, result, drives>>
    <3>1. CASE StepPauses
      BY <3>1, <1>1, SequentialAssumption DEF StepPauses, Raised, Fault, Conclude, Keep, TypeOK
    <3>2. CASE StepFails
      BY <3>2, <1>1, SequentialAssumption DEF StepFails, Raised, Fault, Conclude, Keep, TypeOK
    <3>3. CASE StepUnsupported
      BY <3>3, <1>1, SequentialAssumption DEF StepUnsupported, Fault, Conclude, Keep, TypeOK
    <3>4. CASE AllDone
      BY <3>4, <1>1 DEF AllDone, Conclude, Keep, TypeOK
    <3>5. QED  BY <1>10, <3>1, <3>2, <3>3, <3>4
  <2>2. TypeOK'  BY <2>1, <1>1, <1>3 DEF TypeOK
  <2>3. LoopInv'  BY <2>1, <1>1, Unmoved
  <2>4. QED  BY <2>2, <2>3 DEF TypeInv
<1>11. CASE Drain
  <2>1. /\ pc = "drain" /\ ledger' \subseteq ledger \cup buffer /\ buffer' \subseteq buffer
        /\ UNCHANGED <<strategy, policy, snapshots, pc, origin, next, iterations, accepted,
                       channel, handoffs, verdict, result, runs, drives, faults>>
    BY <1>11 DEF Drain, Keep
  <2>2. TypeOK'  BY <2>1, <1>1, <1>3 DEF TypeOK
  <2>3. LoopInv'  BY <2>1, <1>1, Unmoved DEF LoopInv
  <2>4. QED  BY <2>2, <2>3 DEF TypeInv
<1>12. CASE Capture
  <2>1. /\ pc \in {"capture", "drain"} /\ pc' = "drain" /\ snapshots' = snapshots \cup {next}
        /\ UNCHANGED <<strategy, policy, ledger, origin, next, iterations, accepted, channel,
                       handoffs, buffer, verdict, result, runs, drives, faults>>
    BY <1>12 DEF Capture, Keep
  <2>2. TypeOK'  BY <2>1, <1>1, <1>3 DEF TypeOK
  <2>3. LoopInv'  BY <2>1, <1>1, Unmoved DEF LoopInv
  <2>4. QED  BY <2>2, <2>3 DEF TypeInv
<1>13. CASE Return \/ WriteRaises \/ Crash
  <2>1. /\ Reset /\ UNCHANGED <<strategy, policy, ledger, snapshots, runs, drives>>
        /\ result' \in {"SUCCESS", "PARTIAL", "FAILED", "PAUSED", "RAISED", "CRASHED", "none"}
        /\ faults' \in 0 .. MaxFaults
    BY <1>13, <1>1, SequentialAssumption DEF Return, WriteRaises, Crash, Fault, Keep, TypeOK
  <2>2. 0 \in Entries /\ Nothing \in [Entries -> Entries \cup {-1}] /\ 0 \in 0 .. Cap
    BY <1>1, EntriesIs, SequentialAssumption DEF Nothing
  <2>3. TypeOK'  BY <2>1, <2>2, <1>1, <1>3 DEF TypeOK, Reset
  <2>4. LoopInv'  BY <2>1, <1>1, <1>3 DEF LoopInv, Reset
  <2>5. QED  BY <2>3, <2>4 DEF TypeInv
<1>14. QED
  BY <1>5, <1>6, <1>7, <1>8, <1>9, <1>10, <1>11, <1>12, <1>13 DEF Next

LEMMA InitType ==
  ASSUME Init
  PROVE  TypeInv
<1>1. strategy \in {"evaluator", "handoff"}  BY SequentialAssumption DEF Init
<1>2. /\ 0 \in Entries /\ Nothing \in [Entries -> Entries \cup {-1}]
      /\ 0 \in 0 .. Cap /\ 0 \in 0 .. MaxDrives /\ 0 \in 0 .. MaxFaults
  BY <1>1, EntriesIs, SequentialAssumption DEF Nothing
<1>3. TypeOK  BY <1>1, <1>2 DEF Init, TypeOK
<1>4. LoopInv  BY DEF Init, LoopInv
<1>5. QED  BY <1>3, <1>4 DEF TypeInv

LEMMA Typed == Spec => []TypeInv
BY InitType, TypeStep, PTL DEF Spec

(* Every variable stays in its type: no drive counts beyond the cap or     *)
(* past its steps (_execute_evaluator_optimizer and                        *)
(* _execute_decentralized_handoff).                                        *)
THEOREM TypeCorrect == Spec => []TypeOK
<1>1. TypeInv => TypeOK  BY DEF TypeInv
<1>2. QED  BY <1>1, Typed, PTL

-----------------------------------------------------------------------------
(* Success is the whole run.                                               *)

(* A drive that is about to report success reports every entry, iteration  *)
(* and handoff of all drives (AllDone after the loop of either strategy).  *)
THEOREM SuccessThm == Spec => []SuccessIsWhole
<1>1. TypeInv => SuccessIsWhole
  <2> SUFFICES ASSUME TypeInv, verdict = "SUCCESS"
               PROVE  /\ channel = Outputs(next)
                      /\ IF Evaluator
                         THEN iterations = Generates(next) /\ (accepted \/ next = 2 * Cap)
                         ELSE next = NStages /\ handoffs = 0 .. NStages - 2
    BY DEF SuccessIsWhole
  <2>1. TypeOK /\ LoopInv  BY DEF TypeInv
  <2>2. Followed /\ ~Due  BY <2>1 DEF LoopInv, TypeOK
  <2>3. CASE Evaluator
    <3>1. next \in 0 .. 2 * Cap /\ iterations = (next + 1) \div 2
      BY <2>2, <2>3 DEF Followed, Last, Counted, Generates
    <3>2. next % 2 # 1 /\ (accepted \/ ~(iterations < Cap))  BY <2>2, <2>3 DEF Due
    <3>3. accepted \/ next = 2 * Cap  BY <3>1, <3>2, <2>1, SequentialAssumption DEF TypeOK
    <3>4. QED  BY <2>2, <2>3, <3>3 DEF Followed, Counted
  <2>4. CASE ~Evaluator
    <3>1. next = NStages
      BY <2>2, <2>4, SequentialAssumption DEF Followed, Last, Due
    <3>2. handoffs = 0 .. NStages - 2
      BY <3>1, <2>2, <2>4, SequentialAssumption DEF Followed, HandedOver
    <3>3. QED  BY <3>1, <3>2, <2>2, <2>4 DEF Followed
  <2>5. QED  BY <2>3, <2>4
<1>2. QED  BY <1>1, Typed, PTL

-----------------------------------------------------------------------------
(* The cap over all drives.                                                *)

LEMMA CapStep ==
  ASSUME TypeInv, CapHolds, [Next]_vars
  PROVE  CapHolds'
<1>1. TypeOK /\ LoopInv  BY DEF TypeInv
<1>2. UNCHANGED strategy  BY DEF Next, vars, local, Drive, DriveMalformed, Begin, Start,
  StepReturns, StepPauses, StepFails, StepUnsupported, AllDone, Conclude, Drain, Capture,
  Return, WriteRaises, Crash, Resume, Refuse, Keep
<1>3. CASE UNCHANGED runs
  BY <1>2, <1>3 DEF CapHolds, Evaluator, Entries
<1>4. CASE /\ pc = "step" /\ Due
           /\ \E k \in {0, 1} : runs' = [runs EXCEPT ![next] = @ + k]
  <2>1. next < Last  BY <1>1, <1>4, DueIs DEF LoopInv
  <2>2. \A e \in Entries : e # next => runs'[e] = runs[e]  BY <1>1, <1>4 DEF TypeOK
  <2>3. QED  BY <1>2, <2>1, <2>2 DEF CapHolds, Evaluator, Entries, Last
<1>5. UNCHANGED runs \/ StepReturns \/ StepPauses \/ StepFails
  BY DEF Next, vars, local, Drive, DriveMalformed, Begin, Start, StepUnsupported, AllDone,
    Conclude, Drain, Capture, Return, WriteRaises, Crash, Resume, Refuse, Keep
<1>6. StepReturns \/ StepPauses \/ StepFails =>
        /\ pc = "step" /\ Due
        /\ \E k \in {0, 1} : runs' = [runs EXCEPT ![next] = @ + k]
  BY DEF StepReturns, StepPauses, StepFails, Raised
<1>7. QED  BY <1>3, <1>4, <1>5, <1>6

(* However often it is paused and resumed, the loop dispatches no more     *)
(* than Cap generates and as many evaluations                              *)
(* (_EVALUATOR_OPTIMIZER_MAX_ITERATIONS).                                  *)
THEOREM CapThm == Spec => []CapHolds
<1>1. Init => CapHolds  BY DEF Init, CapHolds
<1>2. QED  BY <1>1, CapStep, Typed, PTL DEF Spec

-----------------------------------------------------------------------------
(* What a resume is given.                                                 *)

LEMMA DrainStep ==
  ASSUME TypeInv, DrainInv, [Next]_vars
  PROVE  DrainInv'
<1>1. TypeOK /\ LoopInv  BY DEF TypeInv
<1>2. UNCHANGED strategy  BY DEF Next, vars, local, Drive, DriveMalformed, Begin, Start,
  StepReturns, StepPauses, StepFails, StepUnsupported, AllDone, Conclude, Drain, Capture,
  Return, WriteRaises, Crash, Resume, Refuse, Keep
<1> SUFFICES ASSUME Evaluator PROVE DrainInv'
  BY <1>2 DEF DrainInv, Evaluator
<1>3. \A e : EntriesOf(e)' = EntriesOf(e)  BY <1>2 DEF EntriesOf, Evaluator
<1>4. CASE /\ UNCHANGED <<snapshots, next>> /\ ledger \cup buffer \subseteq ledger' \cup buffer'
           /\ ledger \subseteq ledger' /\ (pc = "idle" => pc' = "idle")
  BY <1>3, <1>4 DEF DrainInv, EntriesOf
<1>5. CASE UNCHANGED <<snapshots, ledger>> /\ pc' = "idle"
  BY <1>3, <1>5 DEF DrainInv, EntriesOf
<1>6. ASSUME NEW n, Begin(n), n = 0 \/ n \in snapshots PROVE DrainInv'
  <2>1. UNCHANGED <<snapshots, ledger, buffer>> /\ next' = n  BY <1>6 DEF Begin, Start
  <2>2. QED  BY <1>3, <1>6, <2>1 DEF DrainInv, EntriesOf
<1>7. CASE StepReturns
  <2>1. /\ UNCHANGED <<snapshots, ledger>> /\ next' = next + 1 /\ pc = "step"
        /\ buffer' = buffer \cup EntriesOf(next)
    BY <1>7 DEF StepReturns
  <2>2. next \in Nat  BY <1>1, EntriesIs DEF TypeOK
  <2>3. \A e \in 0 .. next : e \in 0 .. next - 1 \/ e = next  BY <2>2
  <2>4. QED  BY <1>3, <2>1, <2>2, <2>3 DEF DrainInv, EntriesOf
<1>8. CASE Capture
  <2>1. pc = "drain" /\ buffer = {}  BY <1>8, <1>1 DEF Capture, LoopInv
  <2>2. UNCHANGED <<ledger, buffer, next>> /\ snapshots' = snapshots \cup {next}
    BY <1>8 DEF Capture
  <2>3. QED  BY <1>3, <2>1, <2>2 DEF DrainInv, EntriesOf
<1>9. CASE Drain
  BY <1>9, <1>4 DEF Drain
<1>10. CASE StepPauses \/ StepFails \/ StepUnsupported \/ AllDone
  BY <1>10, <1>4 DEF StepPauses, StepFails, StepUnsupported, AllDone, Raised, Conclude
<1>11. CASE Return \/ WriteRaises \/ Crash
  BY <1>11, <1>5 DEF Return, WriteRaises, Crash, Reset
<1>12. CASE DriveMalformed \/ (\E n \in snapshots : \E body \in Bodies : Refuse(n, body))
            \/ UNCHANGED vars
  BY <1>12, <1>4 DEF DriveMalformed, Refuse, vars, local
<1>13. QED
  BY <1>6, <1>7, <1>8, <1>9, <1>10, <1>11, <1>12 DEF Next, Drive, Resume

(* What a snapshot of the loop calls completed is in the ledger, whatever  *)
(* crash or failing write came between: the resume never writes it         *)
(* (drain_branch_buffers before capture_pause_snapshot).                   *)
THEOREM SnapshotThm == Spec => []SnapshotIsLedgered
<1>1. Init => DrainInv  BY DEF Init, DrainInv
<1>2. DrainInv => SnapshotIsLedgered  BY DEF DrainInv, SnapshotIsLedgered
<1>3. QED  BY <1>1, <1>2, DrainStep, Typed, PTL DEF Spec
=============================================================================
