------------------------- MODULE LinearDriver_proofs -------------------------
(***************************************************************************)
(* What a drive of a run leaves behind for the next one, for any number of *)
(* drivers and steps, with and without power loss.                         *)
(***************************************************************************)
EXTENDS LinearDriver, SequenceTheorems, TLAPS

(* A driver that has found its position.                                   *)
Driving == {"recover", "rebuild", "entry", "record", "append"}

(* Types of one step at a time.                                            *)
LEMMA Bounds == NSteps \in Nat \ {0} /\ MaxFaults \in Nat /\ MaxRuns \in Nat \ {0}
BY DriverAssumption DEF DriverAssumption

LEMMA NothingType == Nothing \in Counts /\ NoResult \in Results
BY Bounds DEF Nothing, Counts, NoResult, Results, Statuses, Fails

LEMMA TypeInit == Init => TypeOK
<1> SUFFICES ASSUME Init PROVE TypeOK
  OBVIOUS
<1>1. ledger \in Seq(Steps)
  BY DEF Init
<1>2. pc \in [Drivers -> PCs] /\ at \in [Drivers -> 0 .. NSteps] /\ snap \in [Drivers -> Steps \cup {None}]
  BY Bounds DEF Init, PCs
<1>3. lease \in [Drivers -> Nat] /\ out \in [Drivers -> 0 .. MaxRuns]
  BY Bounds DEF Init
<1>4. acc \in [Drivers -> Counts] /\ channel \in [Drivers -> Counts] /\ result \in [Drivers -> Results]
  BY NothingType DEF Init
<1>5. claimed \subseteq 1 .. pauses /\ pauses \in Nat /\ snapshots \subseteq Steps /\ faults \in 0 .. MaxFaults
  BY Bounds DEF Init
<1>6. torn \in BOOLEAN /\ drained \in BOOLEAN /\ pauseFlag \in BOOLEAN
  BY DEF Init
<1> QED BY <1>1, <1>2, <1>3, <1>4, <1>5, <1>6, NothingType DEF Init, TypeOK

(* What a Return leaves well typed.                                        *)
LEMMA ReturnType ==
  ASSUME TypeOK, NEW d \in Drivers, NEW status \in Statuses,
         NEW terminal \in Steps \cup {None}, NEW fail \in Fails,
         Return(d, status, terminal, fail)
  PROVE  /\ pc' \in [Drivers -> PCs]
         /\ lease' \in [Drivers -> Nat]
         /\ result' \in [Drivers -> Results]
BY DEF TypeOK, Return, Results, PCs

LEMMA CommittedSteps == TypeOK => Committed \subseteq Steps
BY DEF TypeOK, Committed

(* A driver at a step is one of [at]'s bounds apart from the end.          *)
StepBound == \A d \in Drivers : pc[d] \in {"record", "append"} => at[d] < NSteps

LEMMA TypeNext == TypeOK /\ StepBound /\ [Next]_vars => TypeOK'
<1> SUFFICES ASSUME TypeOK, StepBound, [Next]_vars PROVE TypeOK'
  OBVIOUS
<1> USE Bounds
<1>1. ASSUME NEW d \in Drivers, NEW s \in snapshots \cup {None}, Invoke(d, s)
      PROVE  TypeOK'
  <2>1. acc' \in [Drivers -> Counts] /\ channel' \in [Drivers -> Counts]
    BY <1>1, NothingType DEF Invoke, TypeOK
  <2>2. snap' \in [Drivers -> Steps \cup {None}]
    BY <1>1 DEF Invoke, TypeOK
  <2>3. /\ pc' \in [Drivers -> PCs]
        /\ lease' \in [Drivers -> Nat]
        /\ result' \in [Drivers -> Results]
    <3>1. CASE drained
      BY <1>1, <3>1, ReturnType DEF Invoke, Statuses, Fails
    <3>2. CASE ~drained
      <4>1. /\ pc' = [pc EXCEPT ![d] = "position"] /\ lease' = lease
            /\ result' = [result EXCEPT ![d] = NoResult]
        BY <1>1, <3>2 DEF Invoke, GoTo
      <4>2. /\ pc \in [Drivers -> PCs] /\ lease \in [Drivers -> Nat]
            /\ result \in [Drivers -> Results]
        BY DEF TypeOK
      <4> QED BY <4>1, <4>2, NothingType DEF PCs
    <3> QED BY <3>1, <3>2
  <2>4. UNCHANGED <<engine, ledger, store, snapshots, pauses, torn, claimed,
                    drained, pauseFlag, runs, faults, at, out>>
    BY <1>1 DEF Invoke, disk, flags
  <2> QED BY <2>1, <2>2, <2>3, <2>4 DEF TypeOK
<1>2. ASSUME NEW d \in Drivers, Position(d) PROVE TypeOK'
  <2>1. ResumeAt(snap[d]) \subseteq 0 .. NSteps
    <3>1. snap[d] \in Steps \cup {None}
      BY DEF TypeOK
    <3> QED BY <3>1 DEF ResumeAt, FirstMissing, Steps, None
  <2>2. PICK k \in ResumeAt(snap[d]) : at' = [at EXCEPT ![d] = k]
    BY <1>2 DEF Position
  <2>3. at' \in [Drivers -> 0 .. NSteps]
    BY <2>1, <2>2 DEF TypeOK
  <2> QED BY <1>2, <2>3 DEF Position, TypeOK, disk, flags, GoTo, PCs
<1>3. ASSUME NEW d \in Drivers, Recover(d) PROVE TypeOK'
  <2>1. claimed' \subseteq 1 .. pauses
    <3>1. claimed' = claimed \/ (pauses > 0 /\ claimed' = claimed \cup {pauses})
      BY <1>3 DEF Recover, Claim
    <3>2. claimed \subseteq 1 .. pauses /\ pauses \in Nat
      BY DEF TypeOK
    <3>3. pauses > 0 => pauses \in 1 .. pauses
      BY <3>2
    <3>4. CASE claimed' = claimed
      BY <3>2, <3>4
    <3>5. CASE pauses > 0 /\ claimed' = claimed \cup {pauses}
      BY <3>2, <3>3, <3>5
    <3> QED BY <3>1, <3>4, <3>5
  <2>2. /\ pc' \in [Drivers -> PCs]
        /\ lease' \in [Drivers -> Nat]
        /\ result' \in [Drivers -> Results]
    <3>1. CASE \E fail \in Fails : Return(d, "FAILED", None, fail)
      BY <3>1, ReturnType DEF Statuses
    <3>2. CASE /\ GoTo(d, "rebuild") /\ result' = result
               /\ lease' = lease \/ lease' = [lease EXCEPT ![d] = pauses]
      <4>1. /\ pc \in [Drivers -> PCs] /\ lease \in [Drivers -> Nat] /\ pauses \in Nat
            /\ result \in [Drivers -> Results]
        BY DEF TypeOK
      <4> QED BY <3>2, <4>1 DEF GoTo, PCs
    <3> QED BY <1>3, <3>1, <3>2 DEF Recover, Claim, Fails
  <2> QED BY <1>3, <2>1, <2>2 DEF Recover, TypeOK, flags
<1>4. ASSUME NEW d \in Drivers, Rebuild(d) PROVE TypeOK'
  <2>1. \A n \in Int : Prefix(n) \in Counts
    <3> SUFFICES ASSUME NEW n \in Int PROVE Prefix(n) \in Counts
      OBVIOUS
    <3>1. \A i \in Steps : store[i] \in 0 .. MaxRuns
      BY DEF TypeOK, Counts
    <3> QED BY <3>1 DEF Prefix, Counts
  <2>2. Nothing \in Counts
    BY DEF Nothing, Counts
  <2>3. acc' \in [Drivers -> Counts] /\ channel' \in [Drivers -> Counts]
    <3>1. at[d] \in Int /\ channel[d] \in Counts
      BY DEF TypeOK
    <3>2. Rehydrated(d) \in Counts /\ Prefix(at[d]) \in Counts
      BY <2>1, <3>1 DEF Rehydrated
    <3>3. /\ acc' = acc \/ \E c \in Counts : acc' = [acc EXCEPT ![d] = c]
          /\ channel' = channel \/ \E c \in Counts : channel' = [channel EXCEPT ![d] = c]
      BY <1>4, <2>2, <3>2 DEF Rebuild
    <3>4. acc \in [Drivers -> Counts] /\ channel \in [Drivers -> Counts]
      BY DEF TypeOK
    <3> QED BY <3>3, <3>4
  <2>4. /\ pc' \in [Drivers -> PCs]
        /\ lease' \in [Drivers -> Nat]
        /\ result' \in [Drivers -> Results]
    BY <1>4, ReturnType DEF Rebuild, TypeOK, GoTo, PCs, Statuses, Fails, None
  <2> QED BY <1>4, <2>3, <2>4 DEF Rebuild, TypeOK, disk, flags
<1>5. ASSUME NEW d \in Drivers, Finish(d) \/ DrainAtEntry(d) PROVE TypeOK'
  <2>1. at[d] - 1 \in Steps \cup {None} \/ Finish(d)
    BY <1>5 DEF DrainAtEntry, AtStep, TypeOK, Steps, None
  <2>2. /\ pc' \in [Drivers -> PCs]
        /\ lease' \in [Drivers -> Nat]
        /\ result' \in [Drivers -> Results]
    BY <1>5, <2>1, ReturnType DEF Finish, DrainAtEntry, Statuses, Fails, None
  <2> QED BY <1>5, <2>2 DEF Finish, DrainAtEntry, TypeOK, disk, flags
<1>6. ASSUME NEW d \in Drivers, EnginePause(d) \/ ProtocolPause(d) \/ GatePause(d)
      PROVE  TypeOK'
  <2>1. at[d] - 1 \in Steps \cup {None} /\ at[d] \in Steps
    <3>1. at[d] < NSteps
      BY <1>6 DEF EnginePause, ProtocolPause, GatePause, Dispatching, AtStep
    <3>2. at[d] \in 0 .. NSteps
      BY DEF TypeOK
    <3> QED BY <3>1, <3>2 DEF Steps, None
  <2>2. /\ pc' \in [Drivers -> PCs]
        /\ lease' \in [Drivers -> Nat]
        /\ result' \in [Drivers -> Results]
    <3>1. Return(d, "PAUSED", at[d] - 1, "none")
      BY <1>6 DEF EnginePause, ProtocolPause, GatePause
    <3> QED BY <2>1, <3>1, ReturnType DEF Statuses, Fails
  <2>3. snapshots' \subseteq Steps
    BY <1>6, <2>1 DEF EnginePause, ProtocolPause, GatePause, TypeOK
  <2>4. pauses' \in Nat /\ claimed' \subseteq 1 .. pauses'
    <3>1. pauses' \in {pauses, pauses + 1} /\ claimed' = claimed
      BY <1>6 DEF EnginePause, ProtocolPause, GatePause
    <3> QED BY <3>1 DEF TypeOK
  <2>5. faults' \in 0 .. MaxFaults
    <3>1. faults' = faults \/ (faults < MaxFaults /\ faults' = faults + 1)
      BY <1>6 DEF EnginePause, ProtocolPause, GatePause, Fault
    <3>2. faults \in 0 .. MaxFaults
      BY DEF TypeOK
    <3> QED BY <3>1, <3>2
  <2>6. torn' \in BOOLEAN /\ drained' \in BOOLEAN /\ pauseFlag' \in BOOLEAN
    BY <1>6, Zenon DEF EnginePause, ProtocolPause, GatePause, TypeOK, flags
  <2>7. UNCHANGED <<engine, ledger, store, runs, at, snap, out, acc, channel>>
    BY <1>6 DEF EnginePause, ProtocolPause, GatePause
  <2> QED BY <2>2, <2>3, <2>4, <2>5, <2>6, <2>7 DEF TypeOK
<1>7. ASSUME NEW d \in Drivers, Dispatch(d) PROVE TypeOK'
  <2>1. at[d] \in Steps
    BY <1>7 DEF Dispatch, Dispatching, AtStep, TypeOK, Steps
  <2>2. runs' \in Counts
    BY <1>7, <2>1 DEF Dispatch, Execute, TypeOK, Counts
  <2>3. out' \in [Drivers -> 0 .. MaxRuns]
    BY <1>7, <2>1, <2>2 DEF Dispatch, TypeOK, Counts
  <2> QED BY <1>7, <2>2, <2>3 DEF Dispatch, TypeOK, disk, flags, GoTo, PCs
<1>8. ASSUME NEW d \in Drivers, StepFails(d) \/ RecordRaises(d) \/ CommitFails(d)
      PROVE  TypeOK'
  <2>1. at[d] \in Steps
    BY <1>8 DEF StepFails, RecordRaises, CommitFails, Dispatching, AtStep, TypeOK,
       Steps, StepBound
  <2>2. runs' \in Counts
    BY <1>8, <2>1 DEF StepFails, RecordRaises, CommitFails, Execute, TypeOK, Counts
  <2>3. /\ pc' \in [Drivers -> PCs]
        /\ lease' \in [Drivers -> Nat]
        /\ result' \in [Drivers -> Results]
    BY <1>8, <2>1, ReturnType DEF StepFails, RecordRaises, CommitFails, Statuses,
       Fails, None
  <2> QED BY <1>8, <2>2, <2>3
          DEF StepFails, RecordRaises, CommitFails, Fault, TypeOK, disk, flags
<1>9. ASSUME NEW d \in Drivers, RecordStep(d) PROVE TypeOK'
  <2>1. store' \in Counts
    BY <1>9 DEF RecordStep, Record, TypeOK, Counts
  <2> QED BY <1>9, <2>1 DEF RecordStep, Record, TypeOK, flags, GoTo, PCs
<1>10. ASSUME NEW d \in Drivers, Commit(d) PROVE TypeOK'
  <2>1. at[d] \in Steps
    BY <1>10 DEF Commit, TypeOK, Steps, StepBound
  <2>2. ledger' \in Seq(Steps)
    BY <1>10, <2>1, AppendProperties DEF Commit, Appended, TypeOK
  <2>3. acc' \in [Drivers -> Counts] /\ channel' \in [Drivers -> Counts]
    BY <1>10, <2>1 DEF Commit, TypeOK, Counts
  <2>4. at' \in [Drivers -> 0 .. NSteps]
    BY <1>10, <2>1 DEF Commit, NextStep, TypeOK, Steps
  <2>5. /\ pc' \in [Drivers -> PCs]
        /\ lease' \in [Drivers -> Nat]
        /\ result' \in [Drivers -> Results]
    BY <1>10, <2>1, ReturnType DEF Commit, TypeOK, GoTo, PCs, Statuses, Fails
  <2> QED BY <1>10, <2>2, <2>3, <2>4, <2>5 DEF Commit, TypeOK, flags
<1>11. CASE SetDrained \/ RequestPause \/ ClearPause
  <2>1. faults' \in 0 .. MaxFaults
    BY <1>11 DEF SetDrained, RequestPause, ClearPause, Fault, TypeOK
  <2>2. drained' \in BOOLEAN /\ pauseFlag' \in BOOLEAN
    BY <1>11, Zenon DEF SetDrained, RequestPause, ClearPause, TypeOK
  <2>3. UNCHANGED <<engine, disk, runs, local>>
    BY <1>11 DEF SetDrained, RequestPause, ClearPause
  <2> QED BY <2>1, <2>2, <2>3 DEF TypeOK, disk, local
<1>12. CASE Crash \/ Restart
  <2>1. PICK k \in 0 .. Len(ledger) : Halt(k)
    <3>1. Len(ledger) \in Nat
      BY DEF TypeOK
    <3> QED BY <1>12, <3>1 DEF Crash, Restart
  <2>2. ledger' \in Seq(Steps)
    BY <2>1, SubSeqProperties DEF Halt, TypeOK
  <2>3. faults' \in 0 .. MaxFaults
    BY <1>12 DEF Crash, Restart, Fault, TypeOK
  <2>4. torn' \in BOOLEAN
    BY <1>12, Zenon DEF Crash, Restart, TypeOK
  <2>5. /\ pc' \in [Drivers -> PCs]
        /\ lease' \in [Drivers -> Nat]
        /\ result' \in [Drivers -> Results]
    BY <2>1, NothingType DEF Halt, PCs
  <2>6. drained' \in BOOLEAN /\ pauseFlag' \in BOOLEAN
    BY <2>1 DEF Halt
  <2>7. UNCHANGED <<engine, store, snapshots, pauses, claimed, runs,
                    at, snap, out, acc, channel>>
    BY <2>1 DEF Halt
  <2> QED BY <2>2, <2>3, <2>4, <2>5, <2>6, <2>7 DEF TypeOK
<1>13. CASE UNCHANGED vars
  BY <1>13 DEF TypeOK, vars, disk, flags, local
<1> QED
  BY <1>1, <1>2, <1>3, <1>4, <1>5, <1>6, <1>7, <1>8, <1>9, <1>10, <1>11, <1>12, <1>13
     DEF Next, Invocation, Drive

-----------------------------------------------------------------------------
(* What is behind a driver.                                                *)

(* The step was executed, and its output journalled where it has to be.    *)
Landed(i) == runs[i] > 0 /\ (Durable /\ Store => store[i] > 0)

Behind(n) == \A i \in Steps : i < n => Landed(i)

(* A step is in the ledger, or before a snapshot or a driver's position,   *)
(* only after it landed.                                                   *)
PrefixInv ==
  /\ \A i \in Committed : Landed(i)
  /\ \A s \in snapshots : Behind(s)
  /\ \A d \in Drivers :
       /\ pc[d] = "position" /\ snap[d] # None => snap[d] \in snapshots
       /\ pc[d] \in Driving => Behind(at[d])
       /\ pc[d] \in {"record", "append"} =>
            at[d] < NSteps /\ runs[at[d]] > 0 /\ out[d] > 0
       /\ pc[d] = "append" => Landed(at[d])

Unmoved(d) ==
  UNCHANGED <<pc[d], at[d], snap[d], out[d], acc[d], channel[d], result[d], lease[d]>>

Stopped(d) ==
  /\ pc'[d] = "idle" /\ lease'[d] = 0 /\ result'[d] = NoResult
  /\ UNCHANGED <<at[d], snap[d], out[d], acc[d], channel[d]>>

(* A driver is moved by its own steps and by the end of the host.          *)
LEMMA Locality ==
  ASSUME TypeOK, [Next]_vars, NEW e \in Drivers
  PROVE  Unmoved(e) \/ Invocation(e) \/ Drive(e) \/ Stopped(e)
<1>1. ASSUME NEW d \in Drivers, d # e, Invocation(d)
      PROVE  Unmoved(e)
  BY <1>1 DEF Invocation, Invoke, Return, GoTo, Unmoved, TypeOK
<1>2. ASSUME NEW d \in Drivers, d # e,
             Position(d) \/ Recover(d) \/ Rebuild(d) \/ RecordStep(d) \/ Commit(d) \/ Dispatch(d)
      PROVE  Unmoved(e)
  <2>1. CASE Position(d)
    BY <1>2, <2>1 DEF Position, GoTo, Unmoved, TypeOK
  <2>2. CASE Recover(d)
    BY <1>2, <2>2 DEF Recover, Claim, Return, GoTo, Unmoved, TypeOK
  <2>3. CASE Rebuild(d)
    BY <1>2, <2>3 DEF Rebuild, Return, GoTo, Unmoved, TypeOK
  <2>4. CASE RecordStep(d)
    BY <1>2, <2>4 DEF RecordStep, Record, GoTo, Unmoved, TypeOK
  <2>5. CASE Commit(d)
    BY <1>2, <2>5 DEF Commit, Return, GoTo, Unmoved, TypeOK
  <2>6. CASE Dispatch(d)
    BY <1>2, <2>6 DEF Dispatch, GoTo, Unmoved, TypeOK
  <2> QED BY <1>2, <2>1, <2>2, <2>3, <2>4, <2>5, <2>6
<1>3. ASSUME NEW d \in Drivers, d # e,
             \/ Finish(d) \/ DrainAtEntry(d) \/ EnginePause(d) \/ ProtocolPause(d)
             \/ StepFails(d) \/ GatePause(d) \/ RecordRaises(d) \/ CommitFails(d)
      PROVE  Unmoved(e)
  BY <1>3 DEF Finish, DrainAtEntry, EnginePause, ProtocolPause, StepFails, GatePause,
              RecordRaises, CommitFails, Return, Unmoved, TypeOK
<1>4. CASE Crash \/ Restart
  BY <1>4 DEF Crash, Restart, Halt, Stopped
<1>5. CASE SetDrained \/ RequestPause \/ ClearPause
  BY <1>5 DEF SetDrained, RequestPause, ClearPause, local, Unmoved
<1>6. CASE UNCHANGED vars
  BY <1>6 DEF vars, local, Unmoved
<1> QED BY <1>1, <1>2, <1>3, <1>4, <1>5, <1>6 DEF Next, Drive

(* The steps that touch what the drives share.                             *)
LEMMA Shared ==
  ASSUME TypeOK, [Next]_vars
  PROVE  /\ engine' = engine
         /\ \/ ledger' = ledger
            \/ \E d \in Drivers : Commit(d)
            \/ \E k \in 0 .. Len(ledger) : Halt(k) /\ (PowerLoss \/ k = Len(ledger))
         /\ \/ store' = store
            \/ \E d \in Drivers : RecordStep(d)
         /\ \/ snapshots' = snapshots
            \/ \E d \in Drivers : AtStep(d) /\ snapshots' = snapshots \cup {at[d]}
         /\ \/ runs' = runs
            \/ \E d \in Drivers : Execute(d)
<1>1. ASSUME NEW d \in Drivers, Invocation(d) PROVE UNCHANGED <<engine, disk, runs>>
  BY <1>1 DEF Invocation, Invoke, Return
<1>2. ASSUME NEW d \in Drivers,
             Position(d) \/ Recover(d) \/ Rebuild(d) \/ Finish(d) \/ DrainAtEntry(d)
             \/ EnginePause(d) \/ RecordRaises(d) \/ CommitFails(d)
      PROVE  UNCHANGED <<engine, ledger, store, snapshots, runs>>
  BY <1>2 DEF Position, Recover, Rebuild, Finish, DrainAtEntry, EnginePause,
              RecordRaises, CommitFails, disk
<1>3. ASSUME NEW d \in Drivers, ProtocolPause(d) \/ GatePause(d)
      PROVE  /\ UNCHANGED <<engine, ledger, store>>
             /\ runs' = runs
             /\ AtStep(d) /\ snapshots' = snapshots \cup {at[d]}
  BY <1>3 DEF ProtocolPause, GatePause, Dispatching
<1>4. ASSUME NEW d \in Drivers, Dispatch(d) \/ StepFails(d)
      PROVE  /\ UNCHANGED <<engine, ledger, store, snapshots>>
             /\ runs' = runs \/ Execute(d)
  BY <1>4 DEF Dispatch, StepFails, disk
<1>5. ASSUME NEW d \in Drivers, RecordStep(d) \/ Commit(d)
      PROVE  /\ UNCHANGED <<engine, snapshots, runs>>
             /\ RecordStep(d) => ledger' = ledger
             /\ Commit(d) => store' = store
  BY <1>5 DEF RecordStep, Commit
<1>6. CASE Crash \/ Restart
  <2>1. Len(ledger) \in Nat
    BY DEF TypeOK
  <2>2. PICK k \in 0 .. Len(ledger) : Halt(k) /\ (PowerLoss \/ k = Len(ledger))
    BY <1>6, <2>1 DEF Crash, Restart
  <2> QED BY <2>2 DEF Halt
<1>7. CASE SetDrained \/ RequestPause \/ ClearPause \/ UNCHANGED vars
  BY <1>7 DEF SetDrained, RequestPause, ClearPause, vars, disk
<1>8. UNCHANGED disk => UNCHANGED <<ledger, store, snapshots>>
  BY DEF disk
<1> QED BY <1>1, <1>2, <1>3, <1>4, <1>5, <1>6, <1>7, <1>8 DEF Next, Drive

(* A step that landed stays landed.                                        *)
LEMMA LandedStays ==
  ASSUME TypeOK, PrefixInv, [Next]_vars, NEW i \in Steps, Landed(i)
  PROVE  Landed(i)'
<1> USE Bounds
<1>1. Durable' = Durable
  BY Shared DEF Durable
<1>2. runs'[i] > 0
  <2>1. ASSUME NEW d \in Drivers, Execute(d) PROVE runs'[i] >= runs[i]
    BY <2>1 DEF Execute, TypeOK, Counts
  <2>2. runs[i] \in Nat /\ runs'[i] \in Nat
    BY TypeNext DEF TypeOK, Counts, PrefixInv, StepBound
  <2> QED BY <2>1, <2>2, Shared DEF Landed
<1>3. store[i] > 0 => store'[i] > 0
  <2>1. ASSUME NEW d \in Drivers, RecordStep(d), store[i] > 0 PROVE store'[i] > 0
    <3>1. out[d] > 0 /\ store' \in {store, [store EXCEPT ![at[d]] = out[d]]}
      BY <2>1 DEF RecordStep, Record, PrefixInv
    <3> QED BY <2>1, <3>1 DEF TypeOK, Counts
  <2> QED BY <2>1, Shared
<1> QED BY <1>1, <1>2, <1>3 DEF Landed

LEMMA BehindStays ==
  ASSUME TypeOK, PrefixInv, [Next]_vars, NEW n \in Int, Behind(n)
  PROVE  Behind(n)'
BY LandedStays DEF Behind

(* Whatever the ledger holds after a step landed.                          *)
LEMMA CommittedLanded ==
  ASSUME TypeOK, PrefixInv, [Next]_vars
  PROVE  \A i \in Committed' : Landed(i)'
<1>1. ASSUME NEW i \in Committed', i \in Committed PROVE Landed(i)'
  BY <1>1, LandedStays, CommittedSteps DEF PrefixInv
<1>2. CASE ledger' = ledger
  BY <1>1, <1>2 DEF Committed
<1>3. ASSUME NEW d \in Drivers, Commit(d), NEW i \in Committed' PROVE Landed(i)'
  <2>1. at[d] \in Steps /\ Landed(at[d])
    BY <1>3, Bounds DEF Commit, PrefixInv, TypeOK, Steps
  <2>2. ledger' = ledger \/ ledger' = Append(ledger, at[d])
    BY <1>3 DEF Commit, Appended
  <2>3. i \in Committed \/ i = at[d]
    <3>1. PICK j \in DOMAIN ledger' : i = ledger'[j]
      BY DEF Committed
    <3>2. ledger \in Seq(Steps)
      BY DEF TypeOK
    <3>3. CASE ledger' = Append(ledger, at[d])
      <4>1. j \in 1 .. Len(ledger) + 1
        BY <2>1, <3>1, <3>2, <3>3, AppendProperties
      <4>2. CASE j = Len(ledger) + 1
        BY <2>1, <3>1, <3>2, <3>3, <4>2, AppendProperties
      <4>3. CASE j \in 1 .. Len(ledger)
        BY <2>1, <3>1, <3>2, <3>3, <4>3, AppendProperties DEF Committed
      <4> QED BY <3>2, <4>1, <4>2, <4>3
    <3> QED BY <2>2, <3>1, <3>3 DEF Committed
  <2> QED BY <1>1, <2>1, <2>3, LandedStays
<1>4. ASSUME NEW k \in 0 .. Len(ledger), Halt(k), NEW i \in Committed' PROVE Landed(i)'
  <2>1. ledger' = SubSeq(ledger, 1, k) /\ ledger \in Seq(Steps)
    BY <1>4 DEF Halt, TypeOK
  <2>2. i \in Committed
    BY <2>1, SubSeqProperties DEF Committed
  <2> QED BY <1>1, <2>2
<1> QED BY <1>2, <1>3, <1>4, Shared

LEMMA SnapshotsBehind ==
  ASSUME TypeOK, PrefixInv, [Next]_vars
  PROVE  snapshots \subseteq snapshots' /\ \A s \in snapshots' : Behind(s)'
<1>1. \A s \in snapshots : s \in Int /\ Behind(s)
  BY DEF TypeOK, PrefixInv, Steps
<1>2. ASSUME NEW d \in Drivers, AtStep(d) PROVE at[d] \in Int /\ Behind(at[d])
  BY <1>2 DEF TypeOK, PrefixInv, AtStep, Driving
<1>3. \A s \in snapshots' : s \in Int /\ Behind(s)
  BY <1>1, <1>2, Shared
<1> QED BY <1>3, BehindStays, Shared

LEMMA PositionBehind ==
  ASSUME TypeOK, PrefixInv, NEW d \in Drivers, Position(d)
  PROVE  Behind(at'[d])
<1>1. PICK k \in ResumeAt(snap[d]) : at' = [at EXCEPT ![d] = k]
  BY DEF Position
<1>2. at'[d] = k
  BY <1>1 DEF TypeOK
<1>3. CASE snap[d] # None
  BY <1>1, <1>2, <1>3 DEF ResumeAt, Position, PrefixInv
<1>4. CASE snap[d] = None /\ Durable
  <2>1. k \in 0 .. NSteps /\ \A i \in 0 .. k - 1 : i \in Committed
    BY <1>1, <1>4 DEF ResumeAt, FirstMissing
  <2>2. \A i \in Steps : i < k => i \in 0 .. k - 1
    BY <2>1, Bounds DEF Steps
  <2> QED BY <1>2, <2>1, <2>2 DEF Behind, PrefixInv
<1>5. CASE snap[d] = None /\ ~Durable
  BY <1>1, <1>2, <1>5, Bounds DEF ResumeAt, Behind, Steps
<1> QED BY <1>3, <1>4, <1>5

(* A driver keeps its place in the run, or moves to one that landed.       *)
LEMMA DrivingBehind ==
  ASSUME TypeOK, PrefixInv, [Next]_vars, NEW d \in Drivers, pc'[d] \in Driving
  PROVE  Behind(at[d])'
<1>1. Behind(at'[d])
  <2>1. CASE pc[d] \in Driving /\ at'[d] = at[d]
    BY <2>1 DEF PrefixInv
  <2>2. CASE Position(d)
    BY <2>2, PositionBehind
  <2>3. CASE Commit(d)
    <3>1. Behind(at[d]) /\ Landed(at[d]) /\ at'[d] = at[d] + 1 /\ at[d] \in Int
      BY <2>3 DEF Commit, PrefixInv, Driving, NextStep, TypeOK
    <3>2. \A i \in Steps : i < at[d] + 1 => i < at[d] \/ i = at[d]
      BY <3>1, Bounds DEF Steps
    <3> QED BY <3>1, <3>2 DEF Behind
  <2>4. CASE Invocation(d)
    BY <2>4 DEF Invocation, Invoke, Return, GoTo, TypeOK, Driving
  <2>5. CASE Recover(d) \/ Rebuild(d) \/ Dispatch(d) \/ RecordStep(d)
    <3>1. pc[d] \in Driving /\ at' = at
      BY <2>5 DEF Recover, Rebuild, Dispatch, Dispatching, AtStep, RecordStep, Record,
         Driving
    <3> QED BY <2>1, <3>1
  <2>6. CASE \/ Finish(d) \/ DrainAtEntry(d) \/ EnginePause(d) \/ ProtocolPause(d)
             \/ StepFails(d) \/ GatePause(d) \/ RecordRaises(d) \/ CommitFails(d)
    <3>1. pc'[d] = "idle"
      BY <2>6 DEF Finish, DrainAtEntry, EnginePause, ProtocolPause, StepFails, GatePause,
                  RecordRaises, CommitFails, Return, TypeOK
    <3> QED BY <3>1 DEF Driving
  <2>7. CASE Unmoved(d)
    BY <2>1, <2>7 DEF Unmoved
  <2>8. CASE Stopped(d)
    BY <2>8 DEF Stopped, Driving
  <2> QED BY <2>2, <2>3, <2>4, <2>5, <2>6, <2>7, <2>8, Locality DEF Drive
<1>2. at'[d] \in Int
  <2>1. StepBound
    BY DEF PrefixInv, StepBound
  <2>2. TypeOK'
    BY <2>1, TypeNext
  <2> QED BY <2>2, Bounds DEF TypeOK
<1>3. ASSUME NEW i \in Steps, i < at'[d] PROVE Landed(i)'
  BY <1>1, <1>3, LandedStays DEF Behind
<1> QED BY <1>3 DEF Behind

(* The place between the dispatch of a step and its commit.                *)
LEMMA ExecutedNext ==
  ASSUME TypeOK, PrefixInv, [Next]_vars, NEW d \in Drivers,
         pc'[d] \in {"record", "append"}
  PROVE  /\ at'[d] < NSteps /\ runs'[at'[d]] > 0 /\ out'[d] > 0
         /\ pc'[d] = "append" => Landed(at[d])'
<1> USE Bounds
<1>0. Durable' = Durable
  BY Shared DEF Durable
<1>1. CASE Dispatch(d)
  <2>1. at[d] \in Steps /\ at' = at /\ pc'[d] = "record"
    BY <1>1 DEF Dispatch, Dispatching, AtStep, TypeOK, Steps, GoTo
  <2>2. runs'[at[d]] > 0
    BY <1>1, <2>1 DEF Dispatch, Execute, TypeOK, Counts
  <2>3. out'[d] = runs'[at[d]]
    BY <1>1, <2>1 DEF Dispatch, TypeOK
  <2> QED BY <2>1, <2>2, <2>3 DEF Steps
<1>2. CASE RecordStep(d)
  <2>1. /\ pc[d] = "record" /\ pc'[d] = "append"
        /\ UNCHANGED <<at, out, runs>>
    BY <1>2 DEF RecordStep, Record, GoTo, TypeOK
  <2>2. at[d] \in Steps /\ runs[at[d]] > 0 /\ out[d] > 0
    BY <2>1 DEF PrefixInv, TypeOK, Steps
  <2>3. Durable /\ Store => store'[at[d]] > 0
    BY <1>2, <2>2 DEF RecordStep, Record, TypeOK, Counts
  <2> QED BY <1>0, <2>1, <2>2, <2>3 DEF Landed, Steps
<1>3. CASE Unmoved(d)
  <2>1. /\ pc[d] \in {"record", "append"} /\ at'[d] = at[d] /\ out'[d] = out[d]
        /\ pc'[d] = pc[d]
    BY <1>3 DEF Unmoved
  <2>2. /\ at[d] \in Steps /\ runs[at[d]] > 0 /\ out[d] > 0
        /\ pc[d] = "append" => Landed(at[d])
    BY <2>1 DEF PrefixInv, TypeOK, Steps
  <2>3. runs'[at[d]] > 0
    <3>1. ASSUME NEW e \in Drivers, Execute(e) PROVE runs'[at[d]] > 0
      BY <2>2, <3>1 DEF Execute, TypeOK, Counts
    <3> QED BY <2>2, <3>1, Shared
  <2>4. pc[d] = "append" => Landed(at[d])'
    <3>1. SUFFICES ASSUME pc[d] = "append" PROVE Landed(at[d])'
      OBVIOUS
    <3>2. PICK i \in Steps : i = at[d] /\ Landed(i)
      BY <2>2, <3>1
    <3>3. Landed(i)'
      BY <3>2, LandedStays
    <3> QED BY <2>1, <3>2, <3>3
  <2> QED BY <2>1, <2>2, <2>3, <2>4 DEF Steps
<1>4. CASE \/ Finish(d) \/ DrainAtEntry(d) \/ EnginePause(d) \/ ProtocolPause(d)
           \/ StepFails(d) \/ GatePause(d) \/ RecordRaises(d) \/ CommitFails(d)
  BY <1>4 DEF Finish, DrainAtEntry, EnginePause, ProtocolPause, StepFails, GatePause,
              RecordRaises, CommitFails, Return, TypeOK
<1>5. CASE Invocation(d) \/ Position(d)
  BY <1>5 DEF Invocation, Invoke, Position, Return, GoTo, TypeOK
<1>6. CASE Recover(d) \/ Rebuild(d) \/ Commit(d)
  BY <1>6 DEF Recover, Claim, Rebuild, Commit, Return, GoTo, TypeOK
<1>7. CASE Stopped(d)
  BY <1>7 DEF Stopped
<1> QED BY <1>1, <1>2, <1>3, <1>4, <1>5, <1>6, <1>7, Locality DEF Drive

LEMMA PrefixNext == TypeOK /\ PrefixInv /\ [Next]_vars => PrefixInv'
<1> SUFFICES ASSUME TypeOK, PrefixInv, [Next]_vars PROVE PrefixInv'
  OBVIOUS
<1>1. ASSUME NEW d \in Drivers, pc'[d] = "position", snap'[d] # None
      PROVE  snap'[d] \in snapshots'
  <2>1. CASE Invocation(d)
    BY <1>1, <2>1, SnapshotsBehind DEF Invocation, Invoke, TypeOK
  <2>2. CASE Unmoved(d)
    BY <1>1, <2>2, SnapshotsBehind DEF Unmoved, PrefixInv
  <2>3. CASE Drive(d)
    <3>1. pc'[d] # "position"
      <4>1. CASE \/ Finish(d) \/ DrainAtEntry(d) \/ EnginePause(d) \/ ProtocolPause(d)
                 \/ StepFails(d) \/ GatePause(d) \/ RecordRaises(d) \/ CommitFails(d)
        BY <4>1 DEF Finish, DrainAtEntry, EnginePause, ProtocolPause, StepFails,
                    GatePause, RecordRaises, CommitFails, Return, TypeOK
      <4>2. CASE Position(d) \/ Dispatch(d) \/ RecordStep(d)
        BY <4>2 DEF Position, Dispatch, RecordStep, Record, GoTo, TypeOK
      <4>3. CASE Recover(d) \/ Rebuild(d) \/ Commit(d)
        BY <4>3 DEF Recover, Claim, Rebuild, Commit, Return, GoTo, TypeOK
      <4> QED BY <2>3, <4>1, <4>2, <4>3 DEF Drive
    <3> QED BY <1>1, <3>1
  <2>4. CASE Stopped(d)
    BY <1>1, <2>4 DEF Stopped
  <2> QED BY <2>1, <2>2, <2>3, <2>4, Locality
<1> QED BY <1>1, CommittedLanded, SnapshotsBehind, DrivingBehind, ExecutedNext DEF PrefixInv

(* The inductive invariant.                                                *)
IInv == TypeOK /\ PrefixInv

LEMMA IInvHolds == Spec => []IInv
<1>1. Init => IInv
  <2> SUFFICES ASSUME Init PROVE PrefixInv
    BY TypeInit DEF IInv
  <2>1. Committed = {}
    BY DEF Init, Committed
  <2> QED BY <2>1 DEF Init, PrefixInv, Driving
<1>2. IInv /\ [Next]_vars => IInv'
  <2>1. PrefixInv => StepBound
    BY DEF PrefixInv, StepBound
  <2> QED BY <2>1, TypeNext, PrefixNext DEF IInv
<1> QED BY <1>1, <1>2, PTL DEF Spec

(* Type correctness, for any number of drivers and steps.                  *)
THEOREM TypeCorrect == Spec => []TypeOK
<1>1. IInv => TypeOK
  BY DEF IInv
<1> QED BY <1>1, IInvHolds, PTL

(* RESERVE before COMMIT: the output journal (fsync-ed) is never behind    *)
(* the ledger (not fsync-ed), through crashes, power losses, drains,       *)
(* pauses and any number of drives of the same run.                        *)
THEOREM StoreThm == Spec => []StoreCoversLedger
<1>1. IInv => StoreCoversLedger
  BY DEF IInv, PrefixInv, Landed, StoreCoversLedger
<1> QED BY <1>1, IInvHolds, PTL

-----------------------------------------------------------------------------
(* What a drive returns.                                                   *)

InLoop == {"entry", "record", "append"}

(* The accumulated state has the output of every step before n.            *)
Filled(d, n) == Durable /\ Store => \A i \in Steps : i < n => acc[d][i] > 0

LoopInv ==
  \A d \in Drivers :
    /\ pc[d] \in InLoop => Filled(d, at[d])
    /\ result[d].fail # "missing-output"
    /\ pc[d] # "idle" => result[d].status # "SUCCESS"
    /\ result[d].status = "SUCCESS" => Behind(NSteps) /\ Filled(d, NSteps)

(* Behind its position a driver finds no gap in the journal.               *)
LEMMA NoSkew ==
  ASSUME IInv, NEW d \in Drivers, pc[d] \in Driving
  PROVE  ~(Durable /\ Skewed(at[d]))
<1>1. SUFFICES ASSUME Durable, Skewed(at[d]) PROVE FALSE
  OBVIOUS
<1>2. PICK i \in 0 .. at[d] - 1 : store[i] = 0
  BY <1>1 DEF Skewed
<1>3. at[d] \in 0 .. NSteps
  BY DEF IInv, TypeOK
<1>4. i \in Steps /\ i < at[d]
  BY <1>3, Bounds DEF Steps
<1> QED BY <1>1, <1>2, <1>4 DEF IInv, PrefixInv, Behind, Landed, Skewed

LEMMA RebuildFills ==
  ASSUME IInv, NEW d \in Drivers, Rebuild(d)
  PROVE  /\ acc' = [acc EXCEPT ![d] = IF Durable THEN Prefix(at[d]) ELSE Nothing]
         /\ channel' = [channel EXCEPT ![d] = Rehydrated(d)]
         /\ pc' = [pc EXCEPT ![d] = "entry"]
         /\ UNCHANGED <<at, snap, lease, result>>
         /\ Durable /\ Store =>
              \A i \in Steps : i < at[d] => Prefix(at[d])[i] > 0
<1>1. ~(Durable /\ Skewed(at[d]))
  BY NoSkew DEF Rebuild, Driving
<1>2. Behind(at[d])
  BY DEF Rebuild, IInv, PrefixInv, Driving
<1> QED BY <1>1, <1>2 DEF Rebuild, GoTo, Behind, Landed, Prefix

LEMMA LoopNext == IInv /\ LoopInv /\ [Next]_vars => LoopInv'
<1> SUFFICES ASSUME IInv, LoopInv, [Next]_vars, NEW d \in Drivers
             PROVE  /\ pc'[d] \in InLoop => Filled(d, at[d])'
                    /\ result'[d].fail # "missing-output"
                    /\ pc'[d] # "idle" => result'[d].status # "SUCCESS"
                    /\ result'[d].status = "SUCCESS"
                         => Behind(NSteps)' /\ Filled(d, NSteps)'
  BY DEF LoopInv
<1> USE Bounds
<1>0. TypeOK /\ PrefixInv /\ Durable' = Durable
  BY Shared DEF IInv, Durable
<1>1. Behind(NSteps) => Behind(NSteps)'
  BY <1>0, BehindStays
<1>2. CASE Invocation(d)
  BY <1>0, <1>2 DEF Invocation, Invoke, Return, GoTo, TypeOK, InLoop, NoResult
<1>3. CASE Position(d) \/ Recover(d)
  BY <1>0, <1>3 DEF Position, Recover, Claim, Return, GoTo, TypeOK, InLoop, LoopInv
<1>4. CASE Rebuild(d)
  <2>1. /\ acc'[d] = IF Durable THEN Prefix(at[d]) ELSE Nothing
        /\ pc'[d] = "entry" /\ UNCHANGED <<at, result>>
        /\ Durable /\ Store => \A i \in Steps : i < at[d] => Prefix(at[d])[i] > 0
    BY <1>0, <1>4, RebuildFills DEF TypeOK
  <2>2. pc[d] # "idle"
    BY <1>4 DEF Rebuild
  <2> QED BY <1>0, <2>1, <2>2 DEF LoopInv, Filled
<1>5. CASE Finish(d)
  <2>1. /\ result'[d] = [status |-> "SUCCESS", terminal |-> None, fail |-> "none"]
        /\ pc'[d] = "idle" /\ UNCHANGED acc
    BY <1>0, <1>5 DEF Finish, Return, TypeOK
  <2>2. Behind(NSteps) /\ Filled(d, NSteps)
    BY <1>0, <1>5 DEF Finish, PrefixInv, LoopInv, Driving, InLoop
  <2> QED BY <1>0, <1>1, <2>1, <2>2 DEF Filled, InLoop
<1>6. CASE \/ DrainAtEntry(d) \/ EnginePause(d) \/ ProtocolPause(d)
           \/ StepFails(d) \/ GatePause(d) \/ RecordRaises(d) \/ CommitFails(d)
  <2>1. /\ pc'[d] = "idle"
        /\ result'[d].fail # "missing-output" /\ result'[d].status # "SUCCESS"
    <3>1. \/ Return(d, "DRAINED", at[d] - 1, "none")
          \/ Return(d, "PAUSED", at[d] - 1, "none")
          \/ Return(d, "FAILED", at[d], "step-failure")
          \/ Return(d, "FAILED", at[d], "ledger-append-failed")
          \/ Return(d, "raised", None, "none")
      BY <1>6 DEF DrainAtEntry, EnginePause, ProtocolPause, StepFails, GatePause,
                  RecordRaises, CommitFails
    <3> QED BY <1>0, <3>1 DEF Return, TypeOK
  <2> QED BY <2>1 DEF InLoop
<1>7. CASE Dispatch(d) \/ RecordStep(d)
  <2>1. pc[d] \in InLoop /\ pc'[d] # "idle" /\ UNCHANGED <<at, acc, result>>
    BY <1>0, <1>7 DEF Dispatch, Dispatching, AtStep, RecordStep, Record, GoTo, TypeOK,
       InLoop
  <2>2. pc[d] # "idle"
    BY <2>1 DEF InLoop
  <2> QED BY <1>0, <2>1, <2>2 DEF LoopInv, Filled
<1>8. CASE Commit(d)
  <2>1. /\ at'[d] = at[d] + 1 /\ at[d] \in Steps /\ out[d] > 0
        /\ acc'[d] = [acc[d] EXCEPT ![at[d]] = out[d]]
    BY <1>0, <1>8 DEF Commit, NextStep, PrefixInv, TypeOK, Steps
  <2>2. Filled(d, at[d]) /\ acc[d] \in Counts
    BY <1>0, <1>8 DEF Commit, LoopInv, InLoop, TypeOK
  <2>3. Filled(d, at[d])'
    BY <1>0, <2>1, <2>2 DEF Filled, Counts, Steps
  <2>4. result'[d].fail # "missing-output" /\ result'[d].status # "SUCCESS"
    BY <1>0, <1>8 DEF Commit, Return, LoopInv, TypeOK
  <2> QED BY <2>3, <2>4
<1>9. CASE Unmoved(d)
  BY <1>0, <1>1, <1>9 DEF Unmoved, LoopInv, Filled
<1>10. CASE Stopped(d)
  BY <1>10 DEF Stopped, NoResult, InLoop
<1> QED BY <1>0, <1>2, <1>3, <1>4, <1>5, <1>6, <1>7, <1>8, <1>9, <1>10, Locality DEF Drive

LEMMA LoopInvHolds == Spec => []LoopInv
<1>1. Init => LoopInv
  <2> SUFFICES ASSUME Init, NEW d \in Drivers
               PROVE  /\ pc[d] = "idle"
                      /\ result[d].fail = "none" /\ result[d].status = "none"
    BY DEF LoopInv, InLoop
  <2>1. pc[d] = "idle" /\ result[d] = NoResult
    BY DEF Init
  <2> QED BY <2>1 DEF NoResult
<1> QED BY <1>1, LoopNext, IInvHolds, PTL DEF Spec

(* The driver never fails closed on a journal that lags the ledger: that   *)
(* check of the code only fires when others wrote to the files.           *)
THEOREM NeverSkewedThm == Spec => []NeverSkewed
<1>1. LoopInv => NeverSkewed
  BY DEF LoopInv, NeverSkewed
<1> QED BY <1>1, LoopInvHolds, PTL

(* A successful run executed every step, however many drives it took.      *)
THEOREM SuccessThm == Spec => []SuccessMeansAllRan
<1>1. LoopInv => SuccessMeansAllRan
  BY Bounds DEF LoopInv, SuccessMeansAllRan, Behind, Landed, Steps
<1> QED BY <1>1, LoopInvHolds, PTL

(* The final state of a resumed run lacks no output.                       *)
THEOREM FinalStateThm == Spec => []FinalStateIsWhole
<1>1. LoopInv => FinalStateIsWhole
  BY Bounds DEF LoopInv, FinalStateIsWhole, Filled, Steps
<1> QED BY <1>1, LoopInvHolds, PTL

-----------------------------------------------------------------------------
(* What a step finds in the channel.                                       *)

Upstream(d) == at[d] > 0 /\ (snap[d] = None \/ at[d] > snap[d])

ChannelInv ==
  Replays /\ Channel /\ Store =>
    \A d \in Drivers :
      /\ pc[d] \in {"recover", "rebuild"} /\ snap[d] # None => at[d] = snap[d]
      /\ pc[d] \in InLoop /\ Upstream(d) => channel[d][at[d] - 1] > 0

LEMMA ChannelNext == IInv /\ ChannelInv /\ [Next]_vars => ChannelInv'
<1> SUFFICES ASSUME IInv, ChannelInv, [Next]_vars PROVE ChannelInv'
  OBVIOUS
<1>1. Replays' = Replays
  BY Shared DEF IInv, Replays
<1> SUFFICES ASSUME Replays, Channel, Store, NEW d \in Drivers
             PROVE  /\ pc'[d] \in {"recover", "rebuild"} /\ snap'[d] # None
                         => at'[d] = snap'[d]
                    /\ pc'[d] \in InLoop /\ Upstream(d)'
                         => channel'[d][at'[d] - 1] > 0
  BY <1>1 DEF ChannelInv
<1> USE Bounds
<1>0. TypeOK /\ PrefixInv /\ Durable
  BY DEF IInv, Replays, Durable
<1>2. CASE Invocation(d)
  BY <1>0, <1>2 DEF Invocation, Invoke, Return, GoTo, TypeOK, InLoop
<1>3. CASE Position(d)
  <2>1. PICK k \in ResumeAt(snap[d]) : at' = [at EXCEPT ![d] = k]
    BY <1>3 DEF Position
  <2>2. /\ pc'[d] = "recover" /\ at'[d] = k /\ snap'[d] = snap[d]
    BY <1>0, <1>3, <2>1 DEF Position, GoTo, TypeOK
  <2> QED BY <2>1, <2>2 DEF ResumeAt, InLoop
<1>4. CASE Recover(d)
  <2>1. /\ pc[d] = "recover" /\ pc'[d] \in {"rebuild", "idle"}
        /\ UNCHANGED <<at, snap>>
    BY <1>0, <1>4 DEF Recover, Claim, Return, GoTo, TypeOK
  <2> QED BY <2>1 DEF ChannelInv, InLoop
<1>5. CASE Rebuild(d)
  <2>1. /\ channel'[d] = Rehydrated(d) /\ pc'[d] = "entry"
        /\ UNCHANGED <<at, snap>> /\ pc[d] = "rebuild"
        /\ \A i \in Steps : i < at[d] => Prefix(at[d])[i] > 0
    BY <1>0, <1>5, RebuildFills DEF Rebuild, TypeOK
  <2>2. ASSUME Upstream(d) PROVE channel'[d][at[d] - 1] > 0
    <3>1. snap[d] = None /\ at[d] > 0 /\ at[d] \in 0 .. NSteps
      BY <1>0, <2>1, <2>2 DEF Upstream, ChannelInv, TypeOK, None
    <3>2. at[d] - 1 \in Steps /\ at[d] - 1 < at[d]
      BY <3>1 DEF Steps
    <3> QED BY <2>1, <3>1, <3>2 DEF Rehydrated
  <2> QED BY <2>1, <2>2 DEF Upstream
<1>6. CASE \/ Finish(d) \/ DrainAtEntry(d) \/ EnginePause(d) \/ ProtocolPause(d)
           \/ StepFails(d) \/ GatePause(d) \/ RecordRaises(d) \/ CommitFails(d)
  BY <1>0, <1>6 DEF Finish, DrainAtEntry, EnginePause, ProtocolPause, StepFails,
     GatePause,
              RecordRaises, CommitFails, Return, TypeOK, InLoop
<1>7. CASE Dispatch(d) \/ RecordStep(d)
  <2>1. /\ pc[d] \in InLoop /\ pc'[d] \in InLoop
        /\ UNCHANGED <<at, snap, channel>>
    BY <1>0, <1>7 DEF Dispatch, Dispatching, AtStep, RecordStep, Record, GoTo, TypeOK,
       InLoop
  <2> QED BY <2>1 DEF ChannelInv, Upstream, InLoop
<1>8. CASE Commit(d)
  <2>1. /\ at'[d] = at[d] + 1 /\ at[d] \in Steps /\ out[d] > 0
        /\ channel'[d] = [channel[d] EXCEPT ![at[d]] = out[d]]
        /\ pc'[d] \in {"entry", "idle"}
    BY <1>0, <1>8 DEF Commit, NextStep, PrefixInv, Return, GoTo, TypeOK, Steps
  <2>2. channel'[d][at[d]] = out[d]
    BY <1>0, <2>1 DEF TypeOK, Counts
  <2> QED BY <2>1, <2>2 DEF Steps
<1>9. CASE Unmoved(d)
  BY <1>9 DEF Unmoved, ChannelInv, Upstream
<1>10. CASE Stopped(d)
  BY <1>10 DEF Stopped, InLoop
<1> QED BY <1>2, <1>3, <1>4, <1>5, <1>6, <1>7, <1>8, <1>9, <1>10, Locality, <1>0 DEF Drive

(* Under a replaying engine class a step is never dispatched without the   *)
(* output of the step before it, unless it is the first of a snapshot      *)
(* resume.                                                                 *)
THEOREM UpstreamThm == Spec => []UpstreamVisible
<1>1. Init => ChannelInv
  BY DEF Init, ChannelInv, InLoop
<1>2. ChannelInv => UpstreamVisible
  BY DEF ChannelInv, UpstreamVisible, InLoop, Upstream
<1> QED BY <1>1, <1>2, ChannelNext, IInvHolds, PTL DEF Spec

-----------------------------------------------------------------------------
(* No two drives under one revision of a reconciler run.                   *)

LeaseInv ==
  /\ \A d \in Drivers : lease[d] > 0 => lease[d] \in claimed
  /\ LeaseIsExclusive

LEMMA LeaseNext == IInv /\ LeaseInv /\ [Next]_vars => LeaseInv'
<1> SUFFICES ASSUME IInv, LeaseInv, [Next]_vars PROVE LeaseInv'
  OBVIOUS
<1>0. TypeOK
  BY DEF IInv
<1>1. ASSUME NEW d \in Drivers,
             lease' = [lease EXCEPT ![d] = 0] \/ lease' = lease,
             claimed' = claimed
      PROVE  LeaseInv'
  <2>1. \A e \in Drivers : lease'[e] = lease[e] \/ lease'[e] = 0
    BY <1>0, <1>1 DEF TypeOK
  <2> QED BY <1>1, <2>1 DEF LeaseInv, LeaseIsExclusive
<1>2. ASSUME NEW d \in Drivers, Recover(d) PROVE LeaseInv'
  <2>1. \/ /\ lease' = [lease EXCEPT ![d] = 0] \/ lease' = lease
           /\ claimed' = claimed
        \/ /\ pauses \notin claimed /\ pauses > 0
           /\ claimed' = claimed \cup {pauses}
           /\ lease' = [lease EXCEPT ![d] = pauses]
    BY <1>2 DEF Recover, Claim, Return
  <2>2. CASE /\ pauses \notin claimed /\ pauses > 0
             /\ claimed' = claimed \cup {pauses}
             /\ lease' = [lease EXCEPT ![d] = pauses]
    <3>1. \A e \in Drivers : lease'[e] = IF e = d THEN pauses ELSE lease[e]
      BY <1>0, <2>2 DEF TypeOK
    <3> QED BY <2>2, <3>1 DEF LeaseInv, LeaseIsExclusive
  <2> QED BY <1>1, <2>1, <2>2
<1>3. ASSUME NEW d \in Drivers,
             \/ Invocation(d) \/ Position(d) \/ Rebuild(d) \/ Finish(d) \/ DrainAtEntry(d)
             \/ EnginePause(d) \/ ProtocolPause(d) \/ Dispatch(d) \/ StepFails(d)
             \/ GatePause(d) \/ RecordStep(d) \/ RecordRaises(d) \/ Commit(d)
             \/ CommitFails(d)
      PROVE  LeaseInv'
  <2>1. claimed' = claimed
    BY <1>3 DEF Invocation, Invoke, Position, Rebuild, Finish, DrainAtEntry, EnginePause,
         ProtocolPause, Dispatch, StepFails, GatePause, RecordStep, RecordRaises, Commit,
         CommitFails, disk
  <2>2. lease' = [lease EXCEPT ![d] = 0] \/ lease' = lease
    BY <1>3 DEF Invocation, Invoke, Position, Rebuild, Finish, DrainAtEntry, EnginePause,
         ProtocolPause, Dispatch, StepFails, GatePause, RecordStep, RecordRaises, Commit,
         CommitFails, Return
  <2> QED BY <1>1, <2>1, <2>2
<1>4. CASE Crash \/ Restart
  <2>1. claimed' = claimed /\ lease' = [d \in Drivers |-> 0]
    BY <1>4 DEF Crash, Restart, Halt
  <2> QED BY <2>1 DEF LeaseInv, LeaseIsExclusive
<1>5. CASE SetDrained \/ RequestPause \/ ClearPause \/ UNCHANGED vars
  <2>1. claimed' = claimed /\ lease' = lease
    BY <1>5 DEF SetDrained, RequestPause, ClearPause, vars, disk, local
  <2> QED BY <2>1 DEF LeaseInv, LeaseIsExclusive
<1> QED BY <1>2, <1>3, <1>4, <1>5 DEF Next, Drive

(* The claim file makes a resume of a reconciler run exclusive, also for   *)
(* a revision that is paused at, resumed and re-driven many times.         *)
THEOREM LeaseThm == Spec => []LeaseIsExclusive
<1>1. Init => LeaseInv
  BY DEF Init, LeaseInv, LeaseIsExclusive
<1>2. LeaseInv => LeaseIsExclusive
  BY DEF LeaseInv
<1> QED BY <1>1, <1>2, LeaseNext, IInvHolds, PTL DEF Spec

-----------------------------------------------------------------------------
(* The order of the ledger.                                                *)

OrderInv ==
  ~PowerLoss =>
    /\ \A j \in DOMAIN ledger : ledger[j] = j - 1
    /\ \A s \in snapshots : s <= Len(ledger)
    /\ \A d \in Drivers :
         /\ pc[d] \in Driving => at[d] <= Len(ledger)
         /\ result[d].status \in {"DRAINED", "PAUSED"} =>
              result[d].terminal < Len(ledger)

(* In an ordered ledger, i is there exactly if it is below the length.     *)
LEMMA Ordered ==
  ASSUME TypeOK, \A j \in DOMAIN ledger : ledger[j] = j - 1, NEW i \in Nat
  PROVE  i \in Committed <=> i < Len(ledger)
<1>1. DOMAIN ledger = 1 .. Len(ledger) /\ Len(ledger) \in Nat
  BY DEF TypeOK
<1>2. ASSUME i \in Committed PROVE i < Len(ledger)
  BY <1>1, <1>2 DEF Committed
<1>3. ASSUME i < Len(ledger) PROVE i \in Committed
  <2>1. i + 1 \in DOMAIN ledger /\ ledger[i + 1] = i
    BY <1>1, <1>3
  <2> QED BY <2>1 DEF Committed
<1> QED BY <1>2, <1>3

(* The ledger stays ordered, and only grows.                               *)
LEMMA LedgerNext ==
  ASSUME IInv, OrderInv, [Next]_vars, ~PowerLoss
  PROVE  /\ \A j \in DOMAIN ledger' : ledger'[j] = j - 1
         /\ Len(ledger) \in Nat /\ Len(ledger') \in Nat
         /\ Len(ledger) <= Len(ledger')
         /\ \A d \in Drivers : Commit(d) => at[d] < Len(ledger')
<1> USE Bounds
<1>0. /\ TypeOK /\ PrefixInv /\ ledger \in Seq(Steps) /\ Len(ledger) \in Nat
      /\ \A j \in DOMAIN ledger : ledger[j] = j - 1
  BY DEF IInv, TypeOK, OrderInv
<1>1. ASSUME NEW d \in Drivers, Commit(d)
      PROVE  /\ at[d] \in Steps /\ at[d] <= Len(ledger)
             /\ ledger' = Appended(at[d])
  BY <1>0, <1>1 DEF Commit, OrderInv, PrefixInv, Driving, TypeOK, Steps
<1>2. ASSUME NEW d \in Drivers, Commit(d)
      PROVE  /\ \A j \in DOMAIN ledger' : ledger'[j] = j - 1
             /\ Len(ledger') \in Nat /\ Len(ledger) <= Len(ledger')
             /\ at[d] < Len(ledger')
  <2>1. CASE at[d] \in Committed
    <3>1. ledger' = ledger /\ at[d] \in Nat
      BY <1>1, <1>2, <2>1 DEF Appended, Steps
    <3> QED BY <1>0, <2>1, <3>1, Ordered
  <2>2. CASE at[d] \notin Committed
    <3>1. ledger' = Append(ledger, at[d])
      BY <1>1, <1>2, <2>2 DEF Appended
    <3>2. at[d] \in Nat /\ ~(at[d] < Len(ledger))
      BY <1>0, <1>1, <1>2, <2>2, Ordered DEF Steps
    <3>3. at[d] = Len(ledger)
      BY <1>0, <1>1, <1>2, <3>2
    <3>4. /\ Len(ledger') = Len(ledger) + 1 /\ DOMAIN ledger' = 1 .. Len(ledger) + 1
          /\ \A j \in 1 .. Len(ledger) : ledger'[j] = ledger[j]
          /\ ledger'[Len(ledger) + 1] = at[d]
      BY <1>0, <1>1, <1>2, <3>1, AppendProperties
    <3>5. ASSUME NEW j \in DOMAIN ledger' PROVE ledger'[j] = j - 1
      <4>1. CASE j = Len(ledger) + 1
        BY <1>0, <3>3, <3>4, <4>1
      <4>2. CASE j \in 1 .. Len(ledger)
        BY <1>0, <3>4, <4>2
      <4> QED BY <1>0, <3>4, <3>5, <4>1, <4>2
    <3> QED BY <1>0, <3>3, <3>4, <3>5
  <2> QED BY <2>1, <2>2
<1>3. ASSUME NEW k \in 0 .. Len(ledger), Halt(k), k = Len(ledger) PROVE ledger' = ledger
  <2>1. ledger' = SubSeq(ledger, 1, Len(ledger))
    BY <1>3 DEF Halt
  <2> QED BY <1>0, <2>1
<1>4. ledger' = ledger \/ \E d \in Drivers : Commit(d)
  BY <1>0, <1>3, Shared
<1>5. CASE \E d \in Drivers : Commit(d)
  BY <1>0, <1>2, <1>5
<1>6. CASE ledger' = ledger /\ ~\E d \in Drivers : Commit(d)
  BY <1>0, <1>6
<1> QED BY <1>4, <1>5, <1>6

LEMMA OrderNext == IInv /\ OrderInv /\ [Next]_vars => OrderInv'
<1> SUFFICES ASSUME IInv, OrderInv, [Next]_vars, ~PowerLoss PROVE OrderInv'
  BY DEF OrderInv
<1> USE Bounds
<1>0. TypeOK /\ PrefixInv
  BY DEF IInv
<1>1. ASSUME NEW s \in snapshots' PROVE s <= Len(ledger')
  <2>1. ASSUME NEW d \in Drivers, AtStep(d) PROVE at[d] \in Int /\ at[d] <= Len(ledger)
    BY <1>0, <2>1 DEF AtStep, OrderInv, Driving, TypeOK
  <2>2. \A t \in snapshots : t \in Int /\ t <= Len(ledger)
    BY <1>0 DEF OrderInv, TypeOK, Steps
  <2>3. s \in Int /\ s <= Len(ledger)
    BY <1>0, <1>1, <2>1, <2>2, Shared
  <2> QED BY <2>3, LedgerNext
<1>2. ASSUME NEW d \in Drivers
      PROVE  /\ pc'[d] \in Driving => at'[d] <= Len(ledger')
             /\ result'[d].status \in {"DRAINED", "PAUSED"} =>
                  result'[d].terminal < Len(ledger')
  <2>0. /\ Len(ledger) \in Nat /\ Len(ledger') \in Nat /\ Len(ledger) <= Len(ledger')
        /\ at[d] \in 0 .. NSteps
        /\ result[d].terminal \in Int
    BY <1>0, LedgerNext DEF TypeOK, Results, Steps, None
  <2>1. CASE Invocation(d)
    <3>1. \/ Return(d, "DRAINED", None, "none")
          \/ /\ pc' = [pc EXCEPT ![d] = "position"]
             /\ result' = [result EXCEPT ![d] = NoResult]
      BY <2>1 DEF Invocation, Invoke, GoTo
    <3> QED BY <1>0, <2>0, <3>1 DEF Return, TypeOK, Driving, NoResult, None
  <2>2. CASE Position(d)
    <3>1. PICK k \in ResumeAt(snap[d]) : at' = [at EXCEPT ![d] = k]
      BY <2>2 DEF Position
    <3>2. at'[d] = k /\ result' = result
      BY <1>0, <2>2, <3>1 DEF Position, TypeOK
    <3>3. k \in Int /\ k <= Len(ledger)
      <4>1. CASE snap[d] # None
        BY <1>0, <2>2, <3>1, <4>1 DEF ResumeAt, Position, PrefixInv, OrderInv, TypeOK,
           Steps
      <4>2. CASE snap[d] = None /\ Durable
        <5>1. k \in 0 .. NSteps /\ \A i \in 0 .. k - 1 : i \in Committed
          BY <3>1, <4>2 DEF ResumeAt, FirstMissing
        <5>2. ASSUME k > Len(ledger) PROVE FALSE
          <6>1. Len(ledger) \in Committed
            BY <2>0, <5>1, <5>2
          <6> QED BY <1>0, <2>0, <6>1, Ordered DEF OrderInv
        <5> QED BY <2>0, <5>1, <5>2
      <4>3. CASE snap[d] = None /\ ~Durable
        BY <2>0, <3>1, <4>3 DEF ResumeAt
      <4> QED BY <4>1, <4>2, <4>3
    <3> QED BY <2>0, <3>2, <3>3 DEF OrderInv
  <2>3. CASE Commit(d)
    <3>1. /\ at'[d] = at[d] + 1 /\ at[d] < Len(ledger')
          /\ result' = result \/ Return(d, "DRAINED", at[d], "none")
      BY <1>0, <2>3, LedgerNext DEF Commit, NextStep, TypeOK
    <3> QED BY <1>0, <2>0, <3>1 DEF Return, TypeOK, OrderInv
  <2>4. CASE \/ Finish(d) \/ DrainAtEntry(d) \/ EnginePause(d) \/ ProtocolPause(d)
             \/ StepFails(d) \/ GatePause(d) \/ RecordRaises(d) \/ CommitFails(d)
    <3>1. /\ \/ /\ at[d] <= Len(ledger)
                /\ \/ Return(d, "DRAINED", at[d] - 1, "none")
                   \/ Return(d, "PAUSED", at[d] - 1, "none")
             \/ Return(d, "SUCCESS", None, "none")
             \/ Return(d, "FAILED", at[d], "step-failure")
             \/ Return(d, "FAILED", at[d], "ledger-append-failed")
             \/ Return(d, "raised", None, "none")
      BY <2>4 DEF DrainAtEntry, EnginePause, ProtocolPause, StepFails, GatePause, Finish,
                  RecordRaises, CommitFails, Dispatching, AtStep, OrderInv, Driving
    <3> QED BY <1>0, <2>0, <3>1 DEF Return, TypeOK, Driving
  <2>5. CASE Recover(d) \/ Rebuild(d) \/ Dispatch(d) \/ RecordStep(d)
    <3>1. /\ pc[d] \in Driving /\ at' = at
          /\ \/ result' = result
             \/ Return(d, "FAILED", None, "ABORT_REVALIDATION_FAILED")
             \/ Return(d, "FAILED", None, "ABORT_SNAPSHOT_CORRUPTED")
             \/ Return(d, "FAILED", None, "missing-output")
      BY <2>5 DEF Recover, Claim, Rebuild, Dispatch, Dispatching, AtStep, RecordStep,
         Record,
                  Driving
    <3> QED BY <1>0, <2>0, <3>1 DEF Return, TypeOK, OrderInv
  <2>6. CASE Unmoved(d)
    BY <2>0, <2>6 DEF Unmoved, OrderInv
  <2>7. CASE Stopped(d)
    BY <2>7 DEF Stopped, Driving, NoResult
  <2> QED BY <1>0, <2>1, <2>2, <2>3, <2>4, <2>5, <2>6, <2>7, Locality DEF Drive
<1> QED BY <1>1, <1>2, LedgerNext DEF OrderInv

LEMMA OrderInvHolds == Spec => []OrderInv
<1>1. Init => OrderInv
  BY DEF Init, OrderInv, Driving, NoResult
<1> QED BY <1>1, OrderNext, IInvHolds, PTL DEF Spec

(* While nothing is lost, the ledger is the run's steps in their order and *)
(* each once, even when two drives of it run side by side.                 *)
THEOREM LedgerInOrderThm == Spec => []LedgerInOrder
<1>1. OrderInv => LedgerInOrder
  BY DEF OrderInv, LedgerInOrder
<1> QED BY <1>1, OrderInvHolds, PTL

(* A drained or paused drive reports no step that is not in the ledger.    *)
THEOREM TerminalThm == Spec => []TerminalMeansCommitted
<1>1. IInv /\ OrderInv => TerminalMeansCommitted
  <2> SUFFICES ASSUME IInv, OrderInv, ~PowerLoss, NEW d \in Drivers,
                      result[d].status \in {"DRAINED", "PAUSED"},
                      NEW i \in 0 .. result[d].terminal
               PROVE  i \in Committed
    BY DEF TerminalMeansCommitted
  <2>1. TypeOK /\ result[d].terminal \in Int /\ Len(ledger) \in Nat
    BY DEF IInv, TypeOK, Results, Steps, None
  <2>2. result[d].terminal < Len(ledger)
    BY DEF OrderInv
  <2> QED BY <2>1, <2>2, Ordered DEF OrderInv
<1> QED BY <1>1, OrderInvHolds, IInvHolds, PTL

-----------------------------------------------------------------------------
(* All drives together are one uninterrupted run.                          *)

Succeeded == \E d \in Drivers : result[d].status = "SUCCESS"

Performed == {i \in Steps : runs[i] > 0}

(* Only a drive that gets to the end of the steps adds a success, and only *)
(* an idle one, or the end of the host, takes a success away.              *)
LEMMA SuccessKept ==
  ASSUME TypeOK, NEW d \in Drivers, result[d].status # "SUCCESS",
         \/ result' = result
         \/ \E r \in Results : r.status # "SUCCESS" /\ result' = [result EXCEPT ![d] = r]
  PROVE  Succeeded' = Succeeded
<1>1. CASE result' = result
  BY <1>1 DEF Succeeded
<1>2. ASSUME NEW r \in Results, r.status # "SUCCESS", result' = [result EXCEPT ![d] = r]
      PROVE  Succeeded' = Succeeded
  <2>1. \A e \in Drivers : result'[e] = IF e = d THEN r ELSE result[e]
    BY <1>2 DEF TypeOK
  <2>2. \A e \in Drivers : result'[e].status = "SUCCESS" <=> result[e].status = "SUCCESS"
    BY <1>2, <2>1
  <2> QED BY <2>2 DEF Succeeded
<1> QED BY <1>1, <1>2

(* What a return other than a success keeps.                               *)
LEMMA ReturnKept ==
  ASSUME TypeOK, NEW d \in Drivers, result[d].status # "SUCCESS",
         NEW status \in Statuses \ {"SUCCESS"}, NEW terminal \in Steps \cup {None},
         NEW fail \in Fails, Return(d, status, terminal, fail)
  PROVE  Succeeded' = Succeeded
<1> DEFINE r == [status |-> status, terminal |-> terminal, fail |-> fail]
<1>1. r \in Results /\ r.status # "SUCCESS"
  BY DEF Results
<1>2. result' = [result EXCEPT ![d] = r]
  BY DEF Return
<1> HIDE DEF r
<1> QED BY <1>1, <1>2, SuccessKept

(* Executing a step of the ledger, or the first behind it.                 *)
LEMMA ExecutePerforms ==
  ASSUME TypeOK, NEW d \in Drivers, at[d] < NSteps, Execute(d)
  PROVE  at[d] \in 0 .. NSteps - 1 /\ Performed' = Performed \cup {at[d]}
<1> USE Bounds
<1>1. at[d] \in Steps
  BY DEF TypeOK, Steps
<1>2. \A i \in Steps : runs'[i] > 0 <=> runs[i] > 0 \/ i = at[d]
  <2>1. \A i \in Steps : runs[i] \in Nat
    BY DEF TypeOK, Counts
  <2>2. runs'[at[d]] > 0
    BY <1>1, <2>1 DEF Execute, TypeOK, Counts
  <2>3. \A i \in Steps : i # at[d] => runs'[i] = runs[i]
    BY DEF Execute, TypeOK, Counts
  <2> QED BY <2>2, <2>3
<1> QED BY <1>1, <1>2 DEF Performed, Steps

(* A commit appends the next step, which was executed, or none.            *)
LEMMA CommitAppends ==
  ASSUME IInv, OrderInv, ~PowerLoss, NEW d \in Drivers, Commit(d)
  PROVE  \/ ledger' = ledger
         \/ /\ Len(ledger) < NSteps /\ Len(ledger) \in Performed
            /\ Len(ledger') = Len(ledger) + 1
<1> USE Bounds
<1>1. /\ TypeOK /\ PrefixInv /\ ledger \in Seq(Steps) /\ Len(ledger) \in Nat
      /\ \A j \in DOMAIN ledger : ledger[j] = j - 1
  BY DEF IInv, TypeOK, OrderInv
<1>2. at[d] \in Steps /\ runs[at[d]] > 0 /\ at[d] <= Len(ledger)
  BY <1>1 DEF Commit, PrefixInv, OrderInv, Driving, TypeOK, Steps
<1>3. CASE at[d] \in Committed
  BY <1>3 DEF Commit, Appended
<1>4. CASE at[d] \notin Committed
  <2>1. ledger' = Append(ledger, at[d])
    BY <1>4 DEF Commit, Appended
  <2>2. at[d] = Len(ledger)
    BY <1>1, <1>2, <1>4, Ordered DEF Steps
  <2>3. Len(ledger') = Len(ledger) + 1
    BY <1>1, <1>2, <2>1, AppendProperties
  <2> QED BY <1>2, <2>2, <2>3 DEF Performed, Steps
<1> QED BY <1>3, <1>4

(* The ledger is never longer than the run.                                *)
LEMMA LedgerBound ==
  ASSUME IInv, OrderInv, ~PowerLoss
  PROVE  Len(ledger) \in 0 .. NSteps
<1> USE Bounds
<1>1. ledger \in Seq(Steps) /\ \A j \in DOMAIN ledger : ledger[j] = j - 1
  BY DEF IInv, TypeOK, OrderInv
<1>2. Len(ledger) \in Nat /\ DOMAIN ledger = 1 .. Len(ledger)
  BY <1>1
<1>3. CASE Len(ledger) > 0
  <2>1. Len(ledger) \in DOMAIN ledger
    BY <1>2, <1>3
  <2>2. ledger[Len(ledger)] \in Steps /\ ledger[Len(ledger)] = Len(ledger) - 1
    BY <1>1, <2>1
  <2> QED BY <1>2, <2>2 DEF Steps
<1> QED BY <1>2, <1>3

LEMMA RunStep ==
  ASSUME IInv, LoopInv, OrderInv, ~PowerLoss, [Next]_vars
  PROVE  \/ \E i \in 0 .. NSteps - 1 :
              /\ i <= Len(ledger) /\ Performed' = Performed \cup {i}
              /\ Len(ledger') = Len(ledger) /\ Succeeded' = Succeeded
         \/ /\ Len(ledger) < NSteps /\ Len(ledger) \in Performed
            /\ Len(ledger') = Len(ledger) + 1
            /\ Performed' = Performed /\ Succeeded' = Succeeded
         \/ /\ Len(ledger) = NSteps /\ Succeeded'
            /\ Len(ledger') = Len(ledger) /\ Performed' = Performed
         \/ /\ Succeeded' \in {FALSE, Succeeded}
            /\ Len(ledger') = Len(ledger) /\ Performed' = Performed
<1> USE Bounds
<1>0. /\ TypeOK /\ PrefixInv
      /\ \A d \in Drivers : pc[d] # "idle" => result[d].status # "SUCCESS"
      /\ runs' = runs => Performed' = Performed
      /\ result' = result => Succeeded' = Succeeded
  BY DEF IInv, LoopInv, Performed, Succeeded
<1>1. ASSUME NEW d \in Drivers, Invocation(d)
      PROVE  /\ Succeeded' \in {FALSE, Succeeded}
             /\ ledger' = ledger /\ runs' = runs
  <2>1. ledger' = ledger /\ runs' = runs
    BY <1>1 DEF Invocation, Invoke, Return, disk
  <2>2. PICK r \in {NoResult, [status |-> "DRAINED", terminal |-> None, fail |-> "none"]} :
          result' = [result EXCEPT ![d] = r]
    BY <1>1 DEF Invocation, Invoke, Return
  <2>3. \A e \in Drivers : result'[e] = IF e = d THEN r ELSE result[e]
    BY <1>0, <2>2 DEF TypeOK
  <2>4. Succeeded' => Succeeded
    <3>1. r.status # "SUCCESS"
      BY <2>2 DEF NoResult
    <3> QED BY <2>3, <3>1 DEF Succeeded
  <2>5. Succeeded' \in BOOLEAN /\ Succeeded \in BOOLEAN
    BY DEF Succeeded
  <2> QED BY <2>1, <2>4, <2>5
<1>2. ASSUME NEW d \in Drivers,
             \/ Position(d) \/ Recover(d) \/ Rebuild(d) \/ DrainAtEntry(d)
             \/ EnginePause(d) \/ ProtocolPause(d) \/ GatePause(d)
             \/ RecordStep(d) \/ RecordRaises(d) \/ CommitFails(d)
      PROVE  Succeeded' = Succeeded /\ ledger' = ledger /\ runs' = runs
  <2>1. result[d].status # "SUCCESS"
    BY <1>0, <1>2 DEF Position, Recover, Rebuild, DrainAtEntry, EnginePause,
       ProtocolPause, GatePause, RecordStep, Record, RecordRaises, CommitFails, AtStep,
       Dispatching
  <2>2. ledger' = ledger /\ runs' = runs
    BY <1>2 DEF Position, Recover, Rebuild, DrainAtEntry, EnginePause, ProtocolPause,
       GatePause, RecordStep, Record, RecordRaises, CommitFails, disk
  <2>3. \/ result' = result
        \/ \E status \in Statuses \ {"SUCCESS"}, terminal \in Steps \cup {None},
              fail \in Fails : Return(d, status, terminal, fail)
    <3>1. CASE Position(d) \/ RecordStep(d)
      BY <3>1 DEF Position, RecordStep
    <3>2. CASE Recover(d) \/ Rebuild(d) \/ RecordRaises(d)
      BY <3>2 DEF Recover, Claim, Rebuild, RecordRaises, Statuses, Fails
    <3>3. CASE DrainAtEntry(d) \/ EnginePause(d) \/ ProtocolPause(d) \/ GatePause(d)
      <4>1. at[d] - 1 \in Steps \cup {None}
        BY <1>0, <3>3 DEF DrainAtEntry, EnginePause, ProtocolPause, GatePause,
           Dispatching, AtStep, TypeOK, Steps, None
      <4> QED BY <3>3, <4>1 DEF DrainAtEntry, EnginePause, ProtocolPause, GatePause,
                 Statuses, Fails
    <3>4. CASE CommitFails(d)
      BY <1>0, <3>4 DEF CommitFails, PrefixInv, TypeOK, Steps, Statuses, Fails
    <3> QED BY <1>2, <3>1, <3>2, <3>3, <3>4
  <2> QED BY <1>0, <2>1, <2>2, <2>3, ReturnKept
<1>3. ASSUME NEW d \in Drivers, Finish(d)
      PROVE  /\ Len(ledger) = NSteps /\ Succeeded'
             /\ ledger' = ledger /\ runs' = runs
  <2>1. ledger' = ledger /\ runs' = runs
    BY <1>3 DEF Finish, disk
  <2>2. NSteps <= Len(ledger)
    BY <1>3 DEF Finish, OrderInv, Driving
  <2>3. result'[d].status = "SUCCESS"
    BY <1>0, <1>3 DEF Finish, Return, TypeOK
  <2> QED BY <2>1, <2>2, <2>3, LedgerBound DEF Succeeded
<1>4. ASSUME NEW d \in Drivers, Dispatch(d) \/ StepFails(d)
      PROVE  /\ ledger' = ledger /\ Succeeded' = Succeeded
             /\ \/ runs' = runs
                \/ /\ at[d] \in 0 .. NSteps - 1 /\ at[d] <= Len(ledger)
                   /\ Performed' = Performed \cup {at[d]}
  <2>1. /\ AtStep(d) /\ at[d] < NSteps /\ pc[d] = "entry"
        /\ result[d].status # "SUCCESS"
    BY <1>0, <1>4 DEF Dispatch, StepFails, Dispatching, AtStep
  <2>2. ledger' = ledger /\ (runs' = runs \/ Execute(d))
    BY <1>4 DEF Dispatch, StepFails, disk
  <2>3. at[d] <= Len(ledger) /\ at[d] \in Steps
    BY <1>0, <2>1 DEF OrderInv, Driving, TypeOK, Steps
  <2>4. result' = result \/ Return(d, "FAILED", at[d], "step-failure")
    BY <1>4 DEF Dispatch, StepFails
  <2>5. Succeeded' = Succeeded
    BY <1>0, <2>1, <2>3, <2>4, ReturnKept DEF Statuses, Fails
  <2> QED BY <1>0, <2>1, <2>2, <2>3, <2>5, ExecutePerforms
<1>5. ASSUME NEW d \in Drivers, Commit(d)
      PROVE  runs' = runs /\ Succeeded' = Succeeded
  <2>1. result[d].status # "SUCCESS" /\ at[d] \in Steps
    BY <1>0, <1>5 DEF Commit, PrefixInv, TypeOK, Steps
  <2>2. result' = result \/ Return(d, "DRAINED", at[d], "none")
    BY <1>5 DEF Commit
  <2>3. Succeeded' = Succeeded
    BY <1>0, <2>1, <2>2, ReturnKept DEF Statuses, Fails
  <2> QED BY <1>5, <2>3 DEF Commit
<1>6. ASSUME Crash \/ Restart
      PROVE  Succeeded' = FALSE /\ ledger' = ledger /\ runs' = runs
  <2>1. Len(ledger) \in Nat /\ ledger \in Seq(Steps)
    BY <1>0 DEF TypeOK
  <2>2. Halt(Len(ledger))
    BY <1>6, <2>1 DEF Crash, Restart
  <2>3. ledger' = ledger /\ runs' = runs
    BY <2>1, <2>2 DEF Halt
  <2>4. \A d \in Drivers : result'[d].status = "none"
    BY <2>2 DEF Halt, NoResult
  <2> QED BY <2>3, <2>4 DEF Succeeded
<1>7. ASSUME SetDrained \/ RequestPause \/ ClearPause \/ UNCHANGED vars
      PROVE  Succeeded' = Succeeded /\ ledger' = ledger /\ runs' = runs
  BY <1>0, <1>7 DEF SetDrained, RequestPause, ClearPause, vars, disk, local
<1> QED BY <1>0, <1>1, <1>2, <1>3, <1>4, <1>5, <1>6, <1>7, CommitAppends DEF Next, Drive

(* As long as no power loss takes the ledger back, the drives of a run,    *)
(* one after the other or side by side, through crashes, drains, pauses    *)
(* and failures, perform and commit its steps like one uninterrupted run.  *)
THEOREM RunThm == ASSUME ~PowerLoss PROVE Spec => ImplementsRun
<1>1. Init => Run!Init
  <2> SUFFICES ASSUME Init PROVE Run!Init
    OBVIOUS
  <2>1. Len(ledger) = 0
    BY DEF Init
  <2>2. \A i \in Steps : runs[i] = 0
    BY DEF Init, Nothing
  <2>3. \A d \in Drivers : result[d].status = "none"
    BY DEF Init, NoResult
  <2>4. ~\E d \in Drivers : result[d].status = "SUCCESS"
    BY <2>3
  <2>5. {i \in Steps : runs[i] > 0} = {}
    BY <2>2
  <2> QED BY <2>1, <2>4, <2>5 DEF Run!Init
<1>2. IInv /\ LoopInv /\ OrderInv /\ [Next]_vars => [Run!Next]_(Run!vars)
  BY RunStep DEF Succeeded, Performed, Run!Next, Run!vars, Run!Perform, Run!Commit,
     Run!Succeed, Run!Forget
<1> QED BY <1>1, <1>2, IInvHolds, LoopInvHolds, OrderInvHolds, PTL
        DEF Spec, ImplementsRun, Run!Spec

-----------------------------------------------------------------------------
(* One thread at a time.                                                   *)

OneDriver == \A d, e \in Drivers : d = e

(* What a drive has accumulated is what the journal has of the same steps, *)
(* until the next drive begins.                                            *)
LatestInv ==
  Durable /\ Store =>
    \A d \in Drivers :
      /\ pc[d] \in InLoop => \A i \in Steps : i < at[d] => acc[d][i] = store[i]
      /\ pc[d] = "append" => store[at[d]] = out[d]
      /\ result[d].status = "SUCCESS" => acc[d] = store

(* Only the step that a drive is about to commit is written again.         *)
LEMMA StoreKept ==
  ASSUME TypeOK, OneDriver, [Next]_vars, NEW d \in Drivers
  PROVE  store' = store \/ RecordStep(d)
BY Shared DEF OneDriver

LEMMA LatestNext ==
  ASSUME OneDriver, IInv, LoopInv, LatestInv, [Next]_vars
  PROVE  LatestInv'
<1> SUFFICES ASSUME Durable, Store, NEW d \in Drivers
             PROVE  /\ pc'[d] \in InLoop =>
                         \A i \in Steps : i < at'[d] => acc'[d][i] = store'[i]
                    /\ pc'[d] = "append" => store'[at'[d]] = out'[d]
                    /\ result'[d].status = "SUCCESS" => acc'[d] = store'
  BY Shared DEF LatestInv, Durable, IInv
<1> USE Bounds
<1>0. /\ TypeOK /\ PrefixInv
      /\ pc[d] \in InLoop => \A i \in Steps : i < at[d] => acc[d][i] = store[i]
      /\ pc[d] = "append" => store[at[d]] = out[d]
      /\ result[d].status = "SUCCESS" => acc[d] = store
      /\ pc[d] # "idle" => result[d].status # "SUCCESS"
  BY DEF IInv, LatestInv, LoopInv
<1>1. pc[d] # "record" => store' = store
  BY <1>0, StoreKept DEF RecordStep, Record
<1>2. CASE Invocation(d)
  BY <1>0, <1>2 DEF Invocation, Invoke, Return, GoTo, TypeOK, InLoop, NoResult
<1>3. CASE Position(d) \/ Recover(d)
  BY <1>0, <1>3 DEF Position, Recover, Claim, Return, GoTo, TypeOK, InLoop
<1>4. CASE Rebuild(d)
  <2>1. /\ acc'[d] = Prefix(at[d]) /\ pc'[d] = "entry" /\ UNCHANGED <<at, result>>
    BY <1>0, <1>4, RebuildFills DEF TypeOK
  <2>2. pc[d] # "idle" /\ store' = store
    BY <1>1, <1>4 DEF Rebuild
  <2>3. \A i \in Steps : i < at[d] => Prefix(at[d])[i] = store[i]
    BY DEF Prefix
  <2> QED BY <1>0, <2>1, <2>2, <2>3
<1>5. CASE Finish(d)
  <2>1. /\ result'[d].status = "SUCCESS" /\ pc'[d] = "idle"
        /\ acc' = acc /\ store' = store
    BY <1>0, <1>1, <1>5 DEF Finish, Return, TypeOK
  <2>2. \A i \in Steps : acc[d][i] = store[i]
    BY <1>0, <1>5 DEF Finish, InLoop, Steps
  <2>3. acc[d] = store
    BY <1>0, <2>2 DEF TypeOK, Counts
  <2> QED BY <2>1, <2>3 DEF InLoop
<1>6. CASE \/ DrainAtEntry(d) \/ EnginePause(d) \/ ProtocolPause(d)
           \/ StepFails(d) \/ GatePause(d) \/ RecordRaises(d) \/ CommitFails(d)
  <2>1. pc'[d] = "idle" /\ result'[d].status # "SUCCESS"
    <3>1. \/ Return(d, "DRAINED", at[d] - 1, "none")
          \/ Return(d, "PAUSED", at[d] - 1, "none")
          \/ Return(d, "FAILED", at[d], "step-failure")
          \/ Return(d, "FAILED", at[d], "ledger-append-failed")
          \/ Return(d, "raised", None, "none")
      BY <1>6 DEF DrainAtEntry, EnginePause, ProtocolPause, StepFails, GatePause,
                  RecordRaises, CommitFails
    <3> QED BY <1>0, <3>1 DEF Return, TypeOK
  <2> QED BY <2>1 DEF InLoop
<1>7. CASE Dispatch(d)
  <2>1. /\ pc[d] = "entry" /\ pc'[d] = "record" /\ UNCHANGED <<at, acc, result>>
    BY <1>0, <1>7 DEF Dispatch, Dispatching, AtStep, GoTo, TypeOK
  <2> QED BY <1>0, <1>1, <2>1 DEF InLoop
<1>8. CASE RecordStep(d)
  <2>1. /\ pc[d] = "record" /\ pc'[d] = "append" /\ UNCHANGED <<at, acc, out, result>>
        /\ store' = [store EXCEPT ![at[d]] = out[d]]
    BY <1>0, <1>8 DEF RecordStep, Record, GoTo, TypeOK
  <2>2. at[d] \in Steps /\ store \in Counts
    BY <1>0, <2>1 DEF PrefixInv, TypeOK, Steps
  <2>3. store'[at[d]] = out[d] /\ \A i \in Steps : i < at[d] => store'[i] = store[i]
    BY <2>1, <2>2 DEF Counts, Steps
  <2> QED BY <1>0, <2>1, <2>3 DEF InLoop
<1>9. CASE Commit(d)
  <2>1. /\ at'[d] = at[d] + 1 /\ at[d] \in Steps /\ store' = store
        /\ acc'[d] = [acc[d] EXCEPT ![at[d]] = out[d]]
        /\ pc[d] = "append" /\ pc'[d] # "append"
    BY <1>0, <1>9 DEF Commit, NextStep, Return, GoTo, PrefixInv, TypeOK, Steps
  <2>2. acc[d] \in Counts
    BY <1>0 DEF TypeOK
  <2>3. ASSUME NEW i \in Steps, i < at[d] + 1 PROVE acc'[d][i] = store[i]
    BY <1>0, <2>1, <2>2, <2>3 DEF InLoop, Counts, Steps
  <2>4. result'[d].status # "SUCCESS"
    BY <1>0, <1>9 DEF Commit, Return, TypeOK
  <2> QED BY <2>1, <2>3, <2>4
<1>10. CASE Unmoved(d)
  <2>1. ~RecordStep(d)
    BY <1>0, <1>10 DEF Unmoved, RecordStep, Record, GoTo, TypeOK
  <2>2. store' = store
    BY <1>0, <2>1, StoreKept
  <2> QED BY <1>0, <1>10, <2>2 DEF Unmoved
<1>11. CASE Stopped(d)
  BY <1>11 DEF Stopped, NoResult, InLoop
<1> QED BY <1>0, <1>2, <1>3, <1>4, <1>5, <1>6, <1>7, <1>8, <1>9, <1>10, <1>11, Locality
        DEF Drive

(* Driven by one thread at a time, a run ends with the outputs that the    *)
(* journal has: those of the last execution of every step, even of a step  *)
(* that a crash between journal and ledger made the next drive repeat.     *)
THEOREM LatestThm == ASSUME OneDriver PROVE Spec => []FinalStateIsLatest
<1>1. Init => LatestInv
  <2>1. ASSUME Init, NEW d \in Drivers
        PROVE  pc[d] \notin InLoop /\ pc[d] # "append" /\ result[d].status # "SUCCESS"
    <3>1. pc[d] = "idle" /\ result[d] = NoResult
      BY <2>1 DEF Init
    <3> QED BY <3>1 DEF NoResult, InLoop
  <2> QED BY <2>1, Zenon DEF LatestInv
<1>2. LatestInv => FinalStateIsLatest
  BY DEF LatestInv, FinalStateIsLatest
<1> QED BY <1>1, <1>2, LatestNext, IInvHolds, LoopInvHolds, PTL DEF Spec

(* The ledger is the first steps in their order.                           *)
InOrder == \A j \in DOMAIN ledger : ledger[j] = j - 1

(* A drive that positioned itself by an ordered ledger stands at its end.  *)
PlaceInv ==
  InOrder =>
    \A d \in Drivers :
      Durable /\ snap[d] = None /\ pc[d] \in Driving => at[d] = Len(ledger)

LEMMA FirstMissingIsEnd ==
  ASSUME TypeOK, InOrder, NEW k \in FirstMissing
  PROVE  k = Len(ledger)
<1> USE Bounds
<1>1. /\ Len(ledger) \in Nat /\ k \in 0 .. NSteps /\ k \notin Committed
      /\ \A i \in 0 .. k - 1 : i \in Committed
  BY DEF TypeOK, FirstMissing
<1>2. ~(k < Len(ledger))
  BY <1>1, Ordered DEF InOrder
<1>3. ASSUME k > Len(ledger) PROVE FALSE
  <2>1. Len(ledger) \in Committed
    BY <1>1, <1>3
  <2> QED BY <1>1, <2>1, Ordered DEF InOrder
<1> QED BY <1>1, <1>2, <1>3

(* No commit puts a ledger in order that was not, and one at the end of an *)
(* ordered ledger makes it longer by one.                                  *)
LEMMA CommitInOrder ==
  ASSUME TypeOK, NEW d \in Drivers, Commit(d), at[d] \in Steps, InOrder'
  PROVE  /\ InOrder
         /\ at[d] = Len(ledger) => Len(ledger') = Len(ledger) + 1
<1>0. ledger \in Seq(Steps) /\ Len(ledger) \in Nat /\ DOMAIN ledger = 1 .. Len(ledger)
  BY DEF TypeOK
<1>1. CASE at[d] \in Committed
  <2>1. ledger' = ledger
    BY <1>1 DEF Commit, Appended
  <2>2. InOrder
    BY <2>1 DEF InOrder
  <2>3. at[d] # Len(ledger)
    BY <1>0, <1>1, <2>2, Ordered DEF InOrder, Steps
  <2> QED BY <2>2, <2>3
<1>2. CASE at[d] \notin Committed
  <2>1. ledger' = Append(ledger, at[d])
    BY <1>2 DEF Commit, Appended
  <2>2. /\ Len(ledger') = Len(ledger) + 1 /\ DOMAIN ledger' = 1 .. Len(ledger) + 1
        /\ \A j \in 1 .. Len(ledger) : ledger'[j] = ledger[j]
    BY <1>0, <2>1, AppendProperties
  <2>3. InOrder
    BY <1>0, <2>2 DEF InOrder
  <2> QED BY <2>2, <2>3
<1> QED BY <1>1, <1>2

LEMMA PlaceNext ==
  ASSUME OneDriver, IInv, PlaceInv, [Next]_vars
  PROVE  PlaceInv'
<1> SUFFICES ASSUME InOrder', Durable, NEW d \in Drivers, snap'[d] = None, pc'[d] \in Driving
             PROVE  at'[d] = Len(ledger')
  BY Shared DEF PlaceInv, Durable, IInv
<1> USE Bounds
<1>0. TypeOK /\ PrefixInv /\ ledger \in Seq(Steps) /\ Len(ledger) \in Nat
  BY DEF IInv, TypeOK
<1>1. ASSUME ledger' = ledger, pc[d] \in Driving, snap'[d] = snap[d], at'[d] = at[d]
      PROVE  at'[d] = Len(ledger')
  BY <1>1 DEF PlaceInv, InOrder
<1>2. CASE Invocation(d)
  BY <1>0, <1>2 DEF Invocation, Invoke, Return, GoTo, TypeOK, Driving
<1>3. CASE Position(d)
  <2>1. PICK k \in ResumeAt(snap[d]) : at' = [at EXCEPT ![d] = k]
    BY <1>3 DEF Position
  <2>2. ledger' = ledger /\ snap' = snap /\ at'[d] = k
    BY <1>0, <1>3, <2>1 DEF Position, TypeOK, disk
  <2>3. k \in FirstMissing /\ InOrder
    BY <2>1, <2>2 DEF ResumeAt, InOrder
  <2> QED BY <1>0, <2>2, <2>3, FirstMissingIsEnd
<1>4. CASE Commit(d)
  <2>1. /\ pc[d] = "append" /\ at[d] \in Steps /\ at'[d] = at[d] + 1 /\ snap' = snap
    BY <1>0, <1>4 DEF Commit, NextStep, PrefixInv, TypeOK, Steps
  <2>2. InOrder
    BY <1>0, <1>4, <2>1, CommitInOrder
  <2>3. at[d] = Len(ledger)
    BY <2>1, <2>2 DEF PlaceInv, Driving
  <2> QED BY <1>0, <1>4, <2>1, <2>3, CommitInOrder
<1>5. CASE \/ Finish(d) \/ DrainAtEntry(d) \/ EnginePause(d) \/ ProtocolPause(d)
           \/ StepFails(d) \/ GatePause(d) \/ RecordRaises(d) \/ CommitFails(d)
  <2>1. pc'[d] = "idle"
    BY <1>0, <1>5 DEF Finish, DrainAtEntry, EnginePause, ProtocolPause, StepFails,
       GatePause, RecordRaises, CommitFails, Return, TypeOK
  <2> QED BY <2>1 DEF Driving
<1>6. CASE Recover(d) \/ Rebuild(d) \/ Dispatch(d) \/ RecordStep(d)
  <2>1. /\ pc[d] \in Driving /\ UNCHANGED <<at, snap, ledger>>
    BY <1>6 DEF Recover, Rebuild, Dispatch, Dispatching, AtStep, RecordStep, Record,
                disk, Driving
  <2> QED BY <1>1, <2>1
<1>7. CASE Unmoved(d)
  <2>1. ~Commit(d)
    BY <1>0, <1>7 DEF Unmoved, Commit, NextStep, TypeOK
  <2>2. ASSUME NEW k \in 0 .. Len(ledger), Halt(k) PROVE FALSE
    BY <1>7, <2>2 DEF Halt, Unmoved, Driving
  <2>3. ledger' = ledger
    BY <1>0, <2>1, <2>2, Shared DEF OneDriver
  <2> QED BY <1>1, <1>7, <2>3 DEF Unmoved
<1>8. CASE Stopped(d)
  BY <1>8 DEF Stopped, Driving
<1> QED BY <1>0, <1>2, <1>3, <1>4, <1>5, <1>6, <1>7, <1>8, Locality DEF Drive

(* Driven by one thread at a time, with an ordered ledger, no drive that   *)
(* positioned itself by the ledger executes a committed step again: the    *)
(* resume repeats at most the one step that was in doubt.                  *)
THEOREM NotRerunThm == ASSUME OneDriver PROVE Spec => CommittedNotRerun
<1>1. Init => PlaceInv
  BY DEF Init, PlaceInv, Driving
<1>2. ASSUME IInv, PlaceInv, [Next]_vars, InOrder, NEW d \in Drivers, NEW i \in Steps,
             Durable, snap[d] = None, pc[d] = "entry", runs'[i] # runs[i]
      PROVE  i \notin Committed
  <2>1. TypeOK
    BY <1>2 DEF IInv
  <2>2. Execute(d)
    BY <1>2, <2>1, Shared DEF OneDriver
  <2>3. i = at[d]
    BY <1>2, <2>1, <2>2 DEF Execute, TypeOK, Counts
  <2>4. at[d] = Len(ledger) /\ Len(ledger) \in Nat
    BY <1>2, <2>1 DEF PlaceInv, Driving, TypeOK
  <2> QED BY <1>2, <2>1, <2>3, <2>4, Ordered DEF InOrder
<1>3. IInv /\ PlaceInv /\ [Next]_vars
        => [(\A j \in DOMAIN ledger : ledger[j] = j - 1) =>
              \A d \in Drivers, i \in Steps :
                Durable /\ snap[d] = None /\ pc[d] = "entry" /\ runs'[i] # runs[i]
                  => i \notin Committed]_vars
  BY <1>2 DEF InOrder
<1> QED BY <1>1, <1>3, PlaceNext, IInvHolds, PTL DEF Spec, CommittedNotRerun
=============================================================================
