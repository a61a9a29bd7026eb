------------------------------- MODULE Memory -------------------------------
(***************************************************************************)
(* The memory around the inference steps (harness_is: memory_store.py,     *)
(* memory_operation_ledger.py, memory_retrieval_index.py,                  *)
(* memory_retrieval.py, memory_redaction.py; harness_runtime:              *)
(* automatic_memory.py, memory_context.py, memory_capture.py,              *)
(* memory_promotion.py).                                                   *)
(*                                                                         *)
(* Processes share the files of one memory root: the records, a ledger of  *)
(* the operations on them, and an index derived from the records, which is *)
(* itself a log of snapshots and of marks that say that the last one is    *)
(* stale.  A process does one job at a time: it boots, dispatches a step,  *)
(* promotes a record, or redacts one.  No lock covers two processes, so    *)
(* that their steps interleave between any two accesses to a file.         *)
(***************************************************************************)
EXTENDS Integers, SequencesExt

CONSTANTS
  Procs,         (* processes that share the memory root                    *)
  Records,       (* semantic and procedural records, in the order of a scan *)
  Proposed,      (* those whose content says that they wait for a review    *)
  Promoted,      (* those an earlier process has promoted                   *)
  Steps,         (* inference steps                                         *)
  Routes,        (* a provider and a model each                             *)
  Answers,       (* what a provider may answer                              *)
  None,          (* nothing                                                 *)
  MaxJobs,       (* bound: jobs that are begun                              *)
  MaxDispatches, (* bound: those of them that are dispatches                *)
  MaxCrashes     (* bound: crashes; they lose nothing that was written      *)

Hidden == {"redacted", "tombstoned"}

ASSUME MemoryAssumption ==
  /\ Records \subseteq Int /\ IsFiniteSet(Records)
  /\ Proposed \subseteq Records /\ Promoted \subseteq Records
  /\ None \notin Procs \cup Routes \cup Answers
  /\ MaxJobs \in Nat /\ MaxDispatches \in Nat /\ MaxCrashes \in Nat

VARIABLES
  store,      (* [Records -> the redaction state of a record, or "absent"]  *)
  runs,       (* [Steps -> the route its run record was started with, None] *)
  turns,      (* turn records: a step and the answer to it                  *)
  index,      (* the last snapshot of the index: [Records -> state]         *)
  stale,      (* there is none, or a mark has come after it                 *)
  ledger,     (* the sequence of operations                                 *)
  pc,         (* [Procs -> where its job is]                                *)
  job,        (* [Procs -> what it is doing]                                *)
  ready,      (* [Procs -> its operation was not found in the ledger]       *)
  left,       (* [Procs -> records it has still to read]                    *)
  seen,       (* [Procs -> the snapshot it is taking]                       *)
  packet,     (* [Procs -> records selected for the step it dispatches]     *)
  started,    (* [Procs -> steps it has captured the start of]              *)
  during,     (* history: [Procs -> records active at some moment of its    *)
              (* retrieval]                                                 *)
  tried,      (* history: a step and a route it was dispatched by           *)
  answered,   (* history: turns that a dispatch has returned                *)
  jobs, dispatches, crashes

files == <<store, runs, turns, index, stale, ledger>>
local == <<left, seen, packet>>
history == <<during, tried, answered>>
counts == <<jobs, dispatches, crashes>>
vars == <<files, pc, job, ready, local, started, history, counts>>

(* The first of S.                                                         *)
Least(i, S) == i \in S /\ \A k \in S : i <= k

NoJob == [kind |-> "none", of |-> None, arg |-> None, answer |-> None]
Nothing == [r \in Records |-> "absent"]

Init ==
  /\ store = [r \in Records |-> IF r \in Promoted THEN "active" ELSE "absent"]
  /\ runs = [s \in Steps |-> None] /\ turns = {}
  /\ index = Nothing /\ stale = TRUE
  /\ ledger = SetToSeq(
       {[what |-> "promote", of |-> r, with |-> None, by |-> None] : r \in Promoted})
  /\ pc = [p \in Procs |-> "idle"] /\ job = [p \in Procs |-> NoJob]
  /\ ready = [p \in Procs |-> FALSE]
  /\ left = [p \in Procs |-> {}] /\ seen = [p \in Procs |-> Nothing]
  /\ packet = [p \in Procs |-> {}]
  /\ started = [p \in Procs |-> {}]
  /\ during = [p \in Procs |-> {}] /\ tried = {} /\ answered = {}
  /\ dispatches = 0 /\ jobs = 0 /\ crashes = 0

-----------------------------------------------------------------------------
(* Jobs.                                                                   *)

Begin(p, kind, of, arg, at) ==
  /\ pc[p] = "idle" /\ jobs < MaxJobs /\ jobs' = jobs + 1
  /\ pc' = [pc EXCEPT ![p] = at]
  /\ job' = [job EXCEPT ![p] =
       [kind |-> kind, of |-> of, arg |-> arg, answer |-> None]]
  /\ UNCHANGED <<files, ready, local, started, answered, crashes>>

(* A dispatch composes the memory of its step first; whether the step has  *)
(* access to any is a matter of the policy and of the provider.            *)
Dispatch(p) ==
  \E s \in Steps, t \in Routes, at \in {"index", "inject"} :
    /\ Begin(p, "dispatch", s, t, at)
    /\ during' = [during EXCEPT ![p] = {r \in Records : store[r] = "active"}]
    /\ tried' = tried \cup {<<s, t>>}
    /\ dispatches < MaxDispatches /\ dispatches' = dispatches + 1

Edit(p, kind, r, x, at) ==
  /\ Begin(p, kind, r, x, at)
  /\ UNCHANGED <<during, tried, dispatches>>

(* A process that is started reads the index, so that it is rebuilt.       *)
Boot(p) == Edit(p, "boot", None, None, "index")

(* A candidate is approved, or proposed for review.                        *)
Promote(p) == \E r \in Records : Edit(p, "promote", r, None, "show")

(* A record that can be read, hidden or not, is to be hidden.              *)
Transition(p) ==
  \E r \in Records, x \in Hidden :
    store[r] # "absent" /\ Edit(p, "transition", r, <<x, jobs>>, "transition")

(* What a job keeps for itself is gone, and the process goes on at `at`.   *)
Forget(p, at) ==
  /\ pc' = [pc EXCEPT ![p] = at]
  /\ job' = [job EXCEPT ![p] = NoJob]
  /\ packet' = [packet EXCEPT ![p] = {}]
  /\ during' = [during EXCEPT ![p] = {}]

(* It returns, or raises because of a conflict.                            *)
Return(p) ==
  /\ pc[p] \in {"done", "refused"}
  /\ Forget(p, "idle")
  /\ UNCHANGED <<files, ready, left, seen, started, tried, answered, counts>>

(* The process dies; another takes its place.                              *)
Crash(p) ==
  /\ crashes < MaxCrashes
  /\ crashes' = crashes + 1
  /\ Forget(p, "idle")
  /\ ready' = [ready EXCEPT ![p] = FALSE]
  /\ left' = [left EXCEPT ![p] = {}]
  /\ seen' = [seen EXCEPT ![p] = Nothing]
  /\ started' = [started EXCEPT ![p] = {}]
  /\ UNCHANGED <<files, tried, answered, jobs, dispatches>>

-----------------------------------------------------------------------------
(* The index.                                                              *)

(* The entries of a snapshot that may be retrieved.                        *)
Eligible(snapshot) == {r \in Records \ Proposed : snapshot[r] = "active"}

(* The snapshot is all that a boot is for; a dispatch reads the entries.   *)
Use(p, snapshot) ==
  LET todo == IF job[p].kind = "boot" THEN {} ELSE Eligible(snapshot) IN
  /\ left' = [left EXCEPT ![p] = todo]
  /\ pc' = [pc EXCEPT ![p] =
       CASE job[p].kind = "boot" -> "done"
         [] job[p].kind # "boot" /\ todo = {} -> "retrieve"
         [] OTHER -> "read"]

(* The snapshot is used when it is fresh, and taken anew when it is not.   *)
ReadIndex(p) ==
  /\ pc[p] = "index"
  /\ IF stale
     THEN /\ pc' = [pc EXCEPT ![p] = "scan"]
          /\ left' = [left EXCEPT ![p] = Records]
     ELSE Use(p, index)
  /\ UNCHANGED <<files, job, ready, seen, packet, started, history, counts>>

(* The files of the records are read one after the other.                  *)
Scan(p) ==
  /\ pc[p] = "scan"
  /\ \E r \in left[p] :
     /\ Least(r, left[p])
     /\ seen' = [seen EXCEPT ![p][r] = store[r]]
     /\ left' = [left EXCEPT ![p] = @ \ {r}]
  /\ UNCHANGED <<files, pc, job, ready, packet, started, history, counts>>

(* The snapshot is appended, as fresh as if nothing had been written since *)
(* its scan began.                                                         *)
Rebuilt(p) ==
  /\ pc[p] = "scan" /\ left[p] = {}
  /\ index' = seen[p] /\ stale' = FALSE
  /\ seen' = [seen EXCEPT ![p] = Nothing]
  /\ Use(p, seen[p])
  /\ UNCHANGED <<store, runs, turns, ledger, job, ready, packet, started>>
  /\ UNCHANGED <<history, counts>>

(* Faulty variant: the record is taken for what the index says of it.      *)
ReadableAnyway(r) == TRUE

(* The store gives a record that is not hidden.                            *)
Readable(r) == store[r] = "active"

(* An eligible record is read and goes into the packet, unless the query   *)
(* or the budget of the packet leaves it out.                              *)
Read(p) ==
  /\ pc[p] = "read"
  /\ \E r \in left[p] :
     /\ Least(r, left[p])
     /\ \/ Readable(r) /\ packet' = [packet EXCEPT ![p] = @ \cup {r}]
        \/ UNCHANGED packet
     /\ left' = [left EXCEPT ![p] = @ \ {r}]
     /\ pc' = [pc EXCEPT ![p] = IF left'[p] = {} THEN "retrieve" ELSE "read"]
  /\ UNCHANGED <<files, job, ready, seen, started, history, counts>>

-----------------------------------------------------------------------------
(* The ledger of operations.                                               *)

Logging == {"retrieve", "inject", "start", "turn", "transition", "promote"}

(* The operation a job has to record where it is; `what`, `of` and `with`  *)
(* are its idempotency key.  A redaction is its own, by the time of it.    *)
Operation(p) ==
  LET j == job[p] IN
  [what |-> pc[p], of |-> j.of,
   with |-> CASE pc[p] \in {"retrieve", "inject"} -> <<j.arg, packet[p]>>
              [] pc[p] = "turn" -> j.answer
              [] pc[p] = "transition" -> j.arg
              [] OTHER -> None,
   by |-> CASE pc[p] \in {"start", "turn"} -> j.arg
            [] pc[p] = "promote" -> p
            [] OTHER -> None]

SameKey(e, o) == e.what = o.what /\ e.of = o.of /\ e.with = o.with

(* Faulty variant: a key is good for one operation, done once.             *)
RepeatsNever(e, o) == FALSE

(* An operation with the key of e repeats it, whenever it is done.         *)
Repeats(e, o) == e.by = o.by

(* Where a job goes when its operation is recorded.                        *)
Recorded(p) ==
  CASE pc[p] = "retrieve" -> "inject"
    [] pc[p] = "inject" -> IF job[p].of \in started[p] THEN "call" ELSE "start"
    [] pc[p] = "start" -> "run"
    [] pc[p] = "turn" -> "line"
    [] pc[p] = "transition" -> "hide"
    [] OTHER -> "done"

(* Faulty variant: what was captured before need not be written again.     *)
RecordedBeforeOnce(p) ==
  CASE pc[p] = "start" -> "call"
    [] pc[p] = "turn" -> "done"
    [] OTHER -> Recorded(p)

(* ... and when it was recorded before: a crash may have come in between.  *)
RecordedBefore(p) == Recorded(p)

(* Faulty variant: a conflict does not keep the record from being written. *)
ConflictIgnored(p) == Recorded(p)

(* Another operation has taken its key.                                    *)
Conflict(p) == "refused"

(* The ledger is read for the operation ...                                *)
Look(p) ==
  /\ pc[p] \in Logging /\ ~ready[p]
  /\ LET o == Operation(p)
         same == {i \in DOMAIN ledger : SameKey(ledger[i], o)}
     IN \/ /\ same = {}
           /\ ready' = [ready EXCEPT ![p] = TRUE]
           /\ UNCHANGED pc
        \/ \E i \in same :
           /\ Least(i, same)
           /\ pc' = [pc EXCEPT ![p] =
                IF Repeats(ledger[i], o) THEN RecordedBefore(p) ELSE Conflict(p)]
           /\ UNCHANGED ready
  /\ UNCHANGED <<files, job, local, started, history, counts>>

(* ... and has it appended when it is new.                                 *)
Log(p) ==
  /\ ready[p]
  /\ ledger' = Append(ledger, Operation(p))
  /\ ready' = [ready EXCEPT ![p] = FALSE]
  /\ pc' = [pc EXCEPT ![p] = Recorded(p)]
  /\ UNCHANGED <<store, runs, turns, index, stale, job, local, started>>
  /\ UNCHANGED <<history, counts>>

-----------------------------------------------------------------------------
(* Records.                                                                *)

Retrieving(q) ==
  pc[q] \in {"index", "scan", "read"} /\ job[q].kind = "dispatch"

(* A record is written: that of a step's start or of a turn, a promoted    *)
(* one whatever became of it before, or what is left of a hidden one.      *)
Write(p) ==
  LET j == job[p] IN
  /\ pc[p] \in {"run", "line", "show", "hide"}
  /\ runs' = IF pc[p] = "run" THEN [runs EXCEPT ![j.of] = j.arg] ELSE runs
  /\ turns' = IF pc[p] = "line" THEN turns \cup {<<j.of, j.answer>>} ELSE turns
  /\ store' = CASE pc[p] = "show" -> [store EXCEPT ![j.of] = "active"]
                [] pc[p] = "hide" -> [store EXCEPT ![j.of] = j.arg[1]]
                [] OTHER -> store
  /\ during' = [q \in Procs |->
       IF pc[p] = "show" /\ Retrieving(q) THEN during[q] \cup {j.of} ELSE during[q]]
  /\ pc' = [pc EXCEPT ![p] = "mark"]
  /\ UNCHANGED <<index, stale, ledger, job, ready, local, started>>
  /\ UNCHANGED <<tried, answered, counts>>

(* Any record that was written marks the index.                            *)
Mark(p) ==
  LET j == job[p] IN
  /\ pc[p] = "mark"
  /\ stale' = TRUE
  /\ pc' = [pc EXCEPT ![p] =
       CASE j.kind = "promote" -> "promote"
         [] j.kind = "dispatch" /\ j.answer = None -> "call"
         [] OTHER -> "done"]
  /\ started' =
       IF pc'[p] = "call" THEN [started EXCEPT ![p] = @ \cup {j.of}] ELSE started
  /\ answered' =
       IF j.answer # None THEN answered \cup {<<j.of, j.answer>>} ELSE answered
  /\ UNCHANGED <<store, runs, turns, index, ledger, job, ready, local>>
  /\ UNCHANGED <<during, tried, counts>>

(* The provider answers, and the turn is captured; or it fails.            *)
Call(p) ==
  /\ pc[p] = "call"
  /\ \/ \E a \in Answers :
          /\ pc' = [pc EXCEPT ![p] = "turn"]
          /\ job' = [job EXCEPT ![p].answer = a]
     \/ pc' = [pc EXCEPT ![p] = "done"] /\ UNCHANGED job
  /\ UNCHANGED <<files, ready, local, started, history, counts>>

Next ==
  \E p \in Procs :
    \/ Boot(p) \/ Dispatch(p) \/ Promote(p) \/ Transition(p) \/ Crash(p)
    \/ ReadIndex(p) \/ Scan(p) \/ Rebuilt(p) \/ Read(p)
    \/ Look(p) \/ Log(p) \/ Write(p) \/ Mark(p) \/ Call(p) \/ Return(p)

Spec == Init /\ [][Next]_vars

-----------------------------------------------------------------------------
(* Properties.                                                             *)

Places == {"idle", "index", "scan", "read", "call", "run", "line", "show", "hide", "mark",
           "done", "refused"} \cup Logging

Asked == [kind : {"boot"}, of : {None}, arg : {None}, answer : {None}]
  \cup [kind : {"dispatch"}, of : Steps, arg : Routes, answer : Answers \cup {None}]
  \cup [kind : {"promote"}, of : Records, arg : {None}, answer : {None}]
  \cup [kind : {"transition"}, of : Records, arg : Hidden \X Nat, answer : {None}]

Operations ==
  [what : Logging, of : Steps \cup Records,
   with : (Routes \X SUBSET Records) \cup Answers \cup (Hidden \X Nat) \cup {None},
   by : Routes \cup Procs \cup {None}]

States == {"absent", "active"} \cup Hidden

(* The type of the variables.                                              *)
TypeOK ==
  /\ store \in [Records -> States] /\ runs \in [Steps -> Routes \cup {None}]
  /\ turns \subseteq Steps \X Answers
  /\ index \in [Records -> States] /\ stale \in BOOLEAN
  /\ ledger \in Seq(Operations)
  /\ pc \in [Procs -> Places] /\ job \in [Procs -> Asked \cup {NoJob}]
  /\ ready \in [Procs -> BOOLEAN]
  /\ left \in [Procs -> SUBSET Records] /\ seen \in [Procs -> [Records -> States]]
  /\ packet \in [Procs -> SUBSET Records] /\ started \in [Procs -> SUBSET Steps]
  /\ during \in [Procs -> SUBSET Records]
  /\ tried \subseteq Steps \X Routes /\ answered \subseteq Steps \X Answers
  /\ jobs \in Nat /\ dispatches \in Nat /\ crashes \in Nat

OnRecord(what, of, with, by) ==
  \E i \in DOMAIN ledger :
    /\ ledger[i].what = what /\ ledger[i].of = of
    /\ ledger[i].with = with /\ ledger[i].by = by

(* However stale the index is that a packet was retrieved with, the packet *)
(* holds only records that were active, and not only proposed, at some     *)
(* moment of the retrieval: what was hidden before it is not shown again   *)
(* (read_record and _static_exclusion_reason).                             *)
PacketWasActive == \A p \in Procs : packet[p] \subseteq during[p] \ Proposed

(* Wherever a process dies, a record that is hidden, and a start or a turn *)
(* that is stored, has its operation in the ledger (_transition and        *)
(* _capture write the ledger first).                                       *)
RecordsAreLedgered ==
  /\ \A r \in Records : store[r] \in Hidden =>
       \E i \in DOMAIN ledger :
         /\ ledger[i].what = "transition" /\ ledger[i].of = r
         /\ ledger[i].with[1] = store[r]
  /\ \A s \in Steps : runs[s] # None => OnRecord("start", s, None, runs[s])
  /\ \A t \in turns : \E x \in Routes : OnRecord("turn", t[1], t[2], x)

(* A provider is called only when the records that its prompt is given are *)
(* in the ledger and the start of the step is stored, also in a drive that *)
(* finds the start recorded by one that died; and the turn of an answer    *)
(* that was returned is stored (compose_run_start and _capture).           *)
CallIsRecorded ==
  /\ \A p \in Procs : pc[p] = "call" =>
       /\ OnRecord("inject", job[p].of, <<job[p].arg, packet[p]>>, None)
       /\ runs[job[p].of] # None
  /\ answered \subseteq turns

(* Memory refuses a dispatch only if another route was tried for the step: *)
(* a drive that repeats one that died or failed is never stopped by what   *)
(* that one recorded (append_memory_operation).                            *)
SameRouteGoesOn ==
  \A p \in Procs : pc[p] = "refused" /\ job[p].kind = "dispatch" =>
    \E x \in Routes \ {job[p].arg} : <<job[p].of, x>> \in tried
=============================================================================
