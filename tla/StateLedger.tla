----------------------------- MODULE StateLedger -----------------------------
(***************************************************************************)
(* The state ledger: one append-only file of hash-chained JSON lines.      *)
(*                                                                         *)
(*   harness_is/state_ledger_write.py     read-prior-then-append           *)
(*   harness_is/chain_verification.py     the check made at bootstrap      *)
(*   lifecycle/state_ledger.py            bootstrap of the writer          *)
(*   harness_cp/workflow_driver.py        the buffered drain of a fan-out  *)
(*                                                                         *)
(* Writers are threads: the driver, the drain of a fan-out, the audit      *)
(* writer.  Those of one process share _WRITE_LOCK; nothing orders two     *)
(* processes.  A payload is stamped before the lock is taken.  The file is *)
(* never fsync-ed, and a write may be cut short anywhere.                  *)
(***************************************************************************)
EXTENDS Naturals, Sequences

CONSTANTS
  Writers,     (* threads that append                                      *)
  Processes,   (* operating system processes                               *)
  ProcOf,      (* the process of each writer                               *)
  Keys,        (* idempotency keys                                         *)
  NoKey,       (* the key field of a line that does not parse              *)
  NoWriter,    (* a free lock                                              *)
  Batches,     (* what one writer appends with one stamp: sequences of keys *)
  Cuts,        (* where a write may be cut: "part" or "line" (all but "\n") *)
  MaxClock,    (* bound: ticks of the wall clock                           *)
  MaxBatches   (* bound: batches composed in a behaviour                   *)

ASSUME LedgerAssumption ==
  /\ ProcOf \in [Writers -> Processes]
  /\ NoKey \notin Keys
  /\ NoWriter \notin Writers
  /\ \A b \in Batches : b \in Seq(Keys) /\ b # <<>>
  /\ Cuts \subseteq {"part", "line"}
  /\ MaxClock \in Nat /\ MaxBatches \in Nat

VARIABLES
  file,     (* the lines of state.jsonl                                    *)
  ended,    (* the last line is terminated by a newline                    *)
  clock,    (* the wall clock, the same for every process of the host      *)
  up,       (* processes that passed bootstrap                             *)
  lock,     (* holder of each process's _WRITE_LOCK                        *)
  pc, todo, stamp, draft, (* of each writer: place, keys left, timestamp, entry *)
  result,   (* how its last batch ended                                    *)
  landed,   (* keys reported as APPENDED or IDEMPOTENT_NOOP                *)
  batches   (* batches composed so far                                     *)

writer == <<pc, todo, stamp, draft, result>>
vars == <<file, ended, clock, up, lock, writer, landed, batches>>

-----------------------------------------------------------------------------
(* Lines, hashes and the chain.                                            *)

Torn == [key |-> NoKey, ts |-> 0, prior |-> <<>>]

(* compute_response_hash covers every field but itself, the prior hash     *)
(* included: a hash stands for the contents of the whole chain up to here. *)
Hash(entry) == Append(entry.prior, <<entry.key, entry.ts>>)

(* Faulty variant: the hash does not depend on the prior entry.            *)
PriorHashUnbound(f, n) == <<>>

(* construct_prior_event_hash of the first n lines; the inception sentinel. *)
PriorHash(f, n) == IF n = 0 THEN <<>> ELSE Hash(f[n])

KeysOf(f) == {f[i].key : i \in DOMAIN f}

(* read_ledger parses every line, and one bad line fails the whole read.   *)
Readable(f) == NoKey \notin KeysOf(f)

(* verify_chain.                                                           *)
ValidChain(f) == \A i \in DOMAIN f : f[i].prior = PriorHash(f, i - 1)

(* Faulty variant: the file is not opened for append.                      *)
WrittenOver(f, terminated, line) ==
  IF f # <<>> THEN [f EXCEPT ![Len(f)] = line] ELSE <<line>>

(* write(line + "\n") in append mode: after an unterminated line the new   *)
(* one runs on in it, and the two together do not parse.                   *)
Written(f, terminated, line) ==
  IF terminated THEN Append(f, line) ELSE [f EXCEPT ![Len(f)] = Torn]

-----------------------------------------------------------------------------
Init ==
  /\ file = <<>> /\ ended = TRUE /\ clock = 0
  /\ up = {}
  /\ lock = [p \in Processes |-> NoWriter]
  /\ pc = [w \in Writers |-> "idle"]
  /\ todo = [w \in Writers |-> <<>>]
  /\ stamp = [w \in Writers |-> 0]
  /\ draft = [w \in Writers |-> Torn]
  /\ result = [w \in Writers |-> "none"]
  /\ landed = {}
  /\ batches = 0

Tick ==
  /\ clock < MaxClock
  /\ clock' = clock + 1
  /\ UNCHANGED <<file, ended, up, lock, writer, landed, batches>>

(* materialize_state_ledger: a chain that does not verify, or a line that  *)
(* does not parse, refuses the bootstrap.                                  *)
Bootstrap(p) ==
  /\ p \notin up
  /\ Readable(file) /\ ValidChain(file)
  /\ up' = up \cup {p}
  /\ UNCHANGED <<file, ended, clock, lock, writer, landed, batches>>

(* A caller stamps its payloads: one step entry, one audit entry, or the   *)
(* buffered entries of a fan-out, all with the moment of the drain.        *)
Compose(w, batch) ==
  /\ pc[w] = "idle" /\ ProcOf[w] \in up
  /\ batches < MaxBatches
  /\ batches' = batches + 1
  /\ pc' = [pc EXCEPT ![w] = "waiting"]
  /\ todo' = [todo EXCEPT ![w] = batch]
  /\ stamp' = [stamp EXCEPT ![w] = clock]
  /\ result' = [result EXCEPT ![w] = "none"]
  /\ UNCHANGED <<file, ended, clock, up, lock, draft, landed>>

(* Faulty variant: the critical section is not locked.                     *)
AcquireUnlocked(w) ==
  /\ pc[w] = "waiting"
  /\ pc' = [pc EXCEPT ![w] = "locked"]
  /\ UNCHANGED <<file, ended, clock, up, lock, todo, stamp, draft, result, landed,
                 batches>>

Acquire(w) ==
  /\ pc[w] = "waiting"
  /\ lock[ProcOf[w]] = NoWriter
  /\ lock' = [lock EXCEPT ![ProcOf[w]] = w]
  /\ pc' = [pc EXCEPT ![w] = "locked"]
  /\ UNCHANGED <<file, ended, clock, up, todo, stamp, draft, result, landed, batches>>

Release(w) == lock' = [lock EXCEPT ![ProcOf[w]] = NoWriter]

(* Faulty variant: an exception leaves the lock taken.                     *)
FailHolding(w, why) ==
  /\ UNCHANGED lock
  /\ pc' = [pc EXCEPT ![w] = "idle"]
  /\ todo' = [todo EXCEPT ![w] = <<>>]
  /\ result' = [result EXCEPT ![w] = why]

(* An exception leaves the with-block, and the batch.                      *)
Fail(w, why) ==
  /\ Release(w)
  /\ pc' = [pc EXCEPT ![w] = "idle"]
  /\ todo' = [todo EXCEPT ![w] = <<>>]
  /\ result' = [result EXCEPT ![w] = why]

(* append_ledger_entry returns; the next payload of the batch follows.     *)
Land(w) ==
  /\ Release(w)
  /\ pc' = [pc EXCEPT ![w] = IF Len(todo[w]) = 1 THEN "idle" ELSE "waiting"]
  /\ todo' = [todo EXCEPT ![w] = Tail(@)]
  /\ result' = [result EXCEPT ![w] = "landed"]
  /\ landed' = landed \cup {Head(todo[w])}

(* Reading the whole ledger, and all that is computed from it.             *)
ReadPrior(w) ==
  /\ pc[w] = "locked"
  /\ \/ /\ ~Readable(file)
        /\ Fail(w, "unreadable")
        /\ UNCHANGED <<draft, landed>>
     \/ /\ Readable(file) /\ Head(todo[w]) \in KeysOf(file)
        /\ Land(w)
        /\ UNCHANGED draft
     \/ /\ Readable(file) /\ Head(todo[w]) \notin KeysOf(file)
        /\ file # <<>> /\ stamp[w] < file[Len(file)].ts
        /\ Fail(w, "non-monotonic")
        /\ UNCHANGED <<draft, landed>>
     \/ /\ Readable(file) /\ Head(todo[w]) \notin KeysOf(file)
        /\ file # <<>> => stamp[w] >= file[Len(file)].ts
        /\ draft' = [draft EXCEPT ![w] =
             [key |-> Head(todo[w]), ts |-> stamp[w],
              prior |-> PriorHash(file, Len(file))]]
        /\ pc' = [pc EXCEPT ![w] = "writing"]
        /\ UNCHANGED <<lock, todo, result, landed>>
  /\ UNCHANGED <<file, ended, clock, up, stamp, batches>>

WriteLine(w) ==
  /\ pc[w] = "writing"
  /\ file' = Written(file, ended, draft[w])
  /\ ended' = TRUE
  /\ Land(w)
  /\ UNCHANGED <<clock, up, stamp, draft, batches>>

(* The write stops early: the disk is full, or power is lost.              *)
CutShort(w, cut) ==
  /\ pc[w] = "writing"
  /\ file' = Written(file, ended, IF cut = "line" THEN draft[w] ELSE Torn)
  /\ ended' = FALSE
  /\ Fail(w, "os-error")
  /\ UNCHANGED <<clock, up, stamp, draft, landed, batches>>

(* A process dies with all its threads.                                    *)
Crash(p) ==
  /\ p \in up
  /\ up' = up \ {p}
  /\ lock' = [lock EXCEPT ![p] = NoWriter]
  /\ pc' = [w \in Writers |-> IF ProcOf[w] = p THEN "idle" ELSE pc[w]]
  /\ todo' = [w \in Writers |-> IF ProcOf[w] = p THEN <<>> ELSE todo[w]]
  /\ UNCHANGED <<file, ended, clock, stamp, draft, result, landed, batches>>

(* Power is lost: any tail of the file may be gone, and the last line that *)
(* is left may be cut.                                                     *)
PowerLoss(n, cut) ==
  /\ up = {} /\ n < Len(file)
  /\ file' = CASE cut = "none" -> SubSeq(file, 1, n)
               [] cut = "line" -> SubSeq(file, 1, n + 1)
               [] OTHER        -> Append(SubSeq(file, 1, n), Torn)
  /\ ended' = (cut = "none")
  /\ landed' = landed \cap KeysOf(file')
  /\ UNCHANGED <<clock, up, lock, writer, batches>>

Append_(w) == Acquire(w) \/ ReadPrior(w) \/ WriteLine(w)

Next ==
  \/ Tick
  \/ \E p \in Processes : Bootstrap(p) \/ Crash(p)
  \/ \E w \in Writers, b \in Batches : Compose(w, b)
  \/ \E w \in Writers : Append_(w) \/ \E cut \in Cuts : CutShort(w, cut)
  \/ \E n \in 0..Len(file), cut \in Cuts \cup {"none"} : PowerLoss(n, cut)

Spec == Init /\ [][Next]_vars

(* A running thread is scheduled, and with finitely many batches a free    *)
(* lock is eventually got.                                                 *)
FairSpec == Spec /\ \A w \in Writers : WF_vars(Append_(w))

-----------------------------------------------------------------------------
Results == {"none", "landed", "unreadable", "non-monotonic", "os-error"}

Line == [key : Keys \cup {NoKey}, ts : Nat,
         prior : Seq((Keys \cup {NoKey}) \X Nat)]

TypeOK ==
  /\ file \in Seq(Line)
  /\ ended \in BOOLEAN /\ (file = <<>> => ended)
  /\ clock \in 0..MaxClock
  /\ up \subseteq Processes
  /\ lock \in [Processes -> Writers \cup {NoWriter}]
  /\ pc \in [Writers -> {"idle", "waiting", "locked", "writing"}]
  /\ todo \in [Writers -> Seq(Keys)]
  /\ \A w \in Writers : todo[w] = <<>> <=> pc[w] = "idle"
  /\ stamp \in [Writers -> 0..MaxClock]
  /\ draft \in [Writers -> Line]
  /\ result \in [Writers -> Results]
  /\ landed \subseteq Keys
  /\ batches \in 0..MaxBatches

(* What the ledger is for: every effect key once, in the order of time.    *)
Serial(f) ==
  \A i, j \in DOMAIN f : i < j => f[i].key # f[j].key /\ f[i].ts <= f[j].ts

(* The writers of one process, however their reads and writes interleave,  *)
(* and whatever is cut short, lost or restarted, never leave a readable    *)
(* file that bootstrap would call tampered, or that holds a key twice.     *)
AlwaysVerifies == Readable(file) => ValidChain(file) /\ Serial(file)

(* Two processes can race on the file, since the lock is not shared, but   *)
(* the check at bootstrap detects every lost race: a chain that verifies   *)
(* holds every key once and in the order of time.                          *)
VerifiedMeansSerial == Readable(file) /\ ValidChain(file) => Serial(file)

(* A write that reported APPENDED or IDEMPOTENT_NOOP is in the ledger.     *)
LandedIsThere == landed \subseteq KeysOf(file)

(* The entries of the lines that parse: a torn line is the last one.       *)
Intact(f) == IF Readable(f) THEN Len(f) ELSE Len(f) - 1

Entries(f) == [i \in 1 .. Intact(f) |-> [key |-> f[i].key, ts |-> f[i].ts]]

Log == INSTANCE EventLog WITH
  Times <- 0 .. MaxClock,
  log <- Entries(file),
  readable <- Readable(file),
  told <- landed

(* To the writers of one process the ledger is one log that each append    *)
(* extends at once: reading, checking and writing are three steps, may be  *)
(* cut short and restarted, but nobody sees the file in between.           *)
ImplementsLog == Log!Spec

(* The lock is released on every path out of the critical section, so each *)
(* writer gets its turn and comes back.                                    *)
AppendReturns == \A w \in Writers : pc[w] = "waiting" ~> pc[w] = "idle"
=============================================================================
