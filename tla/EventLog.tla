------------------------------ MODULE EventLog ------------------------------
(***************************************************************************)
(* What the state ledger promises to whoever appends to it: a log of       *)
(* distinct keys in the order of time, extended by one entry at a time,    *)
(* all at once, and what is reported to be in it is in it.  It can become  *)
(* unreadable, and then takes no more entries; and a power loss may take   *)
(* entries back, the latest first.  StateLedger implements it, with a file *)
(* that is read, checked, extended and cut short in separate steps.        *)
(***************************************************************************)
EXTENDS Naturals, Sequences

CONSTANTS
  Keys,     (* idempotency keys                                            *)
  Times     (* time stamps, natural numbers                                *)

VARIABLES
  log,      (* the entries, each a key and its time stamp                  *)
  readable, (* the file parses                                             *)
  told      (* keys that were reported as written or as known              *)

vars == <<log, readable, told>>

Recorded(l) == {l[i].key : i \in DOMAIN l}

Init == log = <<>> /\ readable = TRUE /\ told = {}

(* A new key, not older than the last entry: APPENDED.                     *)
Record ==
  /\ readable
  /\ \E k \in Keys \ Recorded(log), t \in Times :
       /\ log # <<>> => log[Len(log)].ts <= t
       /\ log' = Append(log, [key |-> k, ts |-> t])
       /\ told' = told \cup {k}
  /\ UNCHANGED readable

(* A key that the log has: IDEMPOTENT_NOOP.                                *)
Acknowledge ==
  /\ readable
  /\ \E k \in Recorded(log) : told' = told \cup {k}
  /\ UNCHANGED <<log, readable>>

(* A write is cut short.                                                   *)
Spoil ==
  /\ readable /\ readable' = FALSE
  /\ UNCHANGED <<log, told>>

(* Power is lost, and with it the end of the log.                          *)
Lose ==
  /\ \E n \in 0 .. Len(log) : log' = SubSeq(log, 1, n)
  /\ readable' \in BOOLEAN
  /\ told' = told \cap Recorded(log')

Next == Record \/ Acknowledge \/ Spoil \/ Lose

Spec == Init /\ [][Next]_vars
=============================================================================
