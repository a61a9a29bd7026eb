----------------------------- MODULE MCHitlGate -----------------------------
(***************************************************************************)
(* HitlGate with two steps, each of any kind with or without a gate, that  *)
(* pauses the run or asks and escalates; and a choice of other setups in   *)
(* which policy, an excluded cell, a removal, a server that is not trusted *)
(* or a missing webhook decides.                                           *)
(***************************************************************************)
EXTENDS HitlGate

Plain(k, p) ==
  [kind |-> k, placed |-> p, level |-> "auto", blast |-> "read", trust |-> "allow"]

Ask(k) == Plain(k, TRUE)
Free(k) == Plain(k, FALSE)
Local(k) == [Ask(k) EXCEPT !.blast = "local"]

Config(p, e, s1, s2) ==
  [persona |-> p, engine |-> e, bound |-> TRUE, auto |-> {}, removed |-> FALSE,
   size |-> 2, step |-> <<s1, s2>>]

Kinds == {"inference", "tool", "sub-agent"}
Escalating ==
  {Config("team", e, Plain(k1, p1), Plain(k2, p2)) :
     e \in {"wal", "save-point"}, k1 \in Kinds, k2 \in Kinds, p1 \in BOOLEAN, p2 \in BOOLEAN}

Blocking ==
  {Config("solo", "replay", Ask("tool"), Ask("inference")),
   Config("solo", "replay", [Ask("tool") EXCEPT !.trust = "refuse"], Local("sub-agent"))}

Waived ==
  {[Config("solo", "reconciler", Local("tool"), Ask("inference")) EXCEPT !.auto = {"persona", "local"}],
   [Config("solo", "reconciler", Local("inference"), [Ask("tool") EXCEPT !.level = "ask"])
      EXCEPT !.auto = {"persona", "local"}],
   [Config("solo", "replay", Ask("sub-agent"), Local("sub-agent")) EXCEPT !.removed = TRUE],
   Config("compliance", "pure", Free("tool"), Ask("tool")),
   [Config("compliance", "wal", Ask("tool"), Ask("inference")) EXCEPT !.bound = FALSE]}

AllSetups == Escalating \cup Blocking \cup Waived
DaemonSetups == {Config("team", "wal", Ask("inference"), Free("tool"))}
=============================================================================
