--------------------------- MODULE MCPortForward ----------------------------
(* Small instances of PortForward. *)
EXTENDS PortForward, TLC

(* c commands, b at a time, and one of each of what else may happen. *)
Budget(c, b, ps, also) ==
    [w \in {"errors", "timeouts", "nopod", "restarts"} |-> IF w \in also THEN 1 ELSE 0] @@
    [cmds |-> c, busy |-> b, ports |-> ps, scanned |-> also \cap {"nopod", "restarts"} = {}]

One == {CHOOSE k \in Ports : TRUE}

(* Two commands at a time, for two ports and, with an error, for one;      *)
(* one after the other, with an error and a timeout; a first start of the  *)
(* daemon with a command beside its recovery, an error, a missing pod and  *)
(* a restart; and a restart with records of two ports.                     *)
MCBudgets ==
    {Budget(2, 2, Ports, {}), Budget(2, 2, One, {"errors"}),
     Budget(2, 1, One, {"errors", "timeouts"}),
     Budget(1, 2, One, {"errors", "nopod", "restarts"}), Budget(2, 1, Ports, {"restarts"})}

(* What a goroutine still has to use of what it was given. *)
MCView ==
    <<stored, pfList, run, cancelled, listening, waiting, dials, fired, stopCh, pc, history, budget,
      [r \in Runs |-> IF run[r] = "off" /\ r \notin listening \cup waiting \cup dials \cup fired THEN None ELSE key[r]],
      [p \in Callers |-> IF pc[p] \in {"idle", "scan", "recover"} THEN NoJob ELSE job[p]],
      IF pc[Recovery] \in {"idle", "scan"} THEN 0 ELSE todo>>
=============================================================================
