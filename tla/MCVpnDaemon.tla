---------------------------- MODULE MCVpnDaemon -----------------------------
(* Small instances of VpnDaemon: two namespaces, one command at a time. *)
EXTENDS VpnDaemon

First == CHOOSE n \in Namespaces : TRUE

(* The first namespace gets c commands, the others d. *)
Budget(c, d) ==
    [cmds |-> [n \in Namespaces |-> IF n = First THEN c ELSE d], fails |-> 0, others |-> 0,
     crashes |-> 0, lists |-> 0, checks |-> 0]

(* Three commands in one namespace, or one in each of two; or one command  *)
(* and dials that fail or tunnels that break, writes of other devices,     *)
(* such a write and an informer that lists again, a health check or the    *)
(* restart of a daemon.                                                    *)
MCBudgets ==
    {Budget(3, 0), Budget(1, 1),
     [Budget(1, 0) EXCEPT !.fails = 2],
     [Budget(1, 0) EXCEPT !.others = 2],
     [Budget(1, 0) EXCEPT !.others = 1, !.lists = 1],
     [Budget(1, 0) EXCEPT !.others = 1, !.checks = 1],
     [Budget(1, 0) EXCEPT !.others = 1, !.crashes = 1]}

OneDelete == {[Budget(1, 0) EXCEPT !.others = 1]}

(* What a goroutine still has to use of what it has set. *)
Needed(p) ==
    <<IF InSudo(p) THEN act[p] ELSE None,
      IF pc[p] \in {"init", "operate", "Connect", "DisConnect"} THEN uid[p] ELSE 0,
      IF pc[p] = "unlist" THEN ns[p] ELSE None,
      IF pc[p] = "idle" THEN None ELSE job[p]>>

MCView == <<cluster, watcher, chan, pc, sudo, budget, [p \in Callers |-> Needed(p)]>>
=============================================================================
