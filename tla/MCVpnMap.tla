------------------------------ MODULE MCVpnMap ------------------------------
(* Small instances of VpnMap: addresses 2 and 3 of 0..4, the router has 1. *)
EXTENDS VpnMap, TLC

(* All prefer the same address, and the next one is found past the modulus. *)
MCHash(d) == 3

(* The addresses have one digit each. *)
MCTextLast(S) == Max(S)

Budget(n, what) ==
    [w \in {"connects", "prepares", "reverses", "fails", "redials", "crashes"} |->
        IF w = "connects" THEN n ELSE IF w = what THEN 1 ELSE 0]

(* Three Prepares to connect; or two, with another Prepare, a reverse, a   *)
(* failure, a re-dial or a crash.                                          *)
MCBudgets ==
    {Budget(3, "none")}
        \cup {Budget(2, w) : w \in {"prepares", "reverses", "fails", "redials", "crashes"}}

(* The devices have the same hash. *)
Same == Permutations(Devices)

(* What a device still has to use of what it has read. *)
Needed(d) ==
    <<IF Up(d) \/ pc[d] \in {"rented", "record", "port", "create", "increment", "incremented", "start"}
      THEN addr[d] ELSE 0,
      IF pc[d] \in {"rented", "reversed", "rerented", "read", "free", "delete"} THEN used[d] ELSE Nobody,
      IF pc[d] \in {"rent", "rented", "record", "rerent", "rerented", "rerecord"} THEN records[d] ELSE Nobody,
      IF pc[d] \in {"read", "free", "delete"} THEN fresh[d] ELSE {},
      IF pc[d] \in {"incremented", "decremented", "deleteMap", "deletePod"} THEN cur[d] ELSE 0,
      IF pc[d] \in {"release", "read", "free", "delete"} THEN tries[d] ELSE 0,
      IF pc[d] \in {"rerented", "rerecord"} THEN again[d] ELSE 0,
      IF pc[d] \in AgainLabels THEN goal[d] ELSE "up",
      d \in mine /\ ~ At(d, "idle")>>

MCView == <<cm, ref, pc, history, budget, [d \in Devices |-> Needed(d)]>>
=============================================================================
