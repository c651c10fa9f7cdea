----------------------------- MODULE MCDevMode ------------------------------
(* Small instances of DevMode: two users, one nhctl process each. *)
EXTENDS DevMode, TLC

CONSTANTS u1, u2

MCOwner == [c \in Clients |-> c]

UserSymmetry == Permutations({u1, u2})

(* What a process had in memory is gone when it exits. *)
MCView ==
    <<cluster, secret, pc, history,
      [c \in {d \in Clients : pc[d] # "idle"} |-> <<cmd[c], mode[c], meta[c], copy[c]>>]>>
=============================================================================
