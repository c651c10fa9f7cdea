----------------------------- MODULE MCAppMeta ------------------------------
(* Small instances of AppMeta: two users, one nhctl process each. *)
EXTENDS AppMeta, TLC

CONSTANTS u1, u2

MCOwner == [c \in Clients |-> c]

UserSymmetry == Permutations({u1, u2})

FromInstalled == {<<Installed>>}

FromNothing == {<< >>}

FromAny == FromInstalled \cup FromNothing

(* What a process had in memory is gone when it exits, and the next one    *)
(* loads all of it anew: it tells no states apart.                         *)
MCView ==
    <<log, pc, tries, clean, bounds,
      [c \in {d \in Clients : pc[d] # "idle"} |-> <<key[c], meta[c], base[c], src[c]>>]>>
=============================================================================
