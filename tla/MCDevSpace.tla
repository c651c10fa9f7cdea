----------------------------- MODULE MCDevSpace -----------------------------
(* Small instances of DevSpace. *)
EXTENDS DevSpace, TLC

CONSTANTS u1, u2

Some == {<< <<"view", u1>> >>, << <<"coop", u2>>, <<"coop", u1>> >>}
Same == Permutations(Requests)

(* Versions of a binding that the watcher has passed are never looked at   *)
(* again, and of a version's number only the distance to the last one      *)
(* counts; "crossed" is only asked for calls that are still to come.       *)
MCView ==
  <<scope, spaces, name, made, cached, ns,
    [p \in Places |-> [d \in Roles |->
       IF d = "admin" THEN <<Now(p, d)>> ELSE SubSeq(log[p][d], seen[p][d], Len(log[p][d]))]],
    [r \in Requests |->
       IF req[r].op = "none" THEN Idle
       ELSE [req[r] EXCEPT
               !.got.version = IF req[r].got = NoRead THEN 0
                               ELSE Len(log[req[r].at][Here(r).role]) + 1 - @,
               !.crossed = IF req[r].op \in {"share", "recreate"} THEN @ \cap Concerns(r) ELSE {}]],
    events, history>>
=============================================================================
