------------------------------ MODULE DevMarks ------------------------------
(***************************************************************************)
(* What the dev-mode marks of one application promise, as one atomic       *)
(* register.  A workload is developed under a key: the shared key of its   *)
(* replace dev mode, or the key of one user's duplicate of it.  A key is   *)
(* free, or being started by a user, or started by a user.                 *)
(*                                                                         *)
(* The code keeps the marks in a Kubernetes secret that every nhctl        *)
(* process loads, edits and writes back as a whole: see AppMeta, which     *)
(* says when that implements this register.                                *)
(***************************************************************************)

CONSTANTS
    Svcs,    \* the workloads of the application
    Users,   \* the identifiers of the developers' devices
    Shared,  \* the second half of a replace dev mode's key
    NoUser   \* nobody holds the mark

VARIABLES
    starting,  \* starting[k]: who has put the ">...Starting" mark on k
    started    \* started[k]: who develops k

vars == <<starting, started>>

(* A key names a workload and either its replace dev mode, which all users *)
(* share, or the duplicate of one user.                                    *)
Keys == Svcs \X (Users \cup {Shared})

MayHold(k) == IF k[2] = Shared THEN Users ELSE {k[2]}

NoMarks == [k \in Keys |-> NoUser]

(* Who holds k, in either stage. *)
Holder(k) == IF started[k] # NoUser THEN started[k] ELSE starting[k]

Init == starting = NoMarks /\ started = NoMarks

Start(k, u) ==
    /\ Holder(k) = NoUser
    /\ starting' = [starting EXCEPT ![k] = u]
    /\ UNCHANGED started

Complete(k, u) ==
    /\ starting[k] = u
    /\ started[k] = NoUser
    /\ starting' = [starting EXCEPT ![k] = NoUser]
    /\ started' = [started EXCEPT ![k] = u]

(* Anybody may end the dev mode of a key. *)
End(k) ==
    /\ starting' = [starting EXCEPT ![k] = NoUser]
    /\ started' = [started EXCEPT ![k] = NoUser]

(* Uninstalling the application ends all of them. *)
Clear == starting' = NoMarks /\ started' = NoMarks

Next ==
    \/ \E k \in Keys : End(k) \/ \E u \in MayHold(k) : Start(k, u) \/ Complete(k, u)
    \/ Clear

Spec == Init /\ [][Next]_vars

(* A key that is held passes to another user only after it was free: the   *)
(* promise behind ErrAlreadyDev, "Svc already in dev mode".                *)
HandOver ==
    [][\A k \in Keys : Holder(k) = NoUser \/ Holder(k)' \in {Holder(k), NoUser}]_vars
=============================================================================
