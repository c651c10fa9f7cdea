---------------------------- MODULE MetaWatcher -----------------------------
(***************************************************************************)
(* The daemon's view of one application (appmeta_manager): a cache of its  *)
(* secret that is fed by a watch and by the nhctl processes of the device, *)
(* which push what they have written; the events that the daemon derives   *)
(* from every change of the cache; and the daemon's own writes, when it    *)
(* takes over or drops an application that it finds managed by helm or by  *)
(* annotations.                                                            *)
(*                                                                         *)
(* The secret is the sequence of versions that AppMeta explains.  Here all *)
(* writers but the daemon are one action.                                  *)
(***************************************************************************)
EXTENDS Naturals, Sequences

CONSTANTS
    Names,        \* the names under which DevMeta may hold a mark
    Users,        \* the identifiers of the developers' devices
    NoUser,       \* nobody holds the mark
    MaxVersions,  \* bound: versions of the secret
    MaxRestarts   \* bound: restarts of the daemon

ASSUME MetaWatcherAssumption ==
    NoUser \notin Users /\ MaxVersions \in Nat /\ MaxRestarts \in Nat

VARIABLES
    log,       \* the versions of the secret, oldest first
    pushes,    \* the versions that processes of this device are pushing
    watching,  \* the watcher is in the supervisor's deck
    store,     \* the version in the informer's store; 0: none yet
    queued,    \* the work queue holds the key of the secret
    taken,     \* the version the worker has read from the store; 0: none
    cache,     \* the ApplicationMeta in asw.applicationMetas
    pending,   \* pending[n]: the events of name n that are in the queue
    told,      \* told[n]: what the events popped so far say of n
    own,       \* the daemon's own write under way
    late,      \* history: the cache holds a version the watch has left behind
    edited,    \* history: a meta in the cache was changed in place
    restarts

feed == <<watching, store, queued, taken>>
events == <<pending, told>>
history == <<late, edited>>
vars == <<log, pushes, feed, cache, events, own, history, restarts>>

Marks == [Names -> Users \cup {NoUser}]

NoMarks == [n \in Names |-> NoUser]

(* An application that is not installed has no marks: see AppMeta.  One    *)
(* that is INSTALLING is left alone by the daemon, and is not modelled.    *)
Metas ==
    [state : {"INSTALLED"}, marks : Marks] \cup [state : {"UNINSTALLED"}, marks : {NoMarks}]

(* No secret, or no entry in the cache. *)
Missing == [state |-> "MISSING", marks |-> NoMarks]

View(v) == IF v = 0 THEN Missing ELSE log[v]

Newest == View(Len(log))

NoWrite == [step |-> "none", op |-> "none", shared |-> FALSE, meta |-> Missing]

-----------------------------------------------------------------------------
(* Events *)

Sta(u) == [type |-> "DEV_STA", user |-> u]

End(u) == [type |-> "DEV_END", user |-> u]

EndOf(u) == IF u = NoUser THEN << >> ELSE <<End(u)>>

StaOf(u) == IF u = NoUser THEN << >> ELSE <<Sta(u)>>

(* Mutant: whether a name is in the other map is not checked. *)
EventsUnchecked(from, to) == IF from = to THEN << >> ELSE <<End(from), Sta(to)>>

(* Mutant: a mark that passes from one user to another is one event. *)
EventsWithoutEnd(from, to) ==
    IF from = to THEN << >> ELSE IF to = NoUser THEN EndOf(from) ELSE StaOf(to)

(* ApplicationDevMeta.Events for one name.  The order of the events of     *)
(* different names is that of a map iteration.                             *)
Events(from, to) == IF from = to THEN << >> ELSE EndOf(from) \o StaOf(to)

(* join and left: the meta becomes m, under the lock of the watcher, and   *)
(* the events of the change are pushed.  A meta that somebody has got from *)
(* the cache is not the one in the cache any more.                         *)
Join(m) ==
    /\ cache' = m
    /\ pending' = [n \in Names |-> pending[n] \o Events(cache.marks[n], m.marks[n])]
    /\ own' = [own EXCEPT !.shared = FALSE]

(* What the listeners know of a name after an event. *)
After(e) == IF e.type = "DEV_STA" THEN e.user ELSE NoUser

(* EventPop and the listeners. *)
Consume(n) ==
    /\ pending[n] # << >>
    /\ told' = [told EXCEPT ![n] = After(Head(pending[n]))]
    /\ pending' = [pending EXCEPT ![n] = Tail(@)]
    /\ UNCHANGED <<log, pushes, feed, cache, own, history, restarts>>

-----------------------------------------------------------------------------
(* The secret *)

(* Some process writes, creates or deletes the secret; if it is an nhctl   *)
(* process of this device, it goes on to push the version to the daemon.   *)
Write(m, local) ==
    /\ Len(log) < MaxVersions
    /\ m # Newest
    /\ local => m # Missing
    /\ log' = Append(log, m)
    /\ pushes' = pushes \cup (IF local THEN {Len(log) + 1} ELSE {})
    /\ UNCHANGED <<feed, cache, events, own, history, restarts>>

(* UpdateApplicationMetasManually; versions are not compared.  A push that *)
(* is lost is one that never arrives.                                      *)
UpdateManually(v) ==
    /\ v \in pushes /\ watching
    /\ Join(View(v))
    /\ pushes' = pushes \ {v}
    /\ late' = (v # Len(log))
    /\ UNCHANGED <<log, feed, told, edited, restarts>>

-----------------------------------------------------------------------------
(* The watch *)

(* The first request for the namespace: all secrets are listed, if that    *)
(* is permitted, and the watch is started.                                 *)
Prepare ==
    /\ ~watching
    /\ watching' = TRUE
    /\ IF Newest = Missing THEN UNCHANGED <<cache, pending, own>>
         ELSE Join(Newest) \/ UNCHANGED <<cache, pending, own>>
    /\ UNCHANGED <<log, pushes, store, queued, taken, told, history, restarts>>

(* The informer calls a handler when it moves from its version to v. *)
Seen(v) == View(v) # Missing \/ View(store) # Missing

(* Mutant: the key is not queued when the secret is deleted. *)
ListWatchNoDelete(v) ==
    /\ watching /\ v > store
    /\ store' = v
    /\ queued' = (queued \/ View(v) # Missing)
    /\ late' = (late \/ (~Seen(v) /\ cache # Missing))
    /\ UNCHANGED <<log, pushes, watching, taken, cache, events, own, edited, restarts>>

(* The informer lists or watches the secret up to version v: the store is  *)
(* changed and the key queued, once for any number of changes.  A secret   *)
(* that came and went unseen by the informer is no change to it, even if   *)
(* the list of Prepare or a push has brought it to the cache.              *)
ListWatch(v) ==
    /\ watching /\ v > store
    /\ store' = v
    /\ queued' = (queued \/ Seen(v))
    /\ late' = (late \/ (~Seen(v) /\ cache # Missing))
    /\ UNCHANGED <<log, pushes, watching, taken, cache, events, own, edited, restarts>>

(* The worker takes the key and reads the store, ... *)
Take ==
    /\ queued /\ taken = 0
    /\ queued' = FALSE
    /\ taken' = store
    /\ UNCHANGED <<log, pushes, watching, store, cache, events, own, history, restarts>>

(* ... and CreateOrUpdate or Delete changes the cache. *)
Process ==
    /\ taken # 0
    /\ Join(View(taken))
    /\ taken' = 0
    /\ late' = FALSE
    /\ UNCHANGED <<log, pushes, watching, store, queued, told, edited, restarts>>

-----------------------------------------------------------------------------
(* The daemon's own writes *)

(* A managed application is installed without nocalhost's knowing, or      *)
(* gone.  GetApplicationMeta returns the very object of the cache, if      *)
(* there is one.                                                           *)
GetMeta(op) ==
    /\ watching /\ own.step = "none"
    /\ op = "initial" <=> cache.state # "INSTALLED"
    /\ own' = [step |-> "got", op |-> op, shared |-> cache # Missing, meta |-> cache]
    /\ UNCHANGED <<log, pushes, feed, cache, events, history, restarts>>

(* The object is changed, and with it the cache if it is still there. *)
ChangeInPlace(m, step) ==
    /\ own' = [own EXCEPT !.meta = m, !.step = step]
    /\ IF own.shared
         THEN cache' = m /\ edited' = (edited \/ m # cache)
         ELSE UNCHANGED <<cache, edited>>
    /\ UNCHANGED <<log, pushes, feed, events, late, restarts>>

(* OneTimesInitial: the object takes over the newest secret and becomes    *)
(* INSTALLED; just after an uninstall it may be protected.                 *)
OneTimesInitial ==
    /\ own.step = "got" /\ own.op = "initial"
    /\ IF Newest = Missing
         THEN ChangeInPlace([state |-> "INSTALLED", marks |-> own.meta.marks], "create")
         ELSE \/ ChangeInPlace([Newest EXCEPT !.state = "INSTALLED"], "update")
              \/ Newest.state = "UNINSTALLED" /\ ChangeInPlace(Newest, "failed")

(* Delete: the object becomes UNINSTALLED and loses its marks. *)
Delete ==
    /\ own.step = "got" /\ own.op = "delete"
    /\ ChangeInPlace([state |-> "UNINSTALLED", marks |-> NoMarks], "update")

(* Update() writes the object whatever the newest version is, and pushes   *)
(* it to the daemon itself; a fresh secret is created and not pushed.      *)
WriteOwn ==
    /\ Len(log) < MaxVersions
    /\ \/ /\ own.step = "update" /\ Newest # Missing
          /\ pushes' = pushes \cup {Len(log) + 1}
       \/ /\ own.step = "create" /\ Newest = Missing
          /\ UNCHANGED pushes
    /\ log' = Append(log, own.meta)
    /\ own' = NoWrite
    /\ UNCHANGED <<feed, cache, events, history, restarts>>

(* An error of any call ends it; what is changed in place stays changed. *)
WriteOwnFails ==
    /\ own.step # "none"
    /\ own' = NoWrite
    /\ UNCHANGED <<log, pushes, feed, cache, events, history, restarts>>

(* The daemon is stopped and started again, with nothing in its memory. *)
Restart ==
    /\ restarts < MaxRestarts
    /\ restarts' = restarts + 1
    /\ watching' = FALSE /\ store' = 0 /\ queued' = FALSE /\ taken' = 0
    /\ cache' = Missing
    /\ pending' = [n \in Names |-> << >>] /\ told' = NoMarks
    /\ own' = NoWrite
    /\ late' = FALSE /\ edited' = FALSE
    /\ UNCHANGED <<log, pushes>>

-----------------------------------------------------------------------------
Init ==
    /\ log = << >> /\ pushes = {}
    /\ watching = FALSE /\ store = 0 /\ queued = FALSE /\ taken = 0
    /\ cache = Missing
    /\ pending = [n \in Names |-> << >>] /\ told = NoMarks
    /\ own = NoWrite
    /\ late = FALSE /\ edited = FALSE
    /\ restarts = 0

Next ==
    \/ \E m \in Metas \cup {Missing}, local \in BOOLEAN : Write(m, local)
    \/ \E v \in 1..Len(log) : UpdateManually(v) \/ ListWatch(v)
    \/ Prepare \/ Take \/ Process
    \/ \E n \in Names : Consume(n)
    \/ \E op \in {"initial", "delete"} : GetMeta(op)
    \/ OneTimesInitial \/ Delete \/ WriteOwn \/ WriteOwnFails
    \/ Restart

Spec == Init /\ [][Next]_vars

(* The goroutines of the daemon go on: the informer lists again after an   *)
(* error, the worker and the event loop never return.  Nobody else has to. *)
Fairness ==
    /\ WF_vars(ListWatch(Len(log)))
    /\ WF_vars(Take)
    /\ WF_vars(Process)
    /\ \A n \in Names : WF_vars(Consume(n))

FairSpec == Spec /\ Fairness

-----------------------------------------------------------------------------
Event == [type : {"DEV_STA", "DEV_END"}, user : Users]

(* Types. *)
TypeOK ==
    /\ log \in Seq(Metas \cup {Missing})
    /\ pushes \subseteq 1..Len(log)
    /\ watching \in BOOLEAN /\ queued \in BOOLEAN
    /\ store \in 0..Len(log) /\ taken \in 0..Len(log)
    /\ cache \in Metas \cup {Missing}
    /\ pending \in [Names -> Seq(Event)]
    /\ told \in Marks
    /\ own \in [step : {"none", "got", "update", "create", "failed"},
                op : {"none", "initial", "delete"}, shared : BOOLEAN,
                meta : Metas \cup {Missing}]
    /\ late \in BOOLEAN /\ edited \in BOOLEAN
    /\ restarts \in 0..MaxRestarts

(* What they have to know before it: a DEV_END names the user they believe *)
(* to develop, a DEV_STA comes when they believe that nobody does.         *)
Before(e) == IF e.type = "DEV_END" THEN e.user ELSE NoUser

(* The events es lead from knowledge t to knowledge c. *)
Leads(t, es, c) ==
    /\ \A i \in 1..Len(es) : Before(es[i]) = IF i = 1 THEN t ELSE After(es[i - 1])
    /\ c = IF es = << >> THEN t ELSE After(es[Len(es)])

(* The events in the queue lead the listeners to the marks of the cache. *)
Told == \A n \in Names : Leads(told[n], pending[n], cache.marks[n])

(* The events that join and left push always lead the listeners to the     *)
(* marks of the cache, whatever the order in which pushes, watch and       *)
(* restarts change it, as long as nobody changes a cached meta in place.   *)
EventsTellCache == ~edited => Told

(* Once the secret rests, so do the cache and the listeners, and they have *)
(* the newest version, unless a push arrived later than the watch had it   *)
(* or the cache was changed in place.  The informer never resynchronises.  *)
Settles ==
    <>[](watching /\ ~late /\ ~edited => cache = Newest /\ told = Newest.marks)
=============================================================================
