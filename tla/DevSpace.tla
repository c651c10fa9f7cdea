------------------------------ MODULE DevSpace ------------------------------
(***************************************************************************)
(* The dev spaces of nocalhost-api and who may use them.  A dev space is a *)
(* record of the database together with either a namespace of its own or,  *)
(* for a cluster dev space, rights on the whole cluster.  The rights are   *)
(* the subjects of three role bindings: admin (the owner), coop and view.  *)
(* Nothing else says whom a space is shared with: the server keeps what    *)
(* its watchers last saw of the bindings, and asks that.                   *)
(*                                                                         *)
(* A handler runs in a goroutine of its own.  It is a program of calls:    *)
(* todo is a sequence of groups, a call that fails ends its group, and     *)
(* with it the handler if the group is one the handler insists on (must).  *)
(* Every Get and every Update of a binding is a step; an Update that does  *)
(* not name the binding's last version is refused, and nothing retries it. *)
(***************************************************************************)
EXTENDS Naturals, Sequences, FiniteSets, SequencesExt

CONSTANTS Users,        \* users a space may be shared with
          Owner,        \* the owner of the spaces, here also an admin of the server
          Default,      \* the default service account of a namespace
          Requests,     \* goroutines that handle a request
          Scopes,       \* the kinds of dev spaces to look at: "ns", "cluster"
          Targets,      \* what a share request may ask for: sequences of <<role, user>>
          MaxSpaces,    \* bounds: spaces ever created,
          MaxEvents     \* requests, failing calls and restarts of the server together

ASSUME DevSpaceAssumption ==
  /\ MaxSpaces \in Nat \ {0} /\ MaxEvents \in Nat
  /\ Scopes \subseteq {"ns", "cluster"}
  /\ IsFiniteSet(Users) /\ "nobody" \notin Users \cup {Owner, Default}
  /\ Owner \notin Users /\ Default \notin Users /\ Owner # Default
  /\ Targets \subseteq Seq({"coop", "view"} \X Users) \ {<< >>}

Ids == 1..MaxSpaces
Places == 0..MaxSpaces      \* 0: the cluster itself
Roles == {"admin", "coop", "view"}
Subjects == Users \cup {Owner, Default}
Shared == {"coop", "view"}
Gone == {"nobody"}          \* the binding does not exist
NoRead == [version |-> 0, who |-> Gone]

VARIABLES
  scope,      \* the kind of dev spaces of this behaviour
  spaces,     \* the ids the database has a record for
  name,       \* the space name of every id, 0 before it has one
  made,       \* how many namespaces or records have been created
  cached,     \* the ids in the server's cache of records
  ns,         \* the namespaces: "none", "live" or "terminating"
  log,        \* log[p][b]: all versions of binding b of place p
  seen,       \* the version the watcher has joined; of the owners' binding it is
              \* only shown, and left out here
  req,        \* the requests under way
  events,     \* how many of the bounded events have happened
  leaked,     \* history: namespaces created again by CreateNamespaceINE, not deleted
              \* because the call failed, or created without a record because that
              \* call failed, or the answer to the creation was lost
  spoiled,    \* history: users whom a call that failed, or was killed, was about
  killed,     \* history: a restart ended a request
  stayed      \* history: rights were given during or after a delete, were not in the
              \* cache when a delete listed whom to remove, or were not removed
              \* because a failed Get passed for success

world == <<scope, spaces, name, made, cached, ns, log, seen>>
history == <<leaked, spoiled, killed, stayed>>
vars == <<world, req, events, history>>

Place(id) == IF scope = "cluster" THEN 0 ELSE id
Now(p, b) == log[p][b][Len(log[p][b])]
Bound(p, b) == Now(p, b) \ Gone
Cached(p, b) == log[p][b][seen[p][b]] \ Gone

Call(call, role, who) == [call |-> call, role |-> role, who |-> who]
Plain(call) == Call(call, "admin", Owner)
Idle == [op |-> "none", id |-> 0, at |-> 0, todo |-> << >>, got |-> NoRead, crossed |-> {}]
Active == {r \in Requests : req[r].op # "none"}
Here(r) == Head(Head(req[r].todo).calls)
At(r, call) == /\ req[r].op # "none"
               /\ Here(r).call = call

-----------------------------------------------------------------------------
(* The programs of the handlers. *)

Must(calls) == [must |-> TRUE, calls |-> calls]
May(calls) == [must |-> FALSE, calls |-> calls]
Namespace == IF scope = "ns" THEN <<Plain("namespace")>> ELSE << >>
Other(role) == IF role = "coop" THEN "view" ELSE "coop"

(* Mutant: the user is taken from the other binding first. *)
AsRemovingFirst(role, u) ==
  May(Namespace \o <<Call("remove", Other(role), u), Call("append", role, u)>>)

(* AsCooperator and AsViewer: add the user to one binding, then take the   *)
(* user from the other.                                                    *)
As(role, u) ==
  May(Namespace \o <<Call("append", role, u), Call("remove", Other(role), u)>>)

ShareProgram(targets) == [i \in DOMAIN targets |-> As(targets[i][1], targets[i][2])]

UnShareProgram(u) ==
  IF scope = "cluster"
  THEN <<May(<<Call("remove", "coop", u)>>), May(<<Call("remove", "view", u)>>)>>
  ELSE <<May(<<Call("remove", "view", u)>>), May(<<Call("remove", "coop", u)>>)>>

Authorize == Namespace \o <<Call("append", "admin", Owner)>>
AuthorizeDefault == Namespace \o <<Call("append", "admin", Default)>>

CreateProgram ==
  IF scope = "cluster"
  THEN <<Must(<<Plain("check"), Plain("insert")>> \o Authorize)>>
  ELSE <<Must(<<Plain("createNs"), Plain("insert")>> \o Authorize \o AuthorizeDefault)>>

(* Mutant: the viewers are not removed. *)
DeleteProgramKeepingViewers ==
  IF scope = "cluster"
  THEN <<Must(<<Call("removeAll", "coop", Owner),
                Call("unauthorize", "admin", Owner), Plain("forget"), Plain("evict")>>)>>
  ELSE <<Must(<<Plain("deleteNs"), Plain("forget"), Plain("evict")>>)>>

(* Mutant: only the record is deleted. *)
DeleteProgramOfRecord ==
  <<Must(<<Plain("forget"), Plain("evict")>>)>>

(* DevSpace.Delete: what the space has in the cluster, then its record. *)
DeleteProgram ==
  IF scope = "cluster"
  THEN <<Must(<<Call("removeAll", "view", Owner), Call("removeAll", "coop", Owner),
                Call("unauthorize", "admin", Owner), Plain("forget"), Plain("evict")>>)>>
  ELSE <<Must(<<Plain("deleteNs"), Plain("forget"), Plain("evict")>>)>>

(* ReCreate after it has listed the users of the space.  Both the creation *)
(* and the handler itself authorize the owner and the default account.     *)
ReCreateProgram(viewers, coopers) ==
  <<Must(<<Plain("deleteNs"), Plain("forget"), Plain("evict"), Plain("checkName"),
           Plain("createNs"), Plain("insert")>>
         \o Authorize \o AuthorizeDefault \o Authorize \o AuthorizeDefault)>>
  \o [i \in DOMAIN viewers |-> As("view", viewers[i])]
  \o [i \in DOMAIN coopers |-> As("coop", coopers[i])]

-----------------------------------------------------------------------------
(* Steps of a program. *)

(* The rest of a program when its first call is over, or its first group. *)
AfterCall(todo) ==
  IF Len(Head(todo).calls) > 1
  THEN <<[Head(todo) EXCEPT !.calls = Tail(@)]>> \o Tail(todo)
  ELSE Tail(todo)
AfterFailure(todo) == IF Head(todo).must THEN << >> ELSE Tail(todo)

With(request, todo) ==
  IF todo = << >> THEN Idle ELSE [request EXCEPT !.todo = todo, !.got = NoRead]
Continue(r) == req' = [req EXCEPT ![r] = With(@, AfterCall(@.todo))]
GiveUp(r) == req' = [req EXCEPT ![r] = With(@, AfterFailure(@.todo))]
Spoil(r) == spoiled' = spoiled \cup {Here(r).who}

(* A handler that was asked to act on id: it takes the record from the     *)
(* cache, or reads it and adds it to the cache in a later step.            *)
Handle(r, op, id, program) ==
  /\ req[r].op = "none"
  /\ events < MaxEvents
  /\ id \in spaces \cup cached
  /\ events' = events + 1
  /\ req' = [req EXCEPT ![r] =
       [Idle EXCEPT !.op = op, !.id = id, !.at = Place(id),
                    !.todo = IF id \in cached THEN program
                             ELSE <<Must(<<Plain("add")>>)>> \o program]]
  /\ UNCHANGED <<world, history>>

(* HasModifyPermissionToSomeDevSpace: the owner and the admins, and whom   *)
(* the watcher's cache knows as a cooperator of the namespace.             *)
MayModify(by, id) == by = Owner \/ (scope = "ns" /\ by \in Cached(id, "coop"))

Share(r, id, by, targets) ==
  /\ MayModify(by, id)
  /\ Handle(r, "share", id, ShareProgram(targets))

UnShare(r, id, by, u) ==
  /\ MayModify(by, id)
  /\ Handle(r, "unshare", id, UnShareProgram(u))

Delete(r, id) == Handle(r, "delete", id, DeleteProgram)

ReCreate(r, id, by) ==
  /\ scope = "ns"
  /\ MayModify(by, id)
  /\ Handle(r, "recreate", id, <<Must(<<Call("list", "admin", by)>>)>>)

Create(r) ==
  /\ req[r].op = "none"
  /\ events < MaxEvents
  /\ events' = events + 1
  /\ req' = [req EXCEPT ![r] = [Idle EXCEPT !.op = "create", !.todo = CreateProgram]]
  /\ UNCHANGED <<world, history>>

-----------------------------------------------------------------------------
(* The database. *)

Add(r) ==
  /\ At(r, "add")
  /\ cached' = cached \cup {req[r].id}
  /\ Continue(r)
  /\ UNCHANGED <<scope, spaces, name, made, ns, log, seen, events, history>>

(* DoList: the record, and the users of the space as the watcher knows     *)
(* them; somebody who is not an admin only sees a space of his own.        *)
List(r) ==
  /\ At(r, "list")
  /\ \E viewers \in SetToSeqs(Cached(req[r].at, "view")),
        coopers \in SetToSeqs(Cached(req[r].at, "coop")) :
          req' = [req EXCEPT ![r] =
            IF /\ req[r].id \in spaces
               /\ Here(r).who \in {Owner} \cup ToSet(viewers) \cup ToSet(coopers)
            THEN [@ EXCEPT !.todo = ReCreateProgram(viewers, coopers)]
            ELSE Idle]
  /\ UNCHANGED <<world, events, history>>

Forget(r) ==
  /\ At(r, "forget")
  /\ spaces' = spaces \ {req[r].id}
  /\ Continue(r)
  /\ UNCHANGED <<scope, name, made, cached, ns, log, seen, events, history>>

Evict(r) ==
  /\ At(r, "evict")
  /\ cached' = cached \ {req[r].id}
  /\ Continue(r)
  /\ UNCHANGED <<scope, spaces, name, made, ns, log, seen, events, history>>

(* createClusterDevSpace: the owner has no cluster space yet.              *)
Check(r) ==
  /\ At(r, "check")
  /\ IF spaces = {} THEN Continue(r) ELSE GiveUp(r)
  /\ UNCHANGED <<world, events, history>>

(* Create: no space has the name of the one to be created again.           *)
CheckName(r) ==
  /\ At(r, "checkName")
  /\ IF \E id \in spaces : name[id] = name[req[r].id] THEN GiveUp(r) ELSE Continue(r)
  /\ UNCHANGED <<world, events, history>>

(* The new record: of the namespace just created or, for a cluster space,  *)
(* a new one.  A new space has a name of its own.                          *)
Insert(r) ==
  /\ At(r, "insert")
  /\ LET new == IF scope = "cluster" THEN made + 1 ELSE req[r].at IN
       /\ new <= MaxSpaces
       /\ made' = IF scope = "cluster" THEN new ELSE made
       /\ spaces' = spaces \cup {new}
       /\ name' = [name EXCEPT ![new] = IF req[r].op = "recreate" THEN name[req[r].id] ELSE new]
       /\ req' = [req EXCEPT ![r] =
            [With(@, AfterCall(@.todo)) EXCEPT !.at = Place(new)]]
  /\ UNCHANGED <<scope, cached, ns, log, seen, events, history>>

-----------------------------------------------------------------------------
(* Namespaces. *)

(* A namespace with a generated name. *)
CreateNs(r) ==
  /\ At(r, "createNs")
  /\ made < MaxSpaces
  /\ made' = made + 1
  /\ ns' = [ns EXCEPT ![made + 1] = "live"]
  /\ req' = [req EXCEPT ![r] = [With(@, AfterCall(@.todo)) EXCEPT !.at = made + 1]]
  /\ UNCHANGED <<scope, spaces, name, cached, log, seen, events, history>>

(* CreateNamespaceINE: creates the namespace unless it exists, be it only  *)
(* until its deletion is over.                                             *)
CreateNamespaceINE(r) ==
  /\ At(r, "namespace")
  /\ LET p == req[r].at IN
       IF ns[p] = "none"
       THEN /\ ns' = [ns EXCEPT ![p] = "live"]
            /\ leaked' = leaked \cup {p}
       ELSE UNCHANGED <<ns, leaked>>
  /\ Continue(r)
  /\ UNCHANGED <<scope, spaces, name, made, cached, log, seen,
                 events, spoiled, killed, stayed>>

DeleteNs(r) ==
  /\ At(r, "deleteNs")
  /\ ns' = [ns EXCEPT ![req[r].at] = IF @ = "live" THEN "terminating" ELSE @]
  /\ Continue(r)
  /\ UNCHANGED <<scope, spaces, name, made, cached, log, seen,
                 events, history>>

(* The cluster is done with the deletion: the bindings of the namespace    *)
(* have gone with it.                                                      *)
Terminated(p) ==
  /\ ns[p] = "terminating"
  /\ ns' = [ns EXCEPT ![p] = "none"]
  /\ log' = [log EXCEPT ![p] =
       [b \in Roles |-> IF Now(p, b) = Gone THEN @[b] ELSE Append(@[b], Gone)]]
  /\ UNCHANGED <<scope, spaces, name, made, cached, seen, req,
                 events, history>>

-----------------------------------------------------------------------------
(* Role bindings. *)

(* AppendRoleBinding, RemoveRoleBinding and their cluster counterparts     *)
(* begin with a Get.  A user who is there is not added again; from a       *)
(* binding without subjects nobody is removed.  Of a binding that does not *)
(* exist, nobody is removed from a namespace's, and a cluster's is an      *)
(* error, which UnAuthorizeClusterToUser lets pass.                        *)
Reads(r) == At(r, "append") \/ At(r, "remove") \/ At(r, "unauthorize")

Get(r) ==
  /\ Reads(r)
  /\ req[r].got = NoRead
  /\ LET p == req[r].at
         b == Here(r).role
         read == [version |-> Len(log[p][b]), who |-> Now(p, b)] IN
       CASE /\ Here(r).call = "append"
            /\ Here(r).who \notin read.who ->
              req' = [req EXCEPT ![r].got = read]
         [] /\ Here(r).call # "append"
            /\ read.who \notin {{}, Gone} ->
              req' = [req EXCEPT ![r].got = read]
         [] /\ Here(r).call = "remove"
            /\ scope = "cluster"
            /\ read.who = Gone ->
              GiveUp(r)
         [] OTHER -> Continue(r)
  /\ UNCHANGED <<world, events, history>>

(* Mutant: a binding that does not exist is taken for one. *)
WrittenOverMissing(r) ==
  IF Here(r).call = "append" THEN req[r].got.who \cup {Here(r).who}
  ELSE req[r].got.who \ {Here(r).who}

(* The subjects an Update or a Create would leave. *)
Written(r) ==
  IF Here(r).call = "append" THEN (req[r].got.who \ Gone) \cup {Here(r).who}
  ELSE req[r].got.who \ {Here(r).who}

(* The server takes an Update of the version that was read, and a Create   *)
(* of what does not exist in a namespace that is not being deleted.        *)
Accepted(r) ==
  LET p == req[r].at
      b == Here(r).role IN
  /\ Len(log[p][b]) = req[r].got.version
  /\ req[r].got.who = Gone => (scope = "cluster" \/ ns[p] = "live")

Write(r) ==
  /\ log' = [log EXCEPT ![req[r].at][Here(r).role] = Append(@, Written(r))]
  /\ stayed' = (stayed \/ (/\ Here(r).call = "append"
                           /\ (spaces = {} \/ \E q \in Active : req[q].op = "delete")))

(* For every other request something has happened to this user meanwhile.  *)
Crossed(r, requests) ==
  [q \in Requests |->
     IF q # r /\ requests[q].op # "none"
     THEN [requests[q] EXCEPT !.crossed = @ \cup {Here(r).who}]
     ELSE requests[q]]

Put(r) ==
  /\ Reads(r)
  /\ req[r].got # NoRead
  /\ Accepted(r)
  /\ Write(r)
  /\ req' = Crossed(r, [req EXCEPT ![r] = With(@, AfterCall(@.todo))])
  /\ UNCHANGED <<scope, spaces, name, made, cached, ns, seen,
                 events, leaked, spoiled, killed>>

(* A conflict, or a namespace that is being deleted or gone: an error that *)
(* the handler logs or returns.                                            *)
PutRefused(r) ==
  /\ Reads(r)
  /\ req[r].got # NoRead
  /\ ~Accepted(r)
  /\ GiveUp(r)
  /\ Spoil(r)
  /\ UNCHANGED <<world, events, leaked, killed, stayed>>

(* RemoveAllFromViewer and RemoveAllFromCooperator: one removal for every  *)
(* user the watcher knows of.                                              *)
Removing(role, us, todo) ==
  <<[Head(todo) EXCEPT !.calls =
       [i \in DOMAIN us |-> Call("remove", role, us[i])] \o Tail(@)]>>
  \o Tail(todo)

RemoveAll(r) ==
  /\ At(r, "removeAll")
  /\ \E us \in SetToSeqs(Cached(req[r].at, Here(r).role)) :
          req' = [req EXCEPT ![r].todo = Removing(Here(r).role, us, @)]
  /\ stayed' = (stayed \/ ~(Bound(req[r].at, Here(r).role) \subseteq
                              Cached(req[r].at, Here(r).role)))
  /\ UNCHANGED <<world, events, leaked, spoiled, killed>>

-----------------------------------------------------------------------------
(* Failures. *)

(* A call fails.  DevSpace.Delete goes on without having deleted the       *)
(* namespace, a record that cannot be read counts as one that is not       *)
(* there, and RemoveClusterRoleBinding takes a Get that fails for a        *)
(* removal that is done.                                                   *)
Ignored(r) ==
  \/ Here(r).call \in {"deleteNs", "check", "checkName"}
  \/ /\ scope = "cluster"
     /\ Here(r).call \in {"remove", "unauthorize"}
     /\ req[r].got = NoRead

Fails(r) ==
  /\ req[r].op # "none"
  /\ Here(r).call \notin {"add", "list", "forget", "evict", "removeAll"}
  /\ events < MaxEvents
  /\ events' = events + 1
  /\ IF Ignored(r) THEN Continue(r) ELSE GiveUp(r)
  /\ Spoil(r)
  /\ stayed' = (stayed \/ (Ignored(r) /\ Here(r).call \in {"remove", "unauthorize"}))
  /\ leaked' = IF Here(r).call \in {"deleteNs", "insert"} THEN leaked \cup ({req[r].at} \ {0}) ELSE leaked
  /\ UNCHANGED <<world, killed>>

(* The cluster makes a namespace, and its answer is lost: the request      *)
(* takes it for one that was not made, and leaves it there.                *)
NamespaceLost(r) ==
  /\ events < MaxEvents
  /\ events' = events + 1
  /\ \/ /\ At(r, "createNs")
        /\ made < MaxSpaces
        /\ made' = made + 1
        /\ ns' = [ns EXCEPT ![made + 1] = "live"]
        /\ leaked' = leaked \cup {made + 1}
     \/ /\ At(r, "namespace")
        /\ ns[req[r].at] = "none"
        /\ ns' = [ns EXCEPT ![req[r].at] = "live"]
        /\ leaked' = leaked \cup {req[r].at}
        /\ UNCHANGED made
  /\ GiveUp(r)
  /\ Spoil(r)
  /\ UNCHANGED <<scope, spaces, name, cached, log, seen, killed, stayed>>

(* The record cannot be deleted: it is evicted all the same.               *)
ForgetFails(r) ==
  /\ At(r, "forget")
  /\ events < MaxEvents
  /\ events' = events + 1
  /\ cached' = cached \ {req[r].id}
  /\ GiveUp(r)
  /\ UNCHANGED <<scope, spaces, name, made, ns, log, seen, history>>

(* The server takes an Update, and its answer is lost.                     *)
PutLost(r) ==
  /\ Reads(r)
  /\ req[r].got # NoRead
  /\ Accepted(r)
  /\ events < MaxEvents
  /\ events' = events + 1
  /\ Write(r)
  /\ req' = Crossed(r, [req EXCEPT ![r] = With(@, AfterFailure(@.todo))])
  /\ Spoil(r)
  /\ UNCHANGED <<scope, spaces, name, made, cached, ns, seen,
                 leaked, killed>>

(* The watcher joins a version of a binding, never an older one than it    *)
(* has seen; a binding that is gone is taken from the cache.               *)
Join(p, b) ==
  /\ \E v \in (seen[p][b] + 1)..Len(log[p][b]) : seen' = [seen EXCEPT ![p][b] = v]
  /\ UNCHANGED <<scope, spaces, name, made, cached, ns, log, req,
                 events, history>>

(* migrateClusterUseToRoleBinding, before the server takes a request: the  *)
(* namespace of every record is made if it does not exist, the owner and   *)
(* the default account are added to its binding, and every call may fail.  *)
Migrated(p, again, who) ==
  IF /\ ns[p] = "live" \/ again \/ Now(p, "admin") # Gone
     /\ ~(who \subseteq Bound(p, "admin"))
  THEN [log[p] EXCEPT !["admin"] = Append(@, Bound(p, "admin") \cup who)]
  ELSE log[p]

Migrate ==
  \E again \in SUBSET {p \in spaces : scope = "ns" /\ ns[p] = "none"} :
    /\ ns' = [p \in Places |-> IF p \in again THEN "live" ELSE ns[p]]
    /\ \E who \in [Places -> SUBSET {Owner, Default}] :
         /\ \A p \in Places : who[p] # {} => scope = "ns" /\ p \in spaces
         /\ log' = [p \in Places |-> Migrated(p, p \in again, who[p])]

(* The server starts again with empty caches; its requests are over.       *)
Restart ==
  /\ events < MaxEvents
  /\ events' = events + 1
  /\ cached' = {}
  /\ seen' = [p \in Places |-> [b \in Shared |-> 1]]
  /\ killed' = (killed \/ Active # {})
  /\ req' = [r \in Requests |-> Idle]
  /\ Migrate
  /\ UNCHANGED <<scope, spaces, name, made, leaked, spoiled, stayed>>

-----------------------------------------------------------------------------
(* Either no space yet, or one that was created before and is shared with  *)
(* nobody so far.                                                          *)
Init ==
  /\ scope \in Scopes
  /\ \E first \in {0, 1} :
       /\ made = first
       /\ spaces = 1..first
       /\ name = [id \in Ids |-> IF id <= first THEN id ELSE 0]
       /\ ns = [p \in Places |-> IF scope = "ns" /\ p \in 1..first THEN "live" ELSE "none"]
       /\ log = [p \in Places |-> [b \in Roles |->
            IF first = 1 /\ p = Place(1) /\ b = "admin"
            THEN <<{Owner} \cup (IF scope = "ns" THEN {Default} ELSE {})>>
            ELSE <<Gone>>]]
  /\ cached = {}
  /\ seen = [p \in Places |-> [b \in Shared |-> 1]]
  /\ req = [r \in Requests |-> Idle]
  /\ events = 0
  /\ leaked = {} /\ spoiled = {} /\ killed = FALSE /\ stayed = FALSE

Asks(r) ==
  \/ Create(r)
  \/ \E id \in Ids :
       \/ \E by \in Users \cup {Owner} :
            \/ \E targets \in Targets : Share(r, id, by, targets)
            \/ \E u \in Users : UnShare(r, id, by, u)
            \/ ReCreate(r, id, by)
       \/ Delete(r, id)

Works(r) ==
  \/ Add(r) \/ List(r) \/ Forget(r) \/ Evict(r) \/ Check(r) \/ CheckName(r) \/ Insert(r)
  \/ CreateNs(r) \/ CreateNamespaceINE(r) \/ DeleteNs(r)
  \/ Get(r) \/ Put(r) \/ PutRefused(r) \/ RemoveAll(r)

Errs(r) == Fails(r) \/ NamespaceLost(r) \/ ForgetFails(r) \/ PutLost(r)

Next ==
  \/ \E r \in Requests : Asks(r) \/ Works(r) \/ Errs(r)
  \/ \E p \in Ids : Terminated(p)
  \/ \E p \in Places, b \in Shared : Join(p, b)
  \/ Restart

Spec == Init /\ [][Next]_vars

-----------------------------------------------------------------------------
(* Properties. *)

CallNames == {"add", "list", "forget", "evict", "check", "checkName", "insert",
              "createNs", "namespace", "deleteNs", "append", "remove", "removeAll",
              "unauthorize"}
Programs == Seq([must : BOOLEAN,
                 calls : Seq([call : CallNames, role : Roles, who : Subjects])])

(* The variables have their types: whatever the requests do, a binding     *)
(* lists users and accounts, or does not exist.                            *)
TypeOK ==
  /\ scope \in {"ns", "cluster"}
  /\ spaces \subseteq Ids /\ cached \subseteq Ids /\ leaked \subseteq Ids
  /\ name \in [Ids -> 0..MaxSpaces] /\ made \in 0..MaxSpaces
  /\ ns \in [Places -> {"none", "live", "terminating"}]
  /\ \A p \in Places, b \in Roles :
       /\ log[p][b] \in Seq((SUBSET Subjects) \cup {Gone})
       /\ b \in Shared => seen[p][b] \in 1..Len(log[p][b])
  /\ \A r \in Requests :
       /\ req[r].op \in {"none", "create", "share", "unshare", "delete", "recreate"}
       /\ req[r].id \in Places /\ req[r].at \in Places
       /\ req[r].todo \in Programs
       /\ req[r].got.version \in Nat
       /\ req[r].got.who \in (SUBSET Subjects) \cup {Gone}
       /\ req[r].crossed \subseteq Subjects
  /\ events \in 0..MaxEvents
  /\ spoiled \subseteq Subjects
  /\ killed \in BOOLEAN /\ stayed \in BOOLEAN

(* The users a request still has calls about. *)
Concerns(r) ==
  UNION {{calls[c].who : c \in DOMAIN calls} :
           calls \in {req[r].todo[g].calls : g \in DOMAIN req[r].todo}}

(* Nobody ends up as viewer and cooperator of one space, however the       *)
(* requests that make him one or the other are interleaved, unless a call  *)
(* about him failed or was refused, or the server was restarted meanwhile: *)
(* AsCooperator and AsViewer (cooperator_service.go) add first and remove  *)
(* second, and an update of a version that has changed is refused.         *)
NotBoth ==
  \A p \in Places, u \in Users :
    (/\ u \notin spoiled
     /\ ~killed
     /\ \A r \in Active : u \notin Concerns(r))
    => u \notin Bound(p, "coop") \cap Bound(p, "view")

(* When the last record of a cluster dev space is gone, so are the rights  *)
(* of its owner and of everybody it was shared with (Delete in delete.go), *)
(* however its deletion was interleaved, repeated or cut off, except for   *)
(* the three causes that "stayed" stands for.                              *)
DeletedIsUnshared ==
  (scope = "cluster" /\ spaces = {} /\ ~stayed)
  => \A b \in Roles : Bound(0, b) = {}

(* When no request is under way, a namespace that is not being deleted has *)
(* a record: every other one was created again by CreateNamespaceINE of a  *)
(* request for a space that was deleted meanwhile, was not deleted or      *)
(* recorded because that call failed or the answer to its creation was     *)
(* lost, or was cut off by a restart.                                      *)
NoOrphanNamespace ==
  (Active = {} /\ ~killed)
  => \A p \in Ids : ns[p] = "live" => p \in spaces \cup leaked

HasRole(p, u) == u \in Bound(p, "coop") \cup Bound(p, "view")

(* A user loses the last role in a space only by an unshare or a delete,   *)
(* with the namespace, or when two requests are about this user at the     *)
(* same time: a change from viewer to cooperator or back never leaves him  *)
(* without any (the order of the two calls in AsCooperator and AsViewer).  *)
SwitchKeepsAccess ==
  [][\A p \in Places, u \in Users :
       (HasRole(p, u) /\ ~HasRole(p, u)') =>
         \/ ns'[p] # ns[p]
         \/ \E r \in Active :
              /\ Here(r).who = u
              /\ req'[r] # req[r]
              /\ req[r].op \in {"unshare", "delete"} \/ u \in req[r].crossed]_vars
=============================================================================
