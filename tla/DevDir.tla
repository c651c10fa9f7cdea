------------------------------- MODULE DevDir -------------------------------
(***************************************************************************)
(* Which local directory belongs to which service: the tables that         *)
(* "nhctl debug associate" and "nhctl dev start" keep in a local database. *)
(*                                                                         *)
(* A service is looked up under up to four keys: with and without its      *)
(* container, and with and without the id of its namespace.  Keys without  *)
(* the id (nid Old) were written by earlier versions only.  The database   *)
(* is locked while it is open, so that a command on it is one step.        *)
(***************************************************************************)
EXTENDS Naturals, FiniteSets

CONSTANTS Svcs,         \* services: namespace, application, type and name together
          Containers,   \* names of containers
          Nids,         \* ids of namespaces
          Paths,        \* local directories
          Configs,      \* contents of kubeconfig files
          None,         \* no directory, no container, no id, no content, an empty key
          Old,          \* the id of a key that has no place for one
          MaxWrites     \* bound: writes of the database

ASSUME DevDirAssumption ==
  /\ None \notin Paths \cup Containers \cup Nids \cup Configs
  /\ Old \notin Nids \cup {None}
  /\ MaxWrites \in Nat

Packs == [svc : Svcs, container : Containers \cup {None}, nid : Nids \cup {None}]
Keys == [svc : Svcs, container : Containers \cup {None}, nid : Nids \cup {None, Old}]
NoKey == [svc |-> None, container |-> None, nid |-> None]

(* DevDirMapping: PackToPath, PackToKubeConfigBytes (and the server that   *)
(* is written with them) and PathToDefaultPackKey.                         *)
Mappings ==
  [path : [Keys -> Paths \cup {None}],
   config : [Keys -> Configs \cup {None}],
   default : [Paths -> Keys \cup {NoKey}]]

VARIABLES
  db,        \* the database's mapping
  version,   \* how often the database has been written
  last,      \* history: where a service (with or without container) was associated
             \* last, None when it was unassociated since
  given,     \* history: the kubeconfig given with that association
  cover,     \* history: where the service of a container has been associated, without
             \* naming a container, since the container was
  unknown    \* history: keys that lost their directory since the kubeconfig was empty

vars == <<db, version, last, given, cover, unknown>>

-----------------------------------------------------------------------------
(* Keys. *)

KeyWithoutContainer(pack) == [pack EXCEPT !.container = None]

WithoutNid(key) == [key EXCEPT !.nid = Old]

(* The pack of a key, which is also the six-part key of that pack: a key   *)
(* without an id becomes one with an empty id.                             *)
toPack(key) == IF key.nid = Old THEN [key EXCEPT !.nid = None] ELSE key

(* The keys of which the key of a pack without container is a prefix: the  *)
(* id comes last, and the empty id is a prefix of every other.             *)
Covered(key) ==
  {k \in Keys : /\ k.svc = key.svc
                /\ k.container = None
                /\ k.nid # Old
                /\ key.nid \in {None, k.nid}}

(* GetAssociatePath. *)
Lookup(mapping, pack) ==
  LET tried == <<pack, KeyWithoutContainer(pack),
                 WithoutNid(pack), WithoutNid(KeyWithoutContainer(pack))>>
      hits == {i \in 1..4 : mapping.path[tried[i]] # None}
  IN  IF hits = {} THEN None
      ELSE mapping.path[tried[CHOOSE i \in hits : \A j \in hits : i <= j]]

(* GetKubeConfigBytesAndServer: its second case tests the first one's key, *)
(* so that the key without container is never tried.                       *)
KubeConfig(mapping, pack) ==
  LET plain == KeyWithoutContainer(pack) IN
  IF mapping.path[pack] # None THEN mapping.config[pack]
  ELSE IF mapping.path[WithoutNid(pack)] # None THEN mapping.config[WithoutNid(pack)]
  ELSE mapping.config[WithoutNid(plain)]

(* doGetAllPacks: the packs of a directory. *)
AllPacks(mapping, d) == {toPack(k) : k \in {q \in Keys : mapping.path[q] = d}}

-----------------------------------------------------------------------------
(* Writing. *)

(* Mutant: the default is emptied where it has to be replaced. *)
RemovedEmpty(mapping, d, pack) ==
  {[mapping EXCEPT !.default = [k \in Paths |-> IF k = mapping.path[pack] THEN None ELSE @[k]],
                   !.path[pack] = None]}

(* What removePackAndThen may make of the mapping before it calls its      *)
(* function: the default pack of the pack's former directory is replaced   *)
(* by any other pack of that directory; when the pack was alone there, it  *)
(* is the new directory whose default is dropped.                          *)
Removed(mapping, d, pack) ==
  LET before == mapping.path[pack]
      packs == IF before = None THEN {} ELSE AllPacks(mapping, before)
      without(defaults) ==
        [mapping EXCEPT !.default = defaults, !.path[pack] = None]
  IN  CASE Cardinality(packs) = 1 ->
             {without([mapping.default EXCEPT ![d] = NoKey])}
        [] Cardinality(packs) > 1 /\ mapping.default[before] = pack ->
             {without([mapping.default EXCEPT ![before] = k]) : k \in packs \ {pack}}
        [] OTHER -> {without(mapping.default)}

(* The keys that follow the pack: the one without container, or, for a     *)
(* pack that has none, whatever has its key as a prefix: never one with a  *)
(* container.                                                              *)
Followers(mapping, pack) ==
  IF pack.container = None THEN {k \in Covered(pack) : mapping.path[k] # None}
  ELSE {KeyWithoutContainer(pack)}

(* Mutant: the keys that follow keep the kubeconfig they have. *)
BoundAlone(mapping, d, pack, config, setAsDefault) ==
  LET keys == {pack} \cup Followers(mapping, pack) IN
  [path |-> [k \in Keys |-> IF k \in keys THEN d ELSE mapping.path[k]],
   config |-> [mapping.config EXCEPT ![pack] = config],
   default |-> IF setAsDefault \/ mapping.default[d] = NoKey
               THEN [mapping.default EXCEPT ![d] = pack] ELSE mapping.default]

Bound(mapping, d, pack, config, setAsDefault) ==
  LET keys == {pack} \cup Followers(mapping, pack) IN
  [path |-> [k \in Keys |-> IF k \in keys THEN d ELSE mapping.path[k]],
   config |-> [k \in Keys |-> IF k \in keys THEN config ELSE mapping.config[k]],
   default |-> IF setAsDefault \/ mapping.default[d] = NoKey
               THEN [mapping.default EXCEPT ![d] = pack] ELSE mapping.default]

(* For the history: a pack with neither container nor id stands for those  *)
(* of its service that have an id and no container.                        *)
Unnamed(pack) ==
  {k \in Packs : /\ k.svc = pack.svc /\ k.container = None /\ db.path[k] # None
                 /\ pack.container = None /\ pack.nid = None}

(* For the history: the containers of a service that is associated without *)
(* naming one.                                                             *)
ContainersOf(pack) ==
  {k \in Packs : /\ k.svc = pack.svc /\ k.container # None /\ last[k] # None
                 /\ pack.container = None /\ pack.nid \in {None, k.nid}}

(* Associate, of debug associate (which with --migrate does not set the    *)
(* default) and of dev start: without a kubeconfig the mapping is removed  *)
(* and none made, which is no error.                                       *)
Associate(d, pack, config, setAsDefault) ==
  /\ version < MaxWrites
  /\ version' = version + 1
  /\ \E removed \in Removed(db, d, pack) :
       db' = IF config = None THEN removed ELSE Bound(removed, d, pack, config, setAsDefault)
  /\ LET keys == {pack, KeyWithoutContainer(pack)} \cup Unnamed(pack)
         made == config # None IN
       /\ last' = [k \in Packs |-> IF made /\ k \in keys THEN d ELSE last[k]]
       /\ given' = [k \in Packs |-> IF made /\ k \in keys THEN config ELSE given[k]]
       /\ cover' = [k \in Packs |-> IF made /\ k = pack THEN None
                                    ELSE IF made /\ k \in ContainersOf(pack) THEN d
                                    ELSE cover[k]]
       /\ unknown' = IF made THEN unknown \ keys ELSE unknown \cup {pack}

(* Mutant: the keys of earlier versions stay. *)
UnAssociatedNow(pack) ==
  {pack, KeyWithoutContainer(pack)}

(* The keys UnAssociatePath deletes; kubeconfig and default stay. *)
UnAssociated(pack) ==
  {pack, KeyWithoutContainer(pack), WithoutNid(pack), WithoutNid(KeyWithoutContainer(pack))}

UnAssociatePath(pack) ==
  /\ version < MaxWrites
  /\ version' = version + 1
  /\ LET keys == UnAssociated(pack) IN
       db' = [db EXCEPT !.path = [k \in Keys |-> IF k \in keys THEN None ELSE @[k]]]
  /\ LET keys == {pack, KeyWithoutContainer(pack)} IN
       /\ last' = [k \in Packs |-> IF k \in keys THEN None ELSE last[k]]
       /\ cover' = [k \in Packs |-> IF k \in keys THEN None ELSE cover[k]]
       /\ unknown' = unknown \ keys
  /\ UNCHANGED given

-----------------------------------------------------------------------------
(* Either nothing, or what an earlier version has left: keys without an    *)
(* id, of which the directory's default is one, some with a kubeconfig.    *)
Init ==
  /\ \E path \in [{k \in Keys : k.nid = Old} -> Paths \cup {None}], config \in Configs \cup {None} :
       db = [path |-> [k \in Keys |-> IF k.nid = Old THEN path[k] ELSE None],
             config |-> [k \in Keys |-> IF k.nid = Old /\ path[k] # None THEN config ELSE None],
             default |-> [d \in Paths |->
               IF \E k \in DOMAIN path : path[k] = d
               THEN CHOOSE k \in DOMAIN path : path[k] = d ELSE NoKey]]
  /\ version = 0
  /\ last = [k \in Packs |-> None]
  /\ given = [k \in Packs |-> None]
  /\ cover = [k \in Packs |-> None]
  /\ unknown = Packs

Next ==
  \E pack \in Packs :
    \/ \E d \in Paths, config \in Configs \cup {None}, setAsDefault \in BOOLEAN :
         Associate(d, pack, config, setAsDefault)
    \/ UnAssociatePath(pack)

Spec == Init /\ [][Next]_vars

-----------------------------------------------------------------------------
(* Properties. *)

(* The variables have their types: above all a directory's default is a    *)
(* key, whichever removePackAndThen picks, or there is none.               *)
TypeOK ==
  /\ db \in Mappings
  /\ version \in 0..MaxWrites
  /\ last \in [Packs -> Paths \cup {None}]
  /\ given \in [Packs -> Configs \cup {None}]
  /\ cover \in [Packs -> Paths \cup {None}]
  /\ unknown \subseteq Packs

(* A pack is found in the directory it was associated with last, by its    *)
(* own key or by the container that was associated last for its service;   *)
(* once it is unassociated it is found nowhere, not even by a key of an    *)
(* earlier version, unless its kubeconfig was empty (Associate,            *)
(* UnAssociatePath and GetAssociatePath of dev_dir_mapping.go).  Of a      *)
(* container whose service was associated as a whole since, this says      *)
(* nothing: see CoversContainers.                                          *)
FollowsLast ==
  \A pack \in Packs :
    LET plain == KeyWithoutContainer(pack) IN
    (pack \notin unknown /\ plain \notin unknown /\ cover[pack] = None)
    => IF last[pack] # None THEN Lookup(db, pack) = last[pack]
       ELSE Lookup(db, pack) = last[plain]

(* A pack is reported with the kubeconfig that was given when it was       *)
(* associated last, be it with its container, for another container of its *)
(* service or without an id, and whichever keys earlier versions have left *)
(* beside its own (GetKubeConfigBytesAndServer after any sequence of       *)
(* Associate and UnAssociatePath).                                         *)
ReportsGiven ==
  \A pack \in Packs \ unknown :
    last[pack] # None => KubeConfig(db, pack) = given[pack]

(* "if container not specified cover all pack with same ns/app/type/svc"   *)
(* (Associate, dev_dir_mapping.go): a container is found where its service *)
(* was associated last.                                                    *)
CoversContainers ==
  \A pack \in Packs : cover[pack] # None => Lookup(db, pack) = cover[pack]
=============================================================================
