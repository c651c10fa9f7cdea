---------------------------- MODULE DevDirProofs ----------------------------
(***************************************************************************)
(* Proofs about DevDir, for any services, containers, namespace ids and    *)
(* directories and any number of writes.                                   *)
(***************************************************************************)
EXTENDS DevDir, TLAPS

(* What the history says of the database: a pack that is known has the     *)
(* directory it was associated with last at its own key, with the          *)
(* kubeconfig that was given, and nothing at the key of an earlier version *)
(* once it is unassociated.                                                *)
Known ==
  \A pack \in Packs \ unknown :
    /\ db.path[pack] = last[pack]
    /\ last[pack] = None => db.path[WithoutNid(pack)] = None
    /\ last[pack] # None => db.config[pack] = given[pack]

-----------------------------------------------------------------------------
(* The operators on keys. *)

LEMMA PackKeys ==
  ASSUME NEW pack \in Packs
  PROVE  /\ pack \in Keys /\ pack.nid # Old
         /\ KeyWithoutContainer(pack) \in Packs
         /\ WithoutNid(pack) \in Keys /\ WithoutNid(pack) \notin Packs
BY DevDirAssumption DEF Packs, Keys, KeyWithoutContainer, WithoutNid

LEMMA ToPackType ==
  ASSUME NEW k \in Keys
  PROVE  toPack(k) \in Keys
BY DEF Keys, toPack

(* GetAssociatePath: the first of the four keys that has a directory. *)
LEMMA LookupValue ==
  ASSUME NEW m \in Mappings, NEW pack \in Packs
  PROVE  LET plain == KeyWithoutContainer(pack) IN
         /\ Lookup(m, pack) \in Paths \cup {None}
         /\ m.path[pack] # None => Lookup(m, pack) = m.path[pack]
         /\ m.path[pack] = None /\ m.path[plain] # None => Lookup(m, pack) = m.path[plain]
         /\ (/\ m.path[pack] = None /\ m.path[plain] = None
             /\ m.path[WithoutNid(pack)] = None /\ m.path[WithoutNid(plain)] = None)
            => Lookup(m, pack) = None
<1> DEFINE plain == KeyWithoutContainer(pack)
           tried == <<pack, plain, WithoutNid(pack), WithoutNid(plain)>>
           hits == {i \in 1..4 : m.path[tried[i]] # None}
           first == CHOOSE i \in hits : \A j \in hits : i <= j
<1>1. /\ pack \in Keys /\ plain \in Keys /\ plain \in Packs
      /\ WithoutNid(pack) \in Keys /\ WithoutNid(plain) \in Keys
  BY PackKeys
<1>2. \A i \in 1..4 : tried[i] \in Keys
  BY <1>1
<1>3. m.path \in [Keys -> Paths \cup {None}]
  BY DEF Mappings
<1>4. Lookup(m, pack) = IF hits = {} THEN None ELSE m.path[tried[first]]
  BY DEF Lookup
<1>5. ASSUME hits # {}
      PROVE  first \in hits /\ \A j \in hits : first <= j
  <2>1. \E i \in hits : \A j \in hits : i <= j
    <3>1. hits \subseteq 1..4
      OBVIOUS
    <3>2. CASE 1 \in hits
      BY <3>1, <3>2
    <3>3. CASE 1 \notin hits /\ 2 \in hits
      BY <3>1, <3>3
    <3>4. CASE 1 \notin hits /\ 2 \notin hits /\ 3 \in hits
      BY <3>1, <3>4
    <3>5. CASE 1 \notin hits /\ 2 \notin hits /\ 3 \notin hits
      <4>1. \A i \in hits : i = 4
        BY <3>1, <3>5
      <4>2. QED BY <4>1, <1>5
    <3>6. QED BY <3>2, <3>3, <3>4, <3>5
  <2>2. QED BY <2>1
<1>6. tried[1] = pack /\ tried[2] = plain /\ tried[3] = WithoutNid(pack) /\ tried[4] = WithoutNid(plain)
  OBVIOUS
<1>7. Lookup(m, pack) \in Paths \cup {None}
  BY <1>2, <1>3, <1>4, <1>5
<1>8. ASSUME m.path[pack] # None PROVE Lookup(m, pack) = m.path[pack]
  <2>1. 1 \in hits
    BY <1>6, <1>8
  <2>2. first = 1
    BY <2>1, <1>5
  <2>3. QED BY <2>1, <2>2, <1>4, <1>6
<1>9. ASSUME m.path[pack] = None, m.path[plain] # None PROVE Lookup(m, pack) = m.path[plain]
  <2>1. 2 \in hits /\ 1 \notin hits
    BY <1>6, <1>9
  <2>2. first = 2
    BY <2>1, <1>5
  <2>3. QED BY <2>1, <2>2, <1>4, <1>6
<1>10. ASSUME m.path[pack] = None, m.path[plain] = None,
              m.path[WithoutNid(pack)] = None, m.path[WithoutNid(plain)] = None
       PROVE  Lookup(m, pack) = None
  <2>1. \A i \in 1..4 : m.path[tried[i]] = None
    BY <1>6, <1>10
  <2>2. hits = {}
    BY <2>1
  <2>3. QED BY <2>2, <1>4
<1>11. QED BY <1>7, <1>8, <1>9, <1>10

(* removePackAndThen, before it calls its function: of the directories     *)
(* only the pack's goes, and whatever it does to the defaults has their    *)
(* type.                                                                   *)
LEMMA RemovedValue ==
  ASSUME NEW m \in Mappings, NEW d \in Paths, NEW pack \in Packs,
         NEW r \in Removed(m, d, pack)
  PROVE  /\ r \in Mappings
         /\ r.path = [m.path EXCEPT ![pack] = None]
         /\ r.config = m.config
<1> DEFINE before == m.path[pack]
           packs == IF before = None THEN {} ELSE AllPacks(m, before)
           Without(f) == [m EXCEPT !.default = f, !.path[pack] = None]
           Defaults == [Paths -> Keys \cup {NoKey}]
<1>1. pack \in Keys
  BY PackKeys
<1>2. /\ m = [path |-> m.path, config |-> m.config, default |-> m.default]
      /\ m.path \in [Keys -> Paths \cup {None}]
      /\ m.config \in [Keys -> Configs \cup {None}]
      /\ m.default \in Defaults
  BY DEF Mappings
<1>3. packs \subseteq Keys
  BY ToPackType DEF AllPacks
<1>4. \A f \in Defaults : /\ Without(f) \in Mappings
                          /\ Without(f).path = [m.path EXCEPT ![pack] = None]
                          /\ Without(f).config = m.config
  BY <1>1, <1>2 DEF Mappings
<1>5. before \in Paths \cup {None}
  BY <1>1, <1>2
<1>6. \E f \in Defaults : r = Without(f)
  <2>1. CASE Cardinality(packs) = 1
    <3>1. Removed(m, d, pack) = {Without([m.default EXCEPT ![d] = NoKey])}
      <4>1. ~(Cardinality(packs) > 1 /\ m.default[before] = pack)
        BY <2>1
      <4>2. QED BY <2>1, <4>1, Zenon DEF Removed
    <3>2. [m.default EXCEPT ![d] = NoKey] \in Defaults
      BY <1>2
    <3>3. QED BY <3>1, <3>2
  <2>2. CASE Cardinality(packs) # 1 /\ Cardinality(packs) > 1 /\ m.default[before] = pack
    <3>1. PICK k \in packs \ {pack} : r = Without([m.default EXCEPT ![before] = k])
      BY <2>2 DEF Removed
    <3>2. [m.default EXCEPT ![before] = k] \in Defaults
      BY <1>2, <1>3
    <3>3. QED BY <3>1, <3>2
  <2>3. CASE Cardinality(packs) # 1 /\ ~(Cardinality(packs) > 1 /\ m.default[before] = pack)
    <3>1. r = Without(m.default)
      BY <2>3 DEF Removed
    <3>2. QED BY <3>1, <1>2
  <2>4. QED BY <2>1, <2>2, <2>3
<1> HIDE DEF Without, Defaults
<1>7. QED BY <1>4, <1>6

LEMMA BoundType ==
  ASSUME NEW m \in Mappings, NEW d \in Paths, NEW pack \in Packs, NEW config \in Configs,
         NEW setAsDefault \in BOOLEAN
  PROVE  Bound(m, d, pack, config, setAsDefault) \in Mappings
<1> DEFINE keys == {pack} \cup Followers(m, pack)
           path == [k \in Keys |-> IF k \in keys THEN d ELSE m.path[k]]
           configs == [k \in Keys |-> IF k \in keys THEN config ELSE m.config[k]]
           defaults == IF setAsDefault \/ m.default[d] = NoKey
                       THEN [m.default EXCEPT ![d] = pack] ELSE m.default
<1>1. pack \in Keys
  BY PackKeys
<1>2. /\ m.path \in [Keys -> Paths \cup {None}]
      /\ m.config \in [Keys -> Configs \cup {None}]
      /\ m.default \in [Paths -> Keys \cup {NoKey}]
  BY DEF Mappings
<1>3. Bound(m, d, pack, config, setAsDefault) = [path |-> path, config |-> configs, default |-> defaults]
  BY DEF Bound
<1>4. path \in [Keys -> Paths \cup {None}]
  BY <1>2
<1>5. configs \in [Keys -> Configs \cup {None}]
  BY <1>2
<1>6. [m.default EXCEPT ![d] = pack] \in [Paths -> Keys \cup {NoKey}]
  BY <1>1, <1>2
<1>7. defaults \in [Paths -> Keys \cup {NoKey}]
  BY <1>2, <1>6
<1> HIDE DEF path, configs, defaults
<1>8. QED BY <1>3, <1>4, <1>5, <1>7 DEF Mappings

(* The keys that an association writes besides the pack's own are those    *)
(* that the history counts as associated: a container's pack takes the     *)
(* plain key along, a plain pack without id those of its service with one, *)
(* and a plain pack with an id nothing else.                               *)
LEMMA BoundPath ==
  ASSUME NEW m \in Mappings, NEW d \in Paths, NEW pack \in Packs, NEW config,
         NEW setAsDefault, m.path = [db.path EXCEPT ![pack] = None], db \in Mappings,
         NEW k \in Keys
  PROVE  /\ Bound(m, d, pack, config, setAsDefault).path[k] =
              IF k \in {pack, KeyWithoutContainer(pack)} \cup Unnamed(pack) THEN d ELSE db.path[k]
         /\ Bound(m, d, pack, config, setAsDefault).config[k] =
              IF k \in {pack, KeyWithoutContainer(pack)} \cup Unnamed(pack) THEN config
              ELSE m.config[k]
<1> DEFINE keys == {pack} \cup Followers(m, pack)
<1>1. /\ Bound(m, d, pack, config, setAsDefault).path[k] = IF k \in keys THEN d ELSE m.path[k]
      /\ Bound(m, d, pack, config, setAsDefault).config[k] =
           IF k \in keys THEN config ELSE m.config[k]
  BY DEF Bound
<1>2. /\ pack \in Keys /\ pack.nid # Old
      /\ KeyWithoutContainer(pack) \in Packs
  BY PackKeys
<1>3. m.path[pack] = None /\ \A q \in Keys : q # pack => m.path[q] = db.path[q]
  BY <1>2 DEF Mappings
<1>4. k \in keys <=> k \in {pack, KeyWithoutContainer(pack)} \cup Unnamed(pack)
  <2>1. CASE pack.container # None
    <3>1. Followers(m, pack) = {KeyWithoutContainer(pack)}
      BY <2>1 DEF Followers
    <3>2. Unnamed(pack) = {}
      BY <2>1 DEF Unnamed
    <3>3. QED BY <3>1, <3>2
  <2>2. CASE pack.container = None
    <3>1. KeyWithoutContainer(pack) = pack
      BY <2>2 DEF Packs, KeyWithoutContainer
    <3>2. Followers(m, pack) = {q \in Covered(pack) : m.path[q] # None}
      BY <2>2 DEF Followers
    <3>3. CASE pack.nid = None
      <4>1. ASSUME NEW q \in Keys, q # pack
            PROVE  q \in Covered(pack) /\ m.path[q] # None <=> q \in Unnamed(pack)
        <5>1. q \in Packs <=> q.nid # Old
          BY DevDirAssumption DEF Keys, Packs
        <5>2. q \in Covered(pack) <=> q.svc = pack.svc /\ q.container = None /\ q.nid # Old
          BY <3>3, <4>1 DEF Covered
        <5>3. m.path[q] = db.path[q]
          BY <1>3, <4>1
        <5>4. q \in Unnamed(pack) <=>
                q \in Packs /\ q.svc = pack.svc /\ q.container = None /\ db.path[q] # None
          BY <2>2, <3>3 DEF Unnamed
        <5>5. QED BY <5>1, <5>2, <5>3, <5>4
      <4>2. QED BY <3>1, <3>2, <4>1
    <3>4. CASE pack.nid # None
      <4>1. ASSUME NEW q \in Covered(pack) PROVE q = pack
        BY <2>2, <3>4 DEF Covered, Packs, Keys
      <4>2. Unnamed(pack) = {}
        BY <3>4 DEF Unnamed
      <4>3. QED BY <3>1, <3>2, <4>1, <4>2
    <3>5. QED BY <3>3, <3>4
  <2>3. QED BY <2>1, <2>2
<1>5. k \notin keys => k # pack
  OBVIOUS
<1> HIDE DEF keys
<1>6. QED BY <1>1, <1>3, <1>4, <1>5

-----------------------------------------------------------------------------
(* Associate and what it keeps. *)

(* The directories after an association: the keys that the history counts, *)
(* or, without a kubeconfig, the pack's key without a directory.           *)
LEMMA AssociatePaths ==
  ASSUME TypeOK, NEW d \in Paths, NEW pack \in Packs, NEW config \in Configs \cup {None},
         NEW setAsDefault \in BOOLEAN, Associate(d, pack, config, setAsDefault)
  PROVE  /\ db' \in Mappings
         /\ \A k \in Keys : db'.path[k] =
              IF config = None THEN IF k = pack THEN None ELSE db.path[k]
              ELSE IF k \in {pack, KeyWithoutContainer(pack)} \cup Unnamed(pack) THEN d
              ELSE db.path[k]
         /\ \A k \in Keys : db'.config[k] =
              IF config # None /\ k \in {pack, KeyWithoutContainer(pack)} \cup Unnamed(pack)
              THEN config ELSE db.config[k]
<1>1. db \in Mappings
  BY DEF TypeOK
<1>2. PICK r \in Removed(db, d, pack) :
        db' = IF config = None THEN r ELSE Bound(r, d, pack, config, setAsDefault)
  BY DEF Associate
<1>3. r \in Mappings /\ r.path = [db.path EXCEPT ![pack] = None] /\ r.config = db.config
  BY <1>1, RemovedValue
<1>4. CASE config = None
  <2>1. db' = r
    BY <1>2, <1>4
  <2>2. db.path \in [Keys -> Paths \cup {None}]
    BY <1>1 DEF Mappings
  <2>3. QED BY <1>3, <1>4, <2>1, <2>2
<1>5. CASE config # None
  <2>1. db' = Bound(r, d, pack, config, setAsDefault)
    BY <1>2, <1>5
  <2>2. config \in Configs
    BY <1>5
  <2>3. db' \in Mappings
    BY <1>3, <2>1, <2>2, BoundType
  <2>4. \A k \in Keys :
          /\ db'.path[k] =
               IF k \in {pack, KeyWithoutContainer(pack)} \cup Unnamed(pack) THEN d ELSE db.path[k]
          /\ db'.config[k] =
               IF k \in {pack, KeyWithoutContainer(pack)} \cup Unnamed(pack) THEN config
               ELSE db.config[k]
    BY <1>1, <1>3, <2>1, BoundPath
  <2>5. QED BY <1>5, <2>3, <2>4
<1>6. QED BY <1>4, <1>5

LEMMA AssociateTypes ==
  ASSUME TypeOK, NEW d \in Paths, NEW pack \in Packs, NEW config \in Configs \cup {None},
         NEW setAsDefault \in BOOLEAN, Associate(d, pack, config, setAsDefault)
  PROVE  TypeOK'
<1>1. db' \in Mappings
  BY AssociatePaths
<1>2. version' \in 0..MaxWrites
  BY DevDirAssumption DEF TypeOK, Associate
<1>3. last' \in [Packs -> Paths \cup {None}]
  BY DEF TypeOK, Associate
<1>4. given' \in [Packs -> Configs \cup {None}]
  BY DEF TypeOK, Associate
<1>5. cover' \in [Packs -> Paths \cup {None}]
  BY DEF TypeOK, Associate
<1>6. unknown' \subseteq Packs
  BY DEF TypeOK, Associate
<1>7. QED BY <1>1, <1>2, <1>3, <1>4, <1>5, <1>6 DEF TypeOK

LEMMA AssociateKnown ==
  ASSUME TypeOK, Known, NEW d \in Paths, NEW pack \in Packs, NEW config \in Configs \cup {None},
         NEW setAsDefault \in BOOLEAN, Associate(d, pack, config, setAsDefault)
  PROVE  Known'
<1> DEFINE keys == {pack, KeyWithoutContainer(pack)} \cup Unnamed(pack)
<1>0. \A k \in Keys : db'.config[k] =
        IF config # None /\ k \in keys THEN config ELSE db.config[k]
  BY AssociatePaths
<1>1. \A k \in Keys : db'.path[k] =
        IF config = None THEN IF k = pack THEN None ELSE db.path[k]
        ELSE IF k \in keys THEN d ELSE db.path[k]
  BY AssociatePaths
<1>2. /\ last' = [k \in Packs |-> IF config # None /\ k \in keys THEN d ELSE last[k]]
      /\ given' = [k \in Packs |-> IF config # None /\ k \in keys THEN config ELSE given[k]]
      /\ unknown' = IF config # None THEN unknown \ keys ELSE unknown \cup {pack}
  BY DEF Associate
<1>3. keys \subseteq Packs
  BY PackKeys DEF Unnamed
<1>4. d # None
  BY DevDirAssumption
<1> HIDE DEF keys
<1>5. SUFFICES ASSUME NEW k \in Packs \ unknown'
               PROVE  /\ db'.path[k] = last'[k]
                      /\ last'[k] = None => db'.path[WithoutNid(k)] = None
                      /\ last'[k] # None => db'.config[k] = given'[k]
  BY DEF Known
<1>6. /\ k \in Keys /\ WithoutNid(k) \in Keys /\ WithoutNid(k) \notin Packs
  BY PackKeys
<1>7. db'.path[WithoutNid(k)] = db.path[WithoutNid(k)]
  BY <1>1, <1>3, <1>6
<1>8. CASE config = None
  BY <1>0, <1>1, <1>2, <1>5, <1>6, <1>7, <1>8 DEF Known
<1>9. CASE config # None /\ k \in keys
  BY <1>0, <1>1, <1>2, <1>4, <1>6, <1>9
<1>10. CASE config # None /\ k \notin keys
  BY <1>0, <1>1, <1>2, <1>5, <1>6, <1>7, <1>10 DEF Known
<1>11. QED BY <1>8, <1>9, <1>10

-----------------------------------------------------------------------------
(* UnAssociatePath. *)

LEMMA UnAssociateKeeps ==
  ASSUME TypeOK, Known, NEW pack \in Packs, UnAssociatePath(pack)
  PROVE  TypeOK' /\ Known'
<1> DEFINE plain == KeyWithoutContainer(pack)
           paths == [k \in Keys |-> IF k \in UnAssociated(pack) THEN None ELSE db.path[k]]
<1>1. /\ db = [path |-> db.path, config |-> db.config, default |-> db.default]
      /\ db.path \in [Keys -> Paths \cup {None}]
      /\ db.config \in [Keys -> Configs \cup {None}]
      /\ db.default \in [Paths -> Keys \cup {NoKey}]
  BY DEF TypeOK, Mappings
<1>2. db' = [path |-> paths, config |-> db.config, default |-> db.default]
  BY <1>1 DEF UnAssociatePath
<1>3. paths \in [Keys -> Paths \cup {None}]
  BY <1>1
<1>4. db' \in Mappings
  <2> HIDE DEF paths
  <2> QED BY <1>1, <1>2, <1>3 DEF Mappings
<1>5. \A k \in Keys : db'.path[k] = IF k \in UnAssociated(pack) THEN None ELSE db.path[k]
  BY <1>2
<1>6. version' \in 0..MaxWrites
  BY DevDirAssumption DEF TypeOK, UnAssociatePath
<1>7. /\ last' = [k \in Packs |-> IF k \in {pack, plain} THEN None ELSE last[k]]
      /\ cover' = [k \in Packs |-> IF k \in {pack, plain} THEN None ELSE cover[k]]
      /\ unknown' = unknown \ {pack, plain}
      /\ given' = given
  BY DEF UnAssociatePath
<1>8. TypeOK'
  BY <1>4, <1>6, <1>7 DEF TypeOK
<1>9. plain \in Packs /\ pack \in Packs
  BY PackKeys
<1>10. ASSUME NEW k \in Packs \ unknown'
       PROVE  /\ db'.path[k] = last'[k]
              /\ last'[k] = None => db'.path[WithoutNid(k)] = None
              /\ last'[k] # None => db'.config[k] = given'[k]
  <2>1. k \in Keys /\ WithoutNid(k) \in Keys
    BY PackKeys
  <2>2. CASE k \in {pack, plain}
    <3>1. k \in UnAssociated(pack) /\ WithoutNid(k) \in UnAssociated(pack)
      BY <2>2 DEF UnAssociated
    <3>2. last'[k] = None
      BY <1>7, <2>2
    <3>3. QED BY <1>5, <2>1, <3>1, <3>2
  <2>3. CASE k \notin {pack, plain}
    <3>1. k \notin UnAssociated(pack)
      BY <2>3, <1>9, PackKeys DEF UnAssociated
    <3>2. last'[k] = last[k] /\ k \notin unknown
      BY <1>7, <1>10, <2>3
    <3>3. /\ db.path[k] = last[k] /\ (last[k] = None => db.path[WithoutNid(k)] = None)
          /\ last[k] # None => db.config[k] = given[k]
      BY <3>2 DEF Known
    <3>4. db'.config = db.config
      BY <1>2
    <3>5. QED BY <1>5, <1>7, <2>1, <3>1, <3>2, <3>3, <3>4
  <2>4. QED BY <2>2, <2>3
<1>11. QED BY <1>8, <1>10 DEF Known

-----------------------------------------------------------------------------
LEMMA InitInv == Init => TypeOK /\ Known
<1> SUFFICES ASSUME Init PROVE TypeOK /\ Known
  OBVIOUS
<1>1. PICK path \in [{k \in Keys : k.nid = Old} -> Paths \cup {None}], config \in Configs \cup {None} :
        db = [path |-> [k \in Keys |-> IF k.nid = Old THEN path[k] ELSE None],
              config |-> [k \in Keys |-> IF k.nid = Old /\ path[k] # None THEN config ELSE None],
              default |-> [d \in Paths |->
                IF \E k \in DOMAIN path : path[k] = d
                THEN CHOOSE k \in DOMAIN path : path[k] = d ELSE NoKey]]
  BY DEF Init
<1> DEFINE paths == [k \in Keys |-> IF k.nid = Old THEN path[k] ELSE None]
           configs == [k \in Keys |-> IF k.nid = Old /\ path[k] # None THEN config ELSE None]
           defaults == [d \in Paths |->
                          IF \E k \in DOMAIN path : path[k] = d
                          THEN CHOOSE k \in DOMAIN path : path[k] = d ELSE NoKey]
<1>2. paths \in [Keys -> Paths \cup {None}]
  OBVIOUS
<1>3. configs \in [Keys -> Configs \cup {None}]
  OBVIOUS
<1>4. defaults \in [Paths -> Keys \cup {NoKey}]
  <2>1. DOMAIN path \subseteq Keys
    OBVIOUS
  <2>2. QED BY <2>1
<1>5. db = [path |-> paths, config |-> configs, default |-> defaults]
  BY <1>1
<1> HIDE DEF paths, configs, defaults
<1>6. db \in Mappings
  BY <1>2, <1>3, <1>4, <1>5 DEF Mappings
<1>7. QED BY <1>6, DevDirAssumption DEF Init, TypeOK, Known

LEMMA NextInv == TypeOK /\ Known /\ [Next]_vars => TypeOK' /\ Known'
<1> SUFFICES ASSUME TypeOK, Known, [Next]_vars PROVE TypeOK' /\ Known'
  OBVIOUS
<1>1. ASSUME NEW pack \in Packs, NEW d \in Paths, NEW config \in Configs \cup {None},
             NEW setAsDefault \in BOOLEAN, Associate(d, pack, config, setAsDefault)
      PROVE  TypeOK' /\ Known'
  BY <1>1, AssociateTypes, AssociateKnown
<1>2. ASSUME NEW pack \in Packs, UnAssociatePath(pack) PROVE TypeOK' /\ Known'
  BY <1>2, UnAssociateKeeps
<1>3. ASSUME UNCHANGED vars PROVE TypeOK' /\ Known'
  BY <1>3 DEF vars, TypeOK, Known
<1>4. QED BY <1>1, <1>2, <1>3 DEF Next

-----------------------------------------------------------------------------
(* The variables keep their types: above all a directory's default is a    *)
(* key, whichever removePackAndThen picks, or there is none.               *)
THEOREM TypeCorrect == Spec => []TypeOK
<1>1. QED BY InitInv, NextInv, PTL DEF Spec

(* A pack is found where it was associated last, and nowhere once it is    *)
(* unassociated, for any sequence of associate, unassociate and dev start  *)
(* commands, but for the containers of a service that was associated as a  *)
(* whole since (dev_dir_mapping.go).                                       *)
THEOREM LastIsFollowed == Spec => []FollowsLast
<1>1. TypeOK /\ Known => FollowsLast
  <2> SUFFICES ASSUME TypeOK, Known, NEW pack \in Packs,
                      pack \notin unknown, KeyWithoutContainer(pack) \notin unknown
               PROVE  IF last[pack] # None THEN Lookup(db, pack) = last[pack]
                      ELSE Lookup(db, pack) = last[KeyWithoutContainer(pack)]
    BY DEF FollowsLast
  <2> DEFINE plain == KeyWithoutContainer(pack)
  <2>1. plain \in Packs
    BY PackKeys
  <2>2. /\ db.path[pack] = last[pack] /\ db.path[plain] = last[plain]
        /\ last[pack] = None => db.path[WithoutNid(pack)] = None
        /\ last[plain] = None => db.path[WithoutNid(plain)] = None
    BY <2>1 DEF Known
  <2>3. db \in Mappings
    BY DEF TypeOK
  <2>4. /\ db.path[pack] # None => Lookup(db, pack) = db.path[pack]
        /\ db.path[pack] = None /\ db.path[plain] # None => Lookup(db, pack) = db.path[plain]
        /\ (/\ db.path[pack] = None /\ db.path[plain] = None
            /\ db.path[WithoutNid(pack)] = None /\ db.path[WithoutNid(plain)] = None)
           => Lookup(db, pack) = None
    BY <2>3, LookupValue
  <2> HIDE DEF plain
  <2>5. IF last[pack] # None THEN Lookup(db, pack) = last[pack]
        ELSE Lookup(db, pack) = last[plain]
    BY <2>2, <2>4
  <2>6. QED BY <2>5 DEF plain
<1>2. QED BY <1>1, InitInv, NextInv, PTL DEF Spec

(* The kubeconfig reported for a pack is the one given when the pack was   *)
(* associated last, by its own key or along with another's, for any        *)
(* sequence of commands: Associate writes both tables for the same keys    *)
(* (dev_dir_mapping.go).                                                   *)
THEOREM GivenIsReported == Spec => []ReportsGiven
<1>1. TypeOK /\ Known => ReportsGiven
  <2> SUFFICES ASSUME TypeOK, Known, NEW pack \in Packs \ unknown, last[pack] # None
               PROVE  KubeConfig(db, pack) = given[pack]
    BY DEF ReportsGiven
  <2>1. db.path[pack] # None /\ db.config[pack] = given[pack]
    BY DEF Known
  <2>2. QED BY <2>1 DEF KubeConfig
<1>2. QED BY <1>1, InitInv, NextInv, PTL DEF Spec
=============================================================================
