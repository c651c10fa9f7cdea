---------------------------- MODULE VpnMapProofs ----------------------------
(***************************************************************************)
(* Proofs about VpnMap, for any finite set of devices, any range of        *)
(* addresses, any hash, any number of retries and any budgets.             *)
(***************************************************************************)
EXTENDS VpnMap, FiniteSetTheorems, WellFoundedInduction, TLAPS

-----------------------------------------------------------------------------
(* Leases and records, and what the operators of the model do to them. *)

LEMMA LeasesAre ==
  ASSUME NEW l
  PROVE  l \in Leases <=> /\ l = [d \in DOMAIN l |-> l[d]] /\ DOMAIN l \subseteq Devices
                          /\ \A d \in DOMAIN l : l[d] \subseteq Ips
<1>1. ASSUME l \in Leases
      PROVE  /\ l = [d \in DOMAIN l |-> l[d]] /\ DOMAIN l \subseteq Devices
             /\ \A d \in DOMAIN l : l[d] \subseteq Ips
  <2>1. PICK D \in SUBSET Devices : l \in [D -> SUBSET Ips]
    BY <1>1 DEF Leases
  <2>2. QED BY <2>1
<1>2. ASSUME l = [d \in DOMAIN l |-> l[d]], DOMAIN l \subseteq Devices,
             \A d \in DOMAIN l : l[d] \subseteq Ips
      PROVE  l \in Leases
  <2>1. l \in [DOMAIN l -> SUBSET Ips]
    BY <1>2
  <2>2. QED BY <1>2, <2>1 DEF Leases
<1>3. QED BY <1>1, <1>2

LEMMA RecordsAre ==
  ASSUME NEW r
  PROVE  r \in Records <=> /\ r = [d \in DOMAIN r |-> r[d]] /\ DOMAIN r \subseteq Devices
                           /\ \A d \in DOMAIN r : r[d] \in Ips
<1>1. ASSUME r \in Records
      PROVE  /\ r = [d \in DOMAIN r |-> r[d]] /\ DOMAIN r \subseteq Devices
             /\ \A d \in DOMAIN r : r[d] \in Ips
  <2>1. PICK D \in SUBSET Devices : r \in [D -> Ips]
    BY <1>1 DEF Records
  <2>2. QED BY <2>1
<1>2. ASSUME r = [d \in DOMAIN r |-> r[d]], DOMAIN r \subseteq Devices,
             \A d \in DOMAIN r : r[d] \in Ips
      PROVE  r \in Records
  <2>1. r \in [DOMAIN r -> Ips]
    BY <1>2
  <2>2. QED BY <1>2, <2>1 DEF Records
<1>3. QED BY <1>1, <1>2

LEMMA NobodyHas == DOMAIN Nobody = {} /\ Nobody \in Leases /\ Nobody \in Records
<1>1. DOMAIN Nobody = {} /\ Nobody = [d \in DOMAIN Nobody |-> Nobody[d]]
  BY DEF Nobody
<1>2. QED BY <1>1, LeasesAre, RecordsAre

(* What is read back from a text is no more than what was written. *)
LEMMA ReadsLess ==
  ASSUME NEW t \in Texts
  PROVE  /\ FromStringToDHCP(t) \in Leases
         /\ DOMAIN FromStringToDHCP(t) \subseteq DOMAIN t.leases
         /\ \A d \in DOMAIN FromStringToDHCP(t) : FromStringToDHCP(t)[d] \subseteq t.leases[d]
<1> DEFINE l == t.leases
           r == FromStringToDHCP(t)
<1>1. /\ l \in Leases /\ l = [d \in DOMAIN l |-> l[d]] /\ DOMAIN l \subseteq Devices
      /\ \A d \in DOMAIN l : l[d] \subseteq Ips
  BY LeasesAre DEF Texts
<1>2. CASE t.lines
  BY <1>1, <1>2 DEF FromStringToDHCP
<1>3. CASE ~ t.lines /\ Cardinality(DOMAIN l) # 1
  BY <1>3, NobodyHas DEF FromStringToDHCP
<1>4. CASE ~ t.lines /\ Cardinality(DOMAIN l) = 1
  <2>1. r = [d \in DOMAIN l |-> IF l[d] = {} THEN {} ELSE l[d] \ {TextLast(l[d])}]
    BY <1>4 DEF FromStringToDHCP
  <2>2. DOMAIN r = DOMAIN l /\ \A d \in DOMAIN r : r[d] \subseteq l[d]
    BY <2>1
  <2>3. r = [d \in DOMAIN r |-> r[d]]
    BY <2>1
  <2>4. r \in Leases
    BY <1>1, <2>2, <2>3, LeasesAre
  <2>5. QED BY <2>2, <2>4
<1>5. QED BY <1>2, <1>3, <1>4

LEMMA WithHas ==
  ASSUME NEW l \in Leases, NEW d \in Devices, NEW ip \in Ips
  PROVE  /\ With(l, d, ip) \in Leases /\ DOMAIN With(l, d, ip) = DOMAIN l \cup {d}
         /\ \A e \in DOMAIN l \ {d} : With(l, d, ip)[e] = l[e]
         /\ With(l, d, ip)[d] = (IF d \in DOMAIN l THEN l[d] ELSE {}) \cup {ip}
<1> DEFINE w == With(l, d, ip)
<1>1. /\ DOMAIN l \subseteq Devices /\ \A e \in DOMAIN l : l[e] \subseteq Ips
  BY LeasesAre
<1>2. w = [e \in DOMAIN l \cup {d} |->
            IF e # d THEN l[e] ELSE (IF d \in DOMAIN l THEN l[d] ELSE {}) \cup {ip}]
  BY DEF With
<1>3. /\ DOMAIN w = DOMAIN l \cup {d} /\ \A e \in DOMAIN l \ {d} : w[e] = l[e]
      /\ w[d] = (IF d \in DOMAIN l THEN l[d] ELSE {}) \cup {ip}
  BY <1>2
<1>4. w = [e \in DOMAIN w |-> w[e]]
  BY <1>2
<1>5. \A e \in DOMAIN w : w[e] \subseteq Ips
  BY <1>1, <1>3
<1>6. w \in Leases
  BY <1>1, <1>3, <1>4, <1>5, LeasesAre
<1>7. QED BY <1>3, <1>6

LEMMA WithoutHas ==
  ASSUME NEW l \in Leases, NEW d
  PROVE  /\ Without(l, d) \in Leases /\ DOMAIN Without(l, d) = DOMAIN l \ {d}
         /\ \A e \in DOMAIN Without(l, d) : Without(l, d)[e] = l[e]
<1> DEFINE w == Without(l, d)
<1>1. /\ DOMAIN l \subseteq Devices /\ \A e \in DOMAIN l : l[e] \subseteq Ips
  BY LeasesAre
<1>2. w = [e \in DOMAIN l \ {d} |-> l[e]]
  BY DEF Without
<1>3. /\ DOMAIN w = DOMAIN l \ {d} /\ \A e \in DOMAIN w : w[e] = l[e]
      /\ w = [e \in DOMAIN w |-> w[e]]
  BY <1>2
<1>4. w \in Leases
  BY <1>1, <1>3, LeasesAre
<1>5. QED BY <1>3, <1>4

LEMMA FreedHas ==
  ASSUME NEW l \in Leases, NEW S, NEW f, f = [e \in DOMAIN l |-> l[e] \ S]
  PROVE  /\ f \in Leases /\ DOMAIN f = DOMAIN l /\ \A e \in DOMAIN f : f[e] \subseteq l[e]
<1>1. /\ DOMAIN l \subseteq Devices /\ \A e \in DOMAIN l : l[e] \subseteq Ips
  BY LeasesAre
<1>2. /\ DOMAIN f = DOMAIN l /\ \A e \in DOMAIN f : f[e] \subseteq l[e]
      /\ f = [e \in DOMAIN f |-> f[e]]
  OBVIOUS
<1>3. f \in Leases
  BY <1>1, <1>2, LeasesAre
<1>4. QED BY <1>2, <1>3

(* A set of naturals below a bound has a least element: the initial parts  *)
(* of the set are ordered by inclusion, which is well-founded.             *)
LEMMA LeastIsIn ==
  ASSUME NEW n \in Nat, NEW H \in SUBSET (0..n), H # {}
  PROVE  Min(H) \in H
<1> DEFINE Part(x) == {y \in H : y <= x}
           Parts == {Part(x) : x \in H}
<1>1. IsFiniteSet(0..n)
  BY FS_Interval
<1>2. IsFiniteSet(H)
  BY <1>1, FS_Subset
<1>3. IsWellFoundedOn(StrictSubsetOrdering(H), SUBSET H)
  BY <1>2, FS_StrictSubsetOrderingWellFounded, FS_FiniteSubsetsOfFinite
<1>4. Parts \subseteq SUBSET H /\ Parts # {}
  OBVIOUS
<1>5. PICK X \in Parts : \A Y \in Parts : ~ (<<Y, X>> \in StrictSubsetOrdering(H))
  <2> DEFINE T == Parts
             R == StrictSubsetOrdering(H)
  <2>1. IsWellFoundedOn(R, SUBSET H) /\ T \subseteq SUBSET H /\ T # {}
    BY <1>3, <1>4
  <2> HIDE DEF T, R
  <2>2. \E X \in T : \A Y \in T : ~ (<<Y, X>> \in R)
    BY <2>1, WFMin
  <2>3. QED BY <2>2 DEF T, R
<1>6. PICK x \in H : X = Part(x)
  OBVIOUS
<1>7. \A y \in H : x <= y
  <2>1. SUFFICES ASSUME NEW y \in H, ~ x <= y
                 PROVE  FALSE
    OBVIOUS
  <2>2. y \in Int /\ x \in Int /\ y < x
    BY <2>1
  <2>3. Part(y) \subseteq Part(x) /\ x \in Part(x) /\ x \notin Part(y)
    <3>1. \A z \in H : z \in Int /\ (z <= y => z <= x)
      BY <2>2
    <3>2. x \in Part(x) /\ x \notin Part(y)
      BY <2>2
    <3>3. Part(y) \subseteq Part(x)
      BY <3>1, Zenon
    <3>4. QED BY <3>2, <3>3
  <2>4. <<Part(y), Part(x)>> \in StrictSubsetOrdering(H)
    BY <2>3 DEF StrictSubsetOrdering
  <2>5. QED BY <1>5, <1>6, <2>4
<1>8. QED BY <1>7, Zenon DEF Min

LEMMA getIPIsIp ==
  ASSUME NEW d \in Devices, NEW available
  PROVE  getIP(d, available) \in Ips
<1> DEFINE hits == {i \in 0..Modulus - 2 : Probe(d, i) \in available}
<1>1. Modulus \in Nat \ {0} /\ Hash(d) \in 0..Modulus - 1
  BY VpnMapAssumption
<1>2. CASE hits = {}
  BY <1>1, <1>2 DEF getIP, Ips
<1>3. CASE hits # {}
  <2>1. Min(hits) \in hits
    <3>1. Modulus \in Nat /\ hits \in SUBSET (0..Modulus)
      BY <1>1
    <3>2. QED BY <1>3, <3>1, LeastIsIn, Zenon
  <2>2. Min(hits) \in Nat
    BY <1>1, <2>1
  <2>3. (Hash(d) + Min(hits)) % Modulus \in 0..Modulus - 1
    <3> DEFINE k == Min(hits)
    <3>1. k \in Nat
      BY <2>2
    <3> HIDE DEF k
    <3>2. (Hash(d) + k) % Modulus \in 0..Modulus - 1
      BY <1>1, <3>1
    <3>3. QED BY <3>2 DEF k
  <2>4. QED BY <1>3, <2>3 DEF getIP, Ips, Probe
<1>4. QED BY <1>2, <1>3

-----------------------------------------------------------------------------
(* The type invariant, in the parts that an action may disturb. *)

MapOK == cm \in ConfigMaps /\ (~ cm.exists => cm = NoMap)

CallOK ==
  /\ pc \in [Devices -> Labels] /\ addr \in [Devices -> Ips] /\ used \in [Devices -> Leases]
  /\ records \in [Devices -> Records]

FreshOK == fresh \in [Devices -> SUBSET {"outer", "inner"}]

RetryLabels == {"release", "read", "free", "delete"}

(* RetryOnConflict has a try left while it runs. *)
RetryOK ==
  /\ tries \in [Devices -> 0..Retries]
  /\ \A d \in Devices : pc[d] \in RetryLabels => tries[d] > 0

CountOK ==
  ref \in Int \cup {NoPod} /\ cur \in [Devices -> Int] /\ counted \in [Devices -> Int]

NamesOK == robbed \subseteq Devices /\ reused \subseteq Devices /\ full \subseteq Devices

FlagsOK == overlap \in BOOLEAN /\ uncounted \in BOOLEAN /\ leaked \in BOOLEAN

TypeInv == MapOK /\ CallOK /\ FreshOK /\ RetryOK /\ CountOK /\ NamesOK /\ FlagsOK

(* What a Prepare of a connected device keeps, and the uids. *)
AgainOK ==
  /\ again \in [Devices -> Ips] /\ goal \in [Devices -> {"up", "release"}] /\ mine \subseteq Devices

LEMMA TypeParts == TypeInv /\ AgainOK => TypeOK
BY DEF TypeInv, AgainOK, TypeOK, MapOK, CallOK, FreshOK, RetryOK, CountOK, NamesOK, FlagsOK

(* A device goes on. *)
LEMMA Moves ==
  ASSUME TypeInv, NEW d \in Devices, NEW l \in Labels, Goto(d, l)
  PROVE  /\ pc' \in [Devices -> Labels] /\ pc'[d] = l
         /\ \A e \in Devices \ {d} : pc'[e] = pc[e]
BY DEF TypeInv, CallOK, Goto

LEMMA Keeps ==
  ASSUME TypeInv, NEW d \in Devices, NEW l \in Labels, Goto(d, l), tries' = tries,
         l \in RetryLabels => pc[d] \in RetryLabels
  PROVE  RetryOK'
<1>1. RetryOK /\ pc'[d] = l /\ \A e \in Devices \ {d} : pc'[e] = pc[e]
  BY Moves DEF TypeInv
<1>2. QED BY <1>1 DEF RetryOK

LEMMA Retrying ==
  ASSUME TypeInv, NEW d \in Devices, Goto(d, "release"), tries' = [tries EXCEPT ![d] = Retries]
  PROVE  RetryOK'
<1>1. RetryOK /\ pc'[d] = "release" /\ \A e \in Devices \ {d} : pc'[e] = pc[e]
  BY Moves DEF TypeInv, Labels
<1>2. Retries \in Nat \ {0}
  BY VpnMapAssumption
<1>3. QED BY <1>1, <1>2 DEF RetryOK

LEMMA NoMapIs ==
  /\ NoMap \in ConfigMaps /\ ~ NoMap.exists
  /\ NoMap.dhcp = [leases |-> Nobody, lines |-> TRUE] /\ NoMap.macs = Nobody
BY NobodyHas DEF NoMap, ConfigMaps, Texts

LEMMA WritesMap ==
  ASSUME TypeInv, NEW d \in Devices, NEW m \in ConfigMaps, ~ m.exists => m = NoMap, Write(d, m)
  PROVE  MapOK' /\ FreshOK' /\ robbed' \subseteq Devices
<1>1. MapOK'
  BY DEF Write, MapOK
<1>2. robbed' \subseteq Devices
  BY DEF Write, TypeInv, NamesOK
<1>3. fresh' = fresh \/ fresh' = [e \in Devices |-> {}]
  BY DEF Write
<1>4. FreshOK'
  BY <1>3 DEF TypeInv, FreshOK
<1>5. QED BY <1>1, <1>2, <1>4

(* The config map with another text. *)
LEMMA NewText ==
  ASSUME TypeInv, cm.exists, NEW l \in Leases, NEW b \in BOOLEAN
  PROVE  /\ [cm EXCEPT !.dhcp = Text(l, b)] \in ConfigMaps
         /\ [cm EXCEPT !.dhcp = Text(l, b)].exists
         /\ [cm EXCEPT !.dhcp = Text(l, b)].dhcp = [leases |-> l, lines |-> b]
BY DEF TypeInv, MapOK, ConfigMaps, Text, Texts

LEMMA ReadLeases ==
  ASSUME TypeInv
  PROVE  FromStringToDHCP(cm.dhcp) \in Leases
BY ReadsLess DEF TypeInv, MapOK, ConfigMaps

LEMMA PatchTypes ==
  ASSUME TypeInv, NEW d \in Devices, NEW l1 \in Labels \ RetryLabels, NEW l2 \in Labels \ RetryLabels,
         PatchDHCP(d, l1, l2)
  PROVE  TypeInv'
<1>1. \/ Goto(d, l2) /\ UNCHANGED <<cm, robbed, fresh>>
      \/ cm.exists /\ Write(d, [cm EXCEPT !.dhcp = Text(used[d], TRUE)]) /\ Goto(d, l1)
  BY DEF PatchDHCP
<1>2. UNCHANGED <<ref, addr, used, records, cur, tries, counted, overlap, uncounted, leaked, reused,
                  full, budget>>
  BY DEF PatchDHCP, local, counts
<1>3. pc' \in [Devices -> Labels] /\ RetryOK'
  BY <1>1, <1>2, Moves, Keeps
<1>4. MapOK' /\ FreshOK' /\ robbed' \subseteq Devices
  <2>1. CASE UNCHANGED <<cm, robbed, fresh>>
    BY <2>1 DEF TypeInv, MapOK, FreshOK, NamesOK
  <2>2. CASE cm.exists /\ Write(d, [cm EXCEPT !.dhcp = Text(used[d], TRUE)])
    <3>1. used[d] \in Leases
      BY DEF TypeInv, CallOK
    <3>2. QED BY <2>2, <3>1, NewText, WritesMap
  <2>3. QED BY <1>1, <2>1, <2>2
<1>5. QED BY <1>2, <1>3, <1>4 DEF TypeInv, CallOK, CountOK, NamesOK, FlagsOK

(* InitDHCPIfNecessary leaves the map as it is, or makes it. *)
LEMMA InitMapTypes ==
  ASSUME TypeInv, NEW d \in Devices, InitDHCPIfNecessary(d)
  PROVE  MapOK' /\ FreshOK' /\ robbed' \subseteq Devices
<1>1. CASE UNCHANGED <<cm, robbed, fresh>>
  BY <1>1 DEF TypeInv, MapOK, FreshOK, NamesOK
<1> DEFINE m == [NoMap EXCEPT !.exists = TRUE, !.dhcp = Text(With(Nobody, d, Router), FALSE)]
<1>2. CASE Write(d, m)
  <2>1. Router \in Ips
    BY VpnMapAssumption DEF Ips
  <2>2. With(Nobody, d, Router) \in Leases
    BY <2>1, NobodyHas, WithHas
  <2>3. m \in ConfigMaps /\ m.exists
    BY <2>2, NobodyHas DEF NoMap, ConfigMaps, Texts, Text
  <2>4. QED BY <1>2, <2>3, WritesMap
<1>3. QED BY <1>1, <1>2 DEF InitDHCPIfNecessary

(* AddMacToIPRecord, to the map that is there. *)
LEMMA RecordTypes ==
  ASSUME TypeInv, cm.exists, NEW d \in Devices, NEW ip \in Ips, AddMacToIPRecord(d, ip)
  PROVE  MapOK' /\ FreshOK' /\ robbed' \subseteq Devices
<1> DEFINE r == [e \in DOMAIN records[d] \cup {d} |-> IF e = d THEN ip ELSE records[d][e]]
           m == [cm EXCEPT !.macs = r]
<1>1. records[d] \in Records
  BY DEF TypeInv, CallOK
<1>2. /\ DOMAIN records[d] \subseteq Devices
      /\ \A e \in DOMAIN records[d] : records[d][e] \in Ips
  BY <1>1, RecordsAre
<1>3. /\ r = [e \in DOMAIN r |-> r[e]] /\ DOMAIN r \subseteq Devices
      /\ \A e \in DOMAIN r : r[e] \in Ips
  BY <1>2
<1>4. r \in Records
  BY <1>3, RecordsAre
<1>5. m \in ConfigMaps /\ m.exists
  BY <1>4 DEF TypeInv, MapOK, ConfigMaps
<1>6. Write(d, m)
  BY DEF AddMacToIPRecord
<1>7. QED BY <1>5, <1>6, WritesMap

LEMMA ConnectTypes ==
  ASSUME TypeInv, NEW d \in Devices, Connect(d)
  PROVE  TypeInv'
<1>1. CASE InitDHCP(d)
  <2>1. /\ Goto(d, "generate") /\ pc[d] = "idle"
        /\ UNCHANGED <<ref, addr, used, records, cur, tries, counted, overlap, uncounted, leaked,
                       reused, full>>
    BY <1>1 DEF InitDHCP, Begin, At, local, counts
  <2>2. pc' \in [Devices -> Labels] /\ RetryOK'
    BY <2>1, Moves, Keeps DEF Labels, RetryLabels
  <2>3. MapOK' /\ FreshOK' /\ robbed' \subseteq Devices
    BY <1>1, InitMapTypes DEF InitDHCP
  <2>4. QED BY <2>1, <2>2, <2>3 DEF TypeInv, CallOK, CountOK, NamesOK, FlagsOK
<1>2. CASE GenerateTunIP(d)
  <2>1. /\ pc[d] = "generate" /\ robbed' = robbed \ {d}
        /\ UNCHANGED <<cm, ref, used, cur, tries, fresh, counted, overlap, uncounted, leaked, full>>
    BY <1>2 DEF GenerateTunIP, At, shared, counts
  <2>2. cm \in ConfigMaps
    BY DEF TypeInv, MapOK
  <2>3. cm.macs \in Records
    BY <2>2 DEF ConfigMaps
  <2>4. d \in DOMAIN cm.macs => cm.macs[d] \in Ips
    BY <2>3, RecordsAre
  <2>5. /\ \E l \in {"idle", "port", "rent"} : Goto(d, l)
        /\ addr' = addr \/ (d \in DOMAIN cm.macs /\ addr' = [addr EXCEPT ![d] = cm.macs[d]])
        /\ records' = records \/ records' = [records EXCEPT ![d] = cm.macs]
        /\ reused' \subseteq reused \cup {d}
    BY <1>2 DEF GenerateTunIP, Prepared
  <2>6. pc' \in [Devices -> Labels] /\ RetryOK'
    BY <2>1, <2>5, Moves, Keeps DEF Labels, RetryLabels
  <2>7. addr' \in [Devices -> Ips] /\ records' \in [Devices -> Records]
    BY <2>3, <2>4, <2>5 DEF TypeInv, CallOK
  <2>8. QED BY <2>1, <2>5, <2>6, <2>7 DEF TypeInv, MapOK, CallOK, FreshOK, CountOK, NamesOK, FlagsOK
<1>3. CASE RentIP(d)
  <2> DEFINE l == FromStringToDHCP(cm.dhcp)
             ip == getIP(d, GetAvailableIPs(l))
  <2>1. UNCHANGED <<cm, ref, records, cur, tries, fresh, counted, overlap, uncounted, leaked, robbed,
                    reused>>
    BY <1>3 DEF RentIP, shared, counts
  <2>2. ip \in Ips /\ With(l, d, ip) \in Leases
    BY getIPIsIp, ReadLeases, WithHas
  <2>3. /\ \E k \in {"idle", "rented"} : Goto(d, k)
        /\ addr' = addr \/ addr' = [addr EXCEPT ![d] = ip]
        /\ used' = used \/ used' = [used EXCEPT ![d] = With(l, d, ip)]
        /\ full' \subseteq full \cup {d}
    BY <1>3 DEF RentIP
  <2>4. pc' \in [Devices -> Labels] /\ RetryOK'
    BY <2>1, <2>3, Moves, Keeps DEF Labels, RetryLabels
  <2>5. addr' \in [Devices -> Ips] /\ used' \in [Devices -> Leases]
    BY <2>2, <2>3 DEF TypeInv, CallOK
  <2>6. QED BY <2>1, <2>3, <2>4, <2>5 DEF TypeInv, MapOK, CallOK, FreshOK, CountOK, NamesOK, FlagsOK
<1>4. CASE Rented(d)
  BY <1>4, PatchTypes DEF Rented, Labels, RetryLabels
<1>5. CASE RecordMac(d)
  <2>1. UNCHANGED <<ref, addr, used, records, cur, tries, counted, overlap, uncounted, leaked, reused,
                    full>>
    BY <1>5 DEF RecordMac, local, counts
  <2>2. \/ Goto(d, "idle") /\ UNCHANGED <<cm, robbed, fresh>>
        \/ cm.exists /\ AddMacToIPRecord(d, addr[d]) /\ \E l \in {"port", "idle"} : Goto(d, l)
    BY <1>5 DEF RecordMac, Prepared
  <2>3. pc' \in [Devices -> Labels] /\ RetryOK'
    BY <2>1, <2>2, Moves, Keeps DEF Labels, RetryLabels
  <2>4. MapOK' /\ FreshOK' /\ robbed' \subseteq Devices
    <3>1. CASE UNCHANGED <<cm, robbed, fresh>>
      BY <3>1 DEF TypeInv, MapOK, FreshOK, NamesOK
    <3>2. CASE cm.exists /\ AddMacToIPRecord(d, addr[d])
      BY <3>2, RecordTypes DEF TypeInv, CallOK
    <3>3. QED BY <2>2, <3>1, <3>2
  <2>5. QED BY <2>1, <2>3, <2>4 DEF TypeInv, CallOK, CountOK, NamesOK, FlagsOK
<1>6. QED BY <1>1, <1>2, <1>3, <1>4, <1>5 DEF Connect

(* The steps that leave the map, the addresses and the records alone. *)
LEMMA CountTypes ==
  ASSUME TypeInv, RetryOK', CountOK', FlagsOK', pc' \in [Devices -> Labels],
         UNCHANGED <<cm, addr, used, records, fresh, robbed, reused, full>>
  PROVE  TypeInv'
BY DEF TypeInv, MapOK, CallOK, FreshOK, NamesOK

LEMMA GetTypes ==
  ASSUME TypeInv, NEW d \in Devices, NEW here, NEW l1 \in Labels \ RetryLabels,
         NEW l2 \in Labels \ RetryLabels, GetRefCount(d, here, l1, l2)
  PROVE  TypeInv'
<1>1. /\ UNCHANGED <<cm, ref, addr, used, records, tries, fresh, counted, overlap, leaked, robbed,
                     reused, full>>
      /\ \E l \in {l1, l2} : Goto(d, l)
      /\ (ref # NoPod /\ cur' = [cur EXCEPT ![d] = ref]) \/ cur' = cur
  BY DEF GetRefCount, shared
<1>2. uncounted' = (uncounted \/ here = "increment") \/ uncounted' = uncounted
  BY DEF GetRefCount
<1>3. uncounted' \in BOOLEAN
  BY <1>2, Zenon DEF TypeInv, FlagsOK
<1>4. pc' \in [Devices -> Labels] /\ RetryOK'
  BY <1>1, Moves, Keeps
<1>5. CountOK'
  BY <1>1 DEF TypeInv, CountOK
<1>6. FlagsOK'
  BY <1>1, <1>3 DEF TypeInv, FlagsOK
<1>7. QED BY <1>1, <1>4, <1>5, <1>6, CountTypes

LEMMA RefTypes ==
  ASSUME TypeInv, NEW d \in Devices, NEW here, NEW n \in Int, NEW l \in Labels \ RetryLabels,
         PatchRefCount(d, here, n, l)
  PROVE  TypeInv'
<1>1. UNCHANGED <<cm, addr, used, records, cur, tries, fresh, robbed, reused, full>> /\ Goto(d, l)
  BY DEF PatchRefCount, local
<1>2. \/ ref' = ref /\ counted' = counted
      \/ ref' = cur[d] + n /\ counted' = [counted EXCEPT ![d] = @ + n]
  BY DEF PatchRefCount
<1>3. CountOK'
  BY <1>1, <1>2 DEF TypeInv, CountOK
<1>4. FlagsOK'
  <2>1. overlap' = overlap \/ overlap' = (overlap \/ ref # cur[d])
    BY DEF PatchRefCount
  <2>2. uncounted' = (uncounted \/ n = 1) \/ uncounted' = (uncounted \/ counted'[d] < 0)
    BY DEF PatchRefCount
  <2>3. leaked' = leaked \/ leaked' = (leaked \/ counted'[d] > 1)
    BY DEF PatchRefCount
  <2>4. overlap' \in BOOLEAN
    BY <2>1, Zenon DEF TypeInv, FlagsOK
  <2>5. uncounted' \in BOOLEAN
    BY <2>2, Zenon
  <2>6. leaked' \in BOOLEAN
    BY <2>3, Zenon DEF TypeInv, FlagsOK
  <2>7. QED BY <2>4, <2>5, <2>6 DEF FlagsOK
<1>5. pc' \in [Devices -> Labels] /\ RetryOK'
  BY <1>1, Moves, Keeps
<1>6. QED BY <1>1, <1>3, <1>4, <1>5, CountTypes

(* The steps that only move a device and its tries. *)
LEMMA QuietTypes ==
  ASSUME TypeInv, RetryOK', pc' \in [Devices -> Labels],
         UNCHANGED <<cm, ref, addr, used, records, cur, fresh, history>>
  PROVE  TypeInv'
BY CountTypes DEF TypeInv, CountOK, FlagsOK, history, counts

LEMMA DialTypes ==
  ASSUME TypeInv, NEW d \in Devices, Dial(d)
  PROVE  TypeInv'
<1>1. CASE ConnectFails(d) \/ PodAlreadyExists(d) \/ NoTunnel(d)
  <2>1. /\ Goto(d, "release") /\ tries' = [tries EXCEPT ![d] = Retries]
        /\ UNCHANGED <<cm, ref, addr, used, records, cur, fresh, history>>
    BY <1>1 DEF ConnectFails, PodAlreadyExists, NoTunnel, shared
  <2>2. pc' \in [Devices -> Labels] /\ RetryOK'
    BY <2>1, Moves, Retrying DEF Labels
  <2>3. QED BY <2>1, <2>2, QuietTypes
<1>2. CASE GetPod(d) \/ TunnelUp(d) \/ Redial(d)
  <2>1. /\ \E l \in {"create", "increment", "up", "port"} : Goto(d, l)
        /\ UNCHANGED <<cm, ref, addr, used, records, cur, tries, fresh, history>>
    BY <1>2 DEF GetPod, TunnelUp, Redial, shared, local
  <2>2. pc' \in [Devices -> Labels] /\ RetryOK'
    BY <2>1, Moves, Keeps DEF Labels, RetryLabels
  <2>3. QED BY <2>1, <2>2, QuietTypes
<1>3. CASE CreatePod(d)
  <2>1. /\ Goto(d, "start") /\ ref' = 1 /\ counted' = [counted EXCEPT ![d] = @ + 1]
        /\ UNCHANGED <<cm, addr, used, records, cur, tries, fresh, robbed, reused, full, overlap,
                       uncounted, leaked>>
    BY <1>3 DEF CreatePod, local
  <2>2. pc' \in [Devices -> Labels] /\ RetryOK'
    BY <2>1, Moves, Keeps DEF Labels, RetryLabels
  <2>3. CountOK' /\ FlagsOK'
    BY <2>1 DEF TypeInv, CountOK, FlagsOK
  <2>4. QED BY <2>1, <2>2, <2>3, CountTypes
<1>4. CASE Increment(d)
  BY <1>4, GetTypes, RefTypes DEF Increment, Labels, RetryLabels
<1>5. QED BY <1>1, <1>2, <1>3, <1>4 DEF Dial

LEMMA UpdateTypes ==
  ASSUME TypeInv, NEW d \in Devices, pc[d] \in RetryLabels, NEW which, NEW l \in Leases,
         NEW next \in {"delete", "decrement"}, UpdateDHCP(d, which, l, next)
  PROVE  TypeInv'
<1>1. UNCHANGED <<ref, addr, used, records, cur, counted, overlap, uncounted, leaked, reused, full>>
  BY DEF UpdateDHCP, counts
<1>2. \/ cm.exists /\ Write(d, [cm EXCEPT !.dhcp = Text(l, FALSE)]) /\ Goto(d, next) /\ tries' = tries
      \/ Conflict(d) /\ UNCHANGED <<cm, robbed, fresh>>
      \/ Goto(d, "decrement") /\ UNCHANGED <<cm, robbed, fresh, tries>>
  BY DEF UpdateDHCP
<1>3. MapOK' /\ FreshOK' /\ robbed' \subseteq Devices
  <2>1. CASE UNCHANGED <<cm, robbed, fresh>>
    BY <2>1 DEF TypeInv, MapOK, FreshOK, NamesOK
  <2>2. CASE cm.exists /\ Write(d, [cm EXCEPT !.dhcp = Text(l, FALSE)])
    BY <2>2, NewText, WritesMap
  <2>3. QED BY <1>2, <2>1, <2>2
<1>4. pc' \in [Devices -> Labels] /\ RetryOK'
  <2>1. CASE Conflict(d)
    <3>1. /\ tries' = [tries EXCEPT ![d] = @ - 1]
          /\ Goto(d, IF tries[d] = 1 THEN "decrement" ELSE "release")
      BY <2>1 DEF Conflict
    <3>2. /\ tries \in [Devices -> 0..Retries] /\ tries[d] > 0 /\ Retries \in Nat
          /\ \A e \in Devices : pc[e] \in RetryLabels => tries[e] > 0
      BY VpnMapAssumption DEF TypeInv, RetryOK
    <3>3. /\ pc' \in [Devices -> Labels]
          /\ pc'[d] = IF tries[d] = 1 THEN "decrement" ELSE "release"
          /\ \A e \in Devices \ {d} : pc'[e] = pc[e]
      BY <3>1, Moves DEF Labels
    <3>4. tries' \in [Devices -> 0..Retries]
      BY <3>1, <3>2
    <3>5. pc'[d] \in RetryLabels => tries'[d] > 0
      BY <3>1, <3>2, <3>3 DEF RetryLabels
    <3>6. \A e \in Devices \ {d} : pc'[e] \in RetryLabels => tries'[e] > 0
      BY <3>1, <3>2, <3>3
    <3>7. QED BY <3>3, <3>4, <3>5, <3>6 DEF RetryOK
  <2>2. CASE tries' = tries /\ \E k \in {"delete", "decrement"} : Goto(d, k)
    BY <2>2, Moves, Keeps DEF Labels
  <2>3. QED BY <1>2, <2>1, <2>2
<1>5. QED BY <1>1, <1>3, <1>4 DEF TypeInv, CallOK, CountOK, NamesOK, FlagsOK

LEMMA LeaveTypes ==
  ASSUME TypeInv, NEW d \in Devices, Leave(d)
  PROVE  TypeInv'
<1>2. CASE ReleaseIP(d)
  <2>1. /\ pc[d] = "release" /\ \E l \in {"decrement", "read", "delete"} : Goto(d, l)
        /\ used' = used \/ used' = [used EXCEPT ![d] = FromStringToDHCP(cm.dhcp)]
        /\ fresh' = fresh \/ fresh' = [fresh EXCEPT ![d] = {"outer"}]
        /\ UNCHANGED <<cm, ref, addr, records, cur, tries, counted, overlap, uncounted, leaked, robbed,
                       reused, full>>
    BY <1>2 DEF ReleaseIP, At, shared, history, counts
  <2>2. pc' \in [Devices -> Labels] /\ RetryOK'
    BY <2>1, Moves, Keeps DEF Labels, RetryLabels
  <2>3. used' \in [Devices -> Leases]
    BY <2>1, ReadLeases DEF TypeInv, CallOK
  <2>4. FreshOK'
    BY <2>1 DEF TypeInv, FreshOK
  <2>5. QED BY <2>1, <2>2, <2>3, <2>4 DEF TypeInv, MapOK, CallOK, CountOK, NamesOK, FlagsOK
<1>3. CASE ReleaseRead(d)
  <2>1. /\ pc[d] = "read" /\ \E l \in {"free", "decrement"} : Goto(d, l)
        /\ fresh' = fresh \/ fresh' = [fresh EXCEPT ![d] = @ \cup {"inner"}]
        /\ UNCHANGED <<cm, ref, addr, used, records, cur, tries, counted, overlap, uncounted, leaked,
                       robbed, reused, full>>
    BY <1>3 DEF ReleaseRead, Read, At, shared, local, history, counts
  <2>2. pc' \in [Devices -> Labels] /\ RetryOK'
    BY <2>1, Moves, Keeps DEF Labels, RetryLabels
  <2>3. FreshOK'
    BY <2>1 DEF TypeInv, FreshOK
  <2>4. QED BY <2>1, <2>2, <2>3 DEF TypeInv, MapOK, CallOK, CountOK, NamesOK, FlagsOK
<1>4. CASE ReleaseFree(d)
  <2> DEFINE l == FromStringToDHCP(cm.dhcp)
             f == [e \in DOMAIN l |-> l[e] \ used[d][d]]
  <2>1. pc[d] \in RetryLabels /\ UpdateDHCP(d, "inner", f, "delete")
    BY <1>4 DEF ReleaseFree, At, RetryLabels
  <2>2. f \in Leases
    BY ReadLeases, FreedHas
  <2> HIDE DEF f
  <2>3. QED BY <2>1, <2>2, UpdateTypes
<1>5. CASE ReleaseDelete(d)
  <2>1. pc[d] \in RetryLabels /\ UpdateDHCP(d, "outer", Without(used[d], d), "decrement")
    BY <1>5 DEF ReleaseDelete, At, RetryLabels
  <2>2. Without(used[d], d) \in Leases
    BY WithoutHas DEF TypeInv, CallOK
  <2>3. QED BY <2>1, <2>2, UpdateTypes
<1>6. CASE Decrement(d)
  BY <1>6, GetTypes, RefTypes DEF Decrement, Labels, RetryLabels
<1>7. CASE CleanUp(d)
  <2>1. /\ \E l \in {"deleteMap", "idle"} : Goto(d, l)
        /\ cur' = [cur EXCEPT ![d] = IF ref = NoPod THEN @ ELSE ref]
        /\ UNCHANGED <<cm, ref, addr, used, records, tries, fresh, counted, overlap, uncounted, leaked,
                       robbed, reused, full>>
    BY <1>7 DEF CleanUp, shared, history, counts
  <2>2. pc' \in [Devices -> Labels] /\ RetryOK'
    BY <2>1, Moves, Keeps DEF Labels, RetryLabels
  <2>3. CountOK' /\ FlagsOK'
    BY <2>1 DEF TypeInv, CountOK, FlagsOK
  <2>4. QED BY <2>1, <2>2, <2>3, CountTypes
<1>8. CASE DeleteMap(d)
  <2>1. /\ Goto(d, "deletePod") /\ Write(d, NoMap)
        /\ UNCHANGED <<ref, addr, used, records, cur, tries, counted, overlap, uncounted, leaked,
                       reused, full>>
    BY <1>8 DEF DeleteMap, local, counts
  <2>2. pc' \in [Devices -> Labels] /\ RetryOK'
    BY <2>1, Moves, Keeps DEF Labels, RetryLabels
  <2>3. MapOK' /\ FreshOK' /\ robbed' \subseteq Devices
    BY <2>1, NoMapIs, WritesMap
  <2>4. QED BY <2>1, <2>2, <2>3 DEF TypeInv, CallOK, CountOK, NamesOK, FlagsOK
<1>9. CASE DeletePod(d)
  <2>1. /\ Goto(d, "idle") /\ ref' = NoPod /\ counted' = [e \in Devices |-> 0]
        /\ UNCHANGED <<cm, addr, used, records, cur, tries, fresh, robbed, reused, full, uncounted,
                       leaked>>
    BY <1>9 DEF DeletePod, local
  <2>2. pc' \in [Devices -> Labels] /\ RetryOK'
    BY <2>1, Moves, Keeps DEF Labels, RetryLabels
  <2>3. overlap' = (overlap \/ (ref # NoPod /\ ref # cur[d]))
    BY <1>9 DEF DeletePod
  <2>4. overlap' \in BOOLEAN
    BY <2>3, Zenon
  <2>5. CountOK' /\ FlagsOK'
    BY <2>1, <2>4 DEF TypeInv, CountOK, FlagsOK
  <2>6. QED BY <2>1, <2>2, <2>5, CountTypes
<1>10. QED BY <1>2, <1>3, <1>4, <1>5, <1>6, <1>7, <1>8, <1>9 DEF Leave

(* A Prepare of a connected device ends where it began, or disconnects. *)
LEMMA AgainMoves ==
  ASSUME TypeInv, AgainOK, NEW d \in Devices, PreparedAgain(d)
  PROVE  pc' \in [Devices -> Labels] /\ pc'[d] \in {"up", "release"} /\ RetryOK'
<1>1. goal[d] \in {"up", "release"} /\ goal[d] \in Labels
  BY DEF AgainOK, Labels
<1>2. /\ RetryOK /\ pc' \in [Devices -> Labels] /\ pc'[d] = goal[d]
      /\ \A e \in Devices \ {d} : pc'[e] = pc[e]
  BY <1>1, Moves DEF PreparedAgain, TypeInv
<1>3. Retries \in Nat \ {0} /\ tries' = [tries EXCEPT ![d] = Retries]
  BY VpnMapAssumption DEF PreparedAgain
<1>4. RetryOK'
  BY <1>2, <1>3 DEF RetryOK
<1>5. QED BY <1>1, <1>2, <1>4

LEMMA AgainTypes ==
  ASSUME TypeInv, AgainOK, NEW d \in Devices, Again(d)
  PROVE  TypeInv'
<1>1. CASE PrepareAgain(d)
  <2>1. /\ Goto(d, "regenerate") /\ pc[d] = "up"
        /\ UNCHANGED <<ref, addr, used, records, cur, tries, counted, overlap, uncounted, leaked,
                       reused, full>>
    BY <1>1 DEF PrepareAgain, Begin, At, counts
  <2>2. pc' \in [Devices -> Labels] /\ RetryOK'
    BY <2>1, Moves, Keeps DEF Labels, AgainLabels, RetryLabels
  <2>3. MapOK' /\ FreshOK' /\ robbed' \subseteq Devices
    BY <1>1, InitMapTypes DEF PrepareAgain
  <2>4. QED BY <2>1, <2>2, <2>3 DEF TypeInv, CallOK, CountOK, NamesOK, FlagsOK
<1>2. CASE GenerateAgain(d)
  <2>1. UNCHANGED <<cm, ref, addr, used, cur, fresh, counted, overlap, uncounted, leaked, robbed, reused,
                    full>>
    BY <1>2 DEF GenerateAgain, shared, history, counts
  <2>2. cm.macs \in Records
    BY DEF TypeInv, MapOK, ConfigMaps
  <2>3. records' = records \/ records' = [records EXCEPT ![d] = cm.macs]
    BY <1>2 DEF GenerateAgain
  <2>4. records' \in [Devices -> Records]
    BY <2>2, <2>3 DEF TypeInv, CallOK
  <2>5. \/ PreparedAgain(d)
        \/ tries' = tries /\ \E l \in {"up", "rerent"} : Goto(d, l)
    BY <1>2 DEF GenerateAgain
  <2>6. pc' \in [Devices -> Labels] /\ RetryOK'
    BY <2>5, AgainMoves, Moves, Keeps DEF Labels, AgainLabels, RetryLabels
  <2>7. QED BY <2>1, <2>4, <2>6 DEF TypeInv, MapOK, CallOK, FreshOK, CountOK, NamesOK, FlagsOK
<1>3. CASE RentAgain(d)
  <2> DEFINE l == FromStringToDHCP(cm.dhcp)
             ip == getIP(d, GetAvailableIPs(l))
  <2>1. UNCHANGED <<cm, ref, addr, records, cur, tries, fresh, counted, overlap, uncounted, leaked,
                    robbed, reused>>
    BY <1>3 DEF RentAgain, shared, counts
  <2>2. ip \in Ips /\ With(l, d, ip) \in Leases
    BY getIPIsIp, ReadLeases, WithHas
  <2>3. /\ \E k \in {"up", "rerented"} : Goto(d, k)
        /\ used' = used \/ used' = [used EXCEPT ![d] = With(l, d, ip)]
        /\ full' \subseteq full \cup {d}
    BY <1>3 DEF RentAgain
  <2>4. pc' \in [Devices -> Labels] /\ RetryOK'
    BY <2>1, <2>3, Moves, Keeps DEF Labels, AgainLabels, RetryLabels
  <2>5. used' \in [Devices -> Leases]
    BY <2>2, <2>3 DEF TypeInv, CallOK
  <2>6. QED BY <2>1, <2>3, <2>4, <2>5 DEF TypeInv, MapOK, CallOK, FreshOK, CountOK, NamesOK, FlagsOK
<1>4. CASE RentedAgain(d)
  BY <1>4, PatchTypes DEF RentedAgain, Labels, AgainLabels, RetryLabels
<1>5. CASE RecordAgain(d)
  <2>1. UNCHANGED <<ref, addr, used, records, cur, counted, overlap, uncounted, leaked, reused, full>>
    BY <1>5 DEF RecordAgain, counts
  <2>2. \/ Goto(d, "up") /\ UNCHANGED <<cm, robbed, fresh, tries>>
        \/ cm.exists /\ AddMacToIPRecord(d, again[d]) /\ PreparedAgain(d)
    BY <1>5 DEF RecordAgain
  <2>3. pc' \in [Devices -> Labels] /\ RetryOK'
    BY <2>2, AgainMoves, Moves, Keeps DEF Labels, RetryLabels
  <2>4. MapOK' /\ FreshOK' /\ robbed' \subseteq Devices
    <3>1. CASE UNCHANGED <<cm, robbed, fresh>>
      BY <3>1 DEF TypeInv, MapOK, FreshOK, NamesOK
    <3>2. CASE cm.exists /\ AddMacToIPRecord(d, again[d])
      BY <3>2, RecordTypes DEF AgainOK
    <3>3. QED BY <2>2, <3>1, <3>2
  <2>5. QED BY <2>1, <2>3, <2>4 DEF TypeInv, CallOK, CountOK, NamesOK, FlagsOK
<1>6. QED BY <1>1, <1>2, <1>3, <1>4, <1>5 DEF Again

LEMMA NextTypes == TypeInv /\ AgainOK /\ [Next]_vars => TypeInv'
<1>1. SUFFICES ASSUME TypeInv, AgainOK, [Next]_vars
               PROVE  TypeInv'
  OBVIOUS
<1>2. CASE UNCHANGED vars
  BY <1>1, <1>2 DEF vars, shared, local, history, counts, TypeInv, MapOK, CallOK, FreshOK, RetryOK,
     CountOK, NamesOK, FlagsOK
<1>3. ASSUME NEW d \in Devices, Reverse(d)
      PROVE  TypeInv'
  <2> DEFINE l == FromStringToDHCP(cm.dhcp)
             available == GetAvailableIPs(l)
  <2>1. PICK ip \in IF available = {} THEN {0} ELSE available :
          used' = [used EXCEPT ![d] = With(l, d, ip)]
    BY <1>3 DEF Reverse
  <2>2. /\ Goto(d, "reversed") /\ full' \subseteq full \cup {d}
        /\ UNCHANGED <<cm, ref, addr, records, cur, tries, fresh, counted, overlap, uncounted, leaked,
                       robbed, reused>>
    BY <1>3 DEF Reverse, shared, counts
  <2>3. ip \in Ips
    BY <2>1, VpnMapAssumption DEF Ips, GetAvailableIPs
  <2>4. With(l, d, ip) \in Leases
    BY <1>1, <2>3, ReadLeases, WithHas
  <2>5. used' \in [Devices -> Leases]
    BY <1>1, <2>1, <2>4 DEF TypeInv, CallOK
  <2>6. pc' \in [Devices -> Labels] /\ RetryOK'
    BY <1>1, <2>2, Moves, Keeps DEF Labels, RetryLabels
  <2>7. QED BY <1>1, <2>2, <2>5, <2>6
        DEF TypeInv, MapOK, CallOK, FreshOK, CountOK, NamesOK, FlagsOK
<1>4. ASSUME NEW d \in Devices, Reversed(d)
      PROVE  TypeInv'
  BY <1>1, <1>4, PatchTypes DEF Reversed, Labels, RetryLabels
<1>5. ASSUME NEW d \in Devices, Crash(d)
      PROVE  TypeInv'
  <2>1. /\ Goto(d, "idle") /\ leaked' = TRUE
        /\ UNCHANGED <<cm, ref, addr, used, records, cur, tries, fresh, counted, overlap, uncounted,
                       robbed, reused, full>>
    BY <1>5 DEF Crash, shared, local
  <2>2. pc' \in [Devices -> Labels] /\ RetryOK'
    BY <1>1, <2>1, Moves, Keeps DEF Labels, RetryLabels
  <2>3. CountOK' /\ FlagsOK'
    BY <1>1, <2>1 DEF TypeInv, CountOK, FlagsOK
  <2>4. QED BY <1>1, <2>1, <2>2, <2>3, CountTypes
<1>6. QED BY <1>1, <1>2, <1>3, <1>4, <1>5, ConnectTypes, DialTypes, AgainTypes, LeaveTypes DEF Next

LEMMA NextAgain == AgainOK /\ [Next]_vars => AgainOK'
<1>1. SUFFICES ASSUME AgainOK, [Next]_vars
               PROVE  AgainOK'
  OBVIOUS
<1>2. CASE UNCHANGED <<again, goal, mine>>
  BY <1>1, <1>2 DEF AgainOK
<1>3. CASE UNCHANGED vars
  BY <1>2, <1>3 DEF vars, shared, local, call
<1>4. ASSUME NEW d \in Devices, Connect(d) \/ Dial(d) \/ Reverse(d) \/ Reversed(d) \/ Crash(d)
      PROVE  AgainOK'
  <2>1. UNCHANGED <<again, goal>> /\ (mine' = mine \/ mine' = mine \cup {d})
    <3>1. CASE Connect(d) \/ Reverse(d) \/ Reversed(d) \/ Crash(d)
      BY <3>1 DEF Connect, InitDHCP, GenerateTunIP, RentIP, Rented, PatchDHCP, RecordMac, Reverse,
         Reversed, Crash, shared, local, call
    <3>2. CASE Dial(d)
      BY <3>2 DEF Dial, ConnectFails, GetPod, CreatePod, PodAlreadyExists, Increment, GetRefCount,
         PatchRefCount, TunnelUp, NoTunnel, Redial, shared, local, call
    <3>3. QED BY <1>4, <3>1, <3>2
  <2>2. QED BY <1>1, <2>1 DEF AgainOK
<1>5. ASSUME NEW d \in Devices, Leave(d)
      PROVE  AgainOK'
  <2>1. UNCHANGED <<again, goal>> /\ (mine' = mine \/ mine' = {})
    BY <1>5 DEF Leave, ReleaseIP, ReleaseRead, ReleaseFree, ReleaseDelete, UpdateDHCP, Decrement,
       GetRefCount, PatchRefCount, CleanUp, DeleteMap, DeletePod, shared, local, call
  <2>2. QED BY <1>1, <2>1 DEF AgainOK
<1>6. ASSUME NEW d \in Devices, Again(d)
      PROVE  AgainOK'
  <2> DEFINE ip == getIP(d, GetAvailableIPs(FromStringToDHCP(cm.dhcp)))
  <2>1. mine' = mine
    BY <1>6 DEF Again, PrepareAgain, GenerateAgain, RentAgain, RentedAgain, PatchDHCP, RecordAgain,
       shared
  <2>2. again' = again \/ again' = [again EXCEPT ![d] = ip]
    BY <1>6 DEF Again, PrepareAgain, GenerateAgain, RentAgain, RentedAgain, PatchDHCP, RecordAgain,
       local, call
  <2>3. goal' = goal \/ \E g \in {"up", "release"} : goal' = [goal EXCEPT ![d] = g]
    BY <1>6 DEF Again, PrepareAgain, GenerateAgain, RentAgain, RentedAgain, PatchDHCP, RecordAgain,
       local, call
  <2>4. ip \in Ips
    BY getIPIsIp
  <2> HIDE DEF ip
  <2>5. QED BY <1>1, <2>1, <2>2, <2>3, <2>4 DEF AgainOK
<1>7. QED BY <1>1, <1>3, <1>4, <1>5, <1>6 DEF Next

LEMMA InitAgain == Init => AgainOK
BY VpnMapAssumption DEF Init, AgainOK, Ips

LEMMA InitTypes == Init => TypeInv
<1>1. SUFFICES ASSUME Init
               PROVE  TypeInv
  OBVIOUS
<1>2. MapOK
  BY <1>1, NoMapIs DEF Init, MapOK
<1>3. Modulus \in Nat \ {0} /\ Retries \in Nat \ {0}
  BY VpnMapAssumption
<1>4. CallOK /\ FreshOK
  BY <1>1, <1>3, NobodyHas DEF Init, CallOK, FreshOK, Labels, Ips
<1>5. RetryOK
  BY <1>1, <1>3 DEF Init, RetryOK, RetryLabels
<1>6. CountOK /\ NamesOK
  BY <1>1 DEF Init, CountOK, NamesOK
<1>7. FlagsOK
  BY <1>1, Zenon DEF Init, FlagsOK
<1>8. QED BY <1>2, <1>4, <1>5, <1>6, <1>7 DEF TypeInv

LEMMA TypesHold == Spec => [](TypeInv /\ AgainOK)
<1>1. Spec => []AgainOK
  BY InitAgain, NextAgain, PTL DEF Spec
<1>2. QED BY <1>1, InitTypes, NextTypes, PTL DEF Spec

(* Whatever the devices of a namespace read, patch and update at the same  *)
(* time, the config map, the leases they have read (FromStringToDHCP) and  *)
(* the addresses they have rented (getIP) stay well formed, every address  *)
(* is below the modulus, and RetryOnConflict never runs out of tries while *)
(* it runs.                                                                *)
THEOREM TypeCorrect == Spec => []TypeOK
<1>1. QED BY TypesHold, TypeParts, PTL

-----------------------------------------------------------------------------
(* Leases.  F is a set of devices that rented when none was available. *)

Exclusive(l, F) ==
  \A d, e \in DOMAIN l : d # e => l[d] \cap l[e] = {} \/ {d, e} \cap F # {}

(* No address is leased to two devices, in the config map and in what the  *)
(* devices have read of it and may write back.                             *)
Excl == Exclusive(cm.dhcp.leases, full) /\ \A d \in Devices : Exclusive(used[d], full)

LEMMA ExclusiveLess ==
  ASSUME NEW l, NEW k, NEW F, NEW G, Exclusive(l, F), F \subseteq G, DOMAIN k \subseteq DOMAIN l,
         \A d \in DOMAIN k : k[d] \subseteq l[d]
  PROVE  Exclusive(k, G)
<1>1. SUFFICES ASSUME NEW d \in DOMAIN k, NEW e \in DOMAIN k, d # e,
                      k[d] \cap k[e] # {}
               PROVE  {d, e} \cap G # {}
  BY DEF Exclusive
<1>2. l[d] \cap l[e] # {} /\ d \in DOMAIN l /\ e \in DOMAIN l
  BY <1>1
<1>3. {d, e} \cap F # {}
  BY <1>1, <1>2 DEF Exclusive
<1>4. QED BY <1>3

LEMMA ExclusiveWith ==
  ASSUME NEW l \in Leases, NEW d \in Devices, NEW ip \in Ips, NEW F, NEW G, Exclusive(l, F),
         F \subseteq G, ip \notin Taken(l) \/ d \in G
  PROVE  Exclusive(With(l, d, ip), G)
<1> DEFINE w == With(l, d, ip)
<1>1. /\ DOMAIN w = DOMAIN l \cup {d} /\ \A e \in DOMAIN l \ {d} : w[e] = l[e]
      /\ w[d] = (IF d \in DOMAIN l THEN l[d] ELSE {}) \cup {ip}
  BY DEF With
<1> HIDE DEF w
<1>2. \A e \in DOMAIN l \ {d} : w[e] \cap w[d] = {} \/ {d, e} \cap G # {}
  <2>1. SUFFICES ASSUME NEW e \in DOMAIN l \ {d}, d \notin G, e \notin G
                 PROVE  w[e] \cap w[d] = {}
    BY Zenon
  <2>2. ip \notin l[e]
    BY <2>1 DEF Taken
  <2>3. d \in DOMAIN l => l[d] \cap l[e] = {}
    BY <2>1 DEF Exclusive
  <2>4. QED BY <1>1, <2>2, <2>3
<1>3. \A e, f \in DOMAIN l \ {d} : e # f => w[e] \cap w[f] = {} \/ {e, f} \cap G # {}
  <2>1. SUFFICES ASSUME NEW e \in DOMAIN l \ {d}, NEW f \in DOMAIN l \ {d}, e # f
                 PROVE  w[e] \cap w[f] = {} \/ {e, f} \cap G # {}
    OBVIOUS
  <2>2. l[e] \cap l[f] = {} \/ {e, f} \cap F # {}
    BY <2>1 DEF Exclusive
  <2>3. QED BY <1>1, <2>2
<1>4. QED
  <2>1. SUFFICES ASSUME NEW e \in DOMAIN w, NEW f \in DOMAIN w, e # f
                 PROVE  w[e] \cap w[f] = {} \/ {e, f} \cap G # {}
    BY DEF Exclusive, w
  <2>2. CASE e = d
    BY <1>1, <1>2, <2>1, <2>2
  <2>3. CASE f = d
    BY <1>1, <1>2, <2>1, <2>3
  <2>4. CASE e # d /\ f # d
    BY <1>1, <1>3, <2>1, <2>4
  <2>5. QED BY <2>2, <2>3, <2>4

LEMMA NobodyExclusive == \A F : Exclusive(Nobody, F)
BY NobodyHas DEF Exclusive

(* What the step of d may do to the leases. *)
LEMMA ReadExclusive ==
  ASSUME TypeInv, Excl
  PROVE  Exclusive(FromStringToDHCP(cm.dhcp), full)
<1>1. cm.dhcp \in Texts
  BY DEF TypeInv, MapOK, ConfigMaps
<1>2. QED BY <1>1, ReadsLess, ExclusiveLess DEF Excl

LEMMA KeepsLeases ==
  ASSUME TypeInv, Excl, NEW d \in Devices, full \subseteq full',
         used' = [used EXCEPT ![d] = used'[d]], used'[d] = used[d] \/ Exclusive(used'[d], full'),
         cm'.dhcp.leases = cm.dhcp.leases \/ Exclusive(cm'.dhcp.leases, full')
  PROVE  Excl'
<1>1. \A l : Exclusive(l, full) => Exclusive(l, full')
  BY DEF Exclusive
<1>2. \A e \in Devices : used'[e] = used[e] \/ Exclusive(used'[e], full')
  BY DEF TypeInv, CallOK
<1>3. \A e \in Devices : Exclusive(used'[e], full')
  BY <1>1, <1>2 DEF Excl
<1>4. Exclusive(cm'.dhcp.leases, full')
  BY <1>1 DEF Excl
<1>5. QED BY <1>3, <1>4 DEF Excl

(* What a write of the config map leaves of the addresses of the others. *)
LEMMA WriteRobs ==
  ASSUME NEW d \in Devices, NEW m, Write(d, m)
  PROVE  /\ cm' = m
         /\ \A e \in Devices \ {d} : e \notin robbed' => e \notin robbed /\ Held(e, cm) \subseteq Held(e, cm')
BY DEF Write

LEMMA PatchLeases ==
  ASSUME TypeInv, Excl, NEW d \in Devices, NEW l1, NEW l2, PatchDHCP(d, l1, l2)
  PROVE  Excl'
<1>1. UNCHANGED <<used, full>>
  BY DEF PatchDHCP, local
<1>2. \/ cm' = cm
      \/ cm.exists /\ cm' = [cm EXCEPT !.dhcp = Text(used[d], TRUE)]
  BY DEF PatchDHCP, Write
<1>3. cm'.dhcp.leases = cm.dhcp.leases \/ cm'.dhcp.leases = used[d]
  <2>1. CASE cm' = cm
    BY <2>1
  <2>2. CASE cm.exists /\ cm' = [cm EXCEPT !.dhcp = Text(used[d], TRUE)]
    <3>1. used[d] \in Leases
      BY DEF TypeInv, CallOK
    <3>2. cm'.dhcp = [leases |-> used[d], lines |-> TRUE]
      BY <2>2, <3>1, NewText
    <3>3. QED BY <3>2
  <2>3. QED BY <1>2, <2>1, <2>2
<1>4. used' = [used EXCEPT ![d] = used'[d]] /\ used'[d] = used[d]
  BY <1>1 DEF TypeInv, CallOK
<1>5. Exclusive(used[d], full')
  BY <1>1 DEF Excl
<1>6. QED BY <1>1, <1>3, <1>4, <1>5, KeepsLeases

LEMMA UpdateLeases ==
  ASSUME TypeInv, Excl, NEW d \in Devices, NEW which, NEW l \in Leases, NEW next,
         Exclusive(l, full), UpdateDHCP(d, which, l, next)
  PROVE  Excl'
<1>1. UNCHANGED <<used, full>>
  BY DEF UpdateDHCP
<1>2. \/ cm' = cm
      \/ cm.exists /\ cm' = [cm EXCEPT !.dhcp = Text(l, FALSE)]
  BY DEF UpdateDHCP, Write
<1>3. cm'.dhcp.leases = cm.dhcp.leases \/ cm'.dhcp.leases = l
  <2>1. CASE cm' = cm
    BY <2>1
  <2>2. CASE cm.exists /\ cm' = [cm EXCEPT !.dhcp = Text(l, FALSE)]
    <3>1. cm'.dhcp = [leases |-> l, lines |-> FALSE]
      BY <2>2, NewText
    <3>2. QED BY <3>1
  <2>3. QED BY <1>2, <2>1, <2>2
<1>4. used' = [used EXCEPT ![d] = used'[d]] /\ used'[d] = used[d]
  BY <1>1 DEF TypeInv, CallOK
<1>5. QED BY <1>1, <1>3, <1>4, KeepsLeases

(* The steps that write no leases. *)
LEMMA QuietLeases ==
  ASSUME Excl, cm'.dhcp = cm.dhcp, UNCHANGED <<used, full>>
  PROVE  Excl'
BY DEF Excl

LEMMA NextLeases == TypeInv /\ Excl /\ [Next]_vars => Excl'
<1>1. SUFFICES ASSUME TypeInv, Excl, [Next]_vars
               PROVE  Excl'
  OBVIOUS
<1>2. CASE UNCHANGED vars
  BY <1>1, <1>2, QuietLeases DEF vars, shared, local, history
<1>3. ASSUME NEW d \in Devices, InitDHCP(d) \/ PrepareAgain(d)
      PROVE  Excl'
  <2>1. UNCHANGED <<used, full>>
    BY <1>3 DEF InitDHCP, PrepareAgain, local
  <2>2. CASE cm' = cm
    BY <1>1, <2>1, <2>2, QuietLeases
  <2>3. CASE cm' = [NoMap EXCEPT !.exists = TRUE, !.dhcp = Text(With(Nobody, d, Router), FALSE)]
    <3>1. cm'.dhcp.leases = With(Nobody, d, Router)
      BY <2>3 DEF NoMap, Text
    <3>2. Router \in Ips /\ Taken(Nobody) = {}
      BY VpnMapAssumption, NobodyHas DEF Ips, Taken
    <3>3. Exclusive(With(Nobody, d, Router), full')
      BY <3>2, NobodyHas, NobodyExclusive, ExclusiveWith
    <3>4. used' = [used EXCEPT ![d] = used'[d]] /\ used'[d] = used[d]
      BY <1>1, <2>1 DEF TypeInv, CallOK
    <3>5. QED BY <1>1, <2>1, <3>1, <3>3, <3>4, KeepsLeases
  <2>4. QED BY <1>3, <2>2, <2>3 DEF InitDHCP, PrepareAgain, InitDHCPIfNecessary, Write
<1>4. ASSUME NEW d \in Devices, RentIP(d) \/ RentAgain(d)
      PROVE  Excl'
  <2> DEFINE l == FromStringToDHCP(cm.dhcp)
             ip == getIP(d, GetAvailableIPs(l))
  <2>1. cm' = cm
    BY <1>4 DEF RentIP, RentAgain, shared
  <2>2. CASE UNCHANGED <<used, full>>
    BY <1>1, <2>1, <2>2, QuietLeases
  <2>3. CASE /\ used' = [used EXCEPT ![d] = With(l, d, ip)]
             /\ full' = IF ip \in GetAvailableIPs(l) THEN full ELSE full \cup {d}
    <3>1. ip \in Ips /\ l \in Leases /\ Exclusive(l, full)
      BY <1>1, getIPIsIp, ReadLeases, ReadExclusive
    <3>2. full \subseteq full' /\ (ip \notin Taken(l) \/ d \in full')
      BY <2>3 DEF GetAvailableIPs
    <3>3. used'[d] = With(l, d, ip) /\ used' = [used EXCEPT ![d] = used'[d]]
      BY <1>1, <2>3 DEF TypeInv, CallOK
    <3> HIDE DEF l, ip
    <3>4. Exclusive(With(l, d, ip), full')
      BY <3>1, <3>2, ExclusiveWith
    <3>5. QED BY <1>1, <2>1, <3>2, <3>3, <3>4, KeepsLeases
  <2>4. QED BY <1>4, <2>2, <2>3 DEF RentIP, RentAgain
<1>5. ASSUME NEW d \in Devices, Reverse(d)
      PROVE  Excl'
  <2> DEFINE l == FromStringToDHCP(cm.dhcp)
             available == GetAvailableIPs(l)
  <2>1. PICK ip \in IF available = {} THEN {0} ELSE available :
          /\ used' = [used EXCEPT ![d] = With(l, d, ip)]
          /\ full' = IF available = {} THEN full \cup {d} ELSE full
    BY <1>5 DEF Reverse
  <2>2. cm' = cm
    BY <1>5 DEF Reverse, shared
  <2>3. ip \in Ips
    BY <2>1, VpnMapAssumption DEF Ips, GetAvailableIPs
  <2>4. l \in Leases /\ Exclusive(l, full)
    BY <1>1, ReadLeases, ReadExclusive
  <2>5. full \subseteq full' /\ (ip \notin Taken(l) \/ d \in full')
    BY <2>1 DEF GetAvailableIPs
  <2>6. used'[d] = With(l, d, ip) /\ used' = [used EXCEPT ![d] = used'[d]]
    BY <1>1, <2>1 DEF TypeInv, CallOK
  <2> HIDE DEF l
  <2>7. Exclusive(With(l, d, ip), full')
    BY <2>3, <2>4, <2>5, ExclusiveWith
  <2>8. QED BY <1>1, <2>2, <2>5, <2>6, <2>7, KeepsLeases
<1>6. ASSUME NEW d \in Devices, RecordMac(d) \/ RecordAgain(d)
      PROVE  Excl'
  <2>1. UNCHANGED <<used, full>>
    BY <1>6 DEF RecordMac, RecordAgain, local
  <2>2. cm'.dhcp = cm.dhcp
    BY <1>1, <1>6 DEF RecordMac, RecordAgain, AddMacToIPRecord, Write, TypeInv, MapOK, ConfigMaps
  <2>3. QED BY <1>1, <2>1, <2>2, QuietLeases
<1>7. ASSUME NEW d \in Devices, ReleaseIP(d)
      PROVE  Excl'
  <2>1. UNCHANGED <<cm, full>>
        /\ (used' = used \/ used' = [used EXCEPT ![d] = FromStringToDHCP(cm.dhcp)])
    BY <1>7 DEF ReleaseIP, shared, history
  <2>2. Exclusive(FromStringToDHCP(cm.dhcp), full')
    BY <1>1, <2>1, ReadExclusive
  <2>3. used' = [used EXCEPT ![d] = used'[d]] /\ (used'[d] = used[d] \/ used'[d] = FromStringToDHCP(cm.dhcp))
    BY <1>1, <2>1 DEF TypeInv, CallOK
  <2>4. QED BY <1>1, <2>1, <2>2, <2>3, KeepsLeases
<1>8. ASSUME NEW d \in Devices, ReleaseFree(d)
      PROVE  Excl'
  <2> DEFINE l == FromStringToDHCP(cm.dhcp)
             f == [e \in DOMAIN l |-> l[e] \ used[d][d]]
  <2>1. UpdateDHCP(d, "inner", f, "delete")
    BY <1>8 DEF ReleaseFree
  <2>2. l \in Leases /\ Exclusive(l, full)
    BY <1>1, ReadLeases, ReadExclusive
  <2>3. f \in Leases /\ DOMAIN f = DOMAIN l /\ \A e \in DOMAIN f : f[e] \subseteq l[e]
    BY <2>2, FreedHas
  <2> HIDE DEF l, f
  <2>4. Exclusive(f, full)
    BY <2>2, <2>3, ExclusiveLess
  <2>5. QED BY <1>1, <2>1, <2>3, <2>4, UpdateLeases
<1>9. ASSUME NEW d \in Devices, ReleaseDelete(d)
      PROVE  Excl'
  <2> DEFINE f == Without(used[d], d)
  <2>1. UpdateDHCP(d, "outer", f, "decrement")
    BY <1>9 DEF ReleaseDelete
  <2>2. used[d] \in Leases /\ Exclusive(used[d], full)
    BY <1>1 DEF TypeInv, CallOK, Excl
  <2>3. f \in Leases /\ DOMAIN f = DOMAIN used[d] \ {d} /\ \A e \in DOMAIN f : f[e] = used[d][e]
    BY <2>2, WithoutHas
  <2> HIDE DEF f
  <2>4. Exclusive(f, full)
    BY <2>2, <2>3, ExclusiveLess
  <2>5. QED BY <1>1, <2>1, <2>3, <2>4, UpdateLeases
<1>10. ASSUME NEW d \in Devices, DeleteMap(d)
       PROVE  Excl'
  <2>1. UNCHANGED <<used, full>> /\ cm' = NoMap
    BY <1>10 DEF DeleteMap, Write, local
  <2>2. cm'.dhcp.leases = Nobody
    BY <2>1, NoMapIs
  <2>3. used' = [used EXCEPT ![d] = used'[d]] /\ used'[d] = used[d]
    BY <1>1, <2>1 DEF TypeInv, CallOK
  <2>4. QED BY <1>1, <2>1, <2>2, <2>3, NobodyExclusive, KeepsLeases
<1>11. ASSUME NEW d \in Devices, Rented(d) \/ Reversed(d) \/ RentedAgain(d)
       PROVE  Excl'
  BY <1>1, <1>11, PatchLeases DEF Rented, Reversed, RentedAgain
<1>12. ASSUME NEW d \in Devices, \/ GenerateTunIP(d) \/ GenerateAgain(d) \/ Dial(d) \/ ReleaseRead(d)
                                 \/ Decrement(d) \/ CleanUp(d) \/ DeletePod(d) \/ Crash(d)
       PROVE  Excl'
  <2>1. UNCHANGED <<cm, used, full>>
    <3>1. CASE Dial(d)
      BY <3>1 DEF Dial, ConnectFails, GetPod, CreatePod, PodAlreadyExists, Increment, GetRefCount,
         PatchRefCount, TunnelUp, NoTunnel, Redial, shared, local, history
    <3>2. CASE ReleaseRead(d) \/ Decrement(d) \/ CleanUp(d) \/ DeletePod(d)
      BY <3>2 DEF ReleaseRead, Decrement, GetRefCount, PatchRefCount, CleanUp, DeletePod,
         shared, local, history
    <3>3. CASE GenerateTunIP(d) \/ GenerateAgain(d) \/ Crash(d)
      BY <3>3 DEF GenerateTunIP, GenerateAgain, Crash, shared, local, history
    <3>4. QED BY <1>12, <3>1, <3>2, <3>3
  <2>2. QED BY <1>1, <2>1, QuietLeases
<1>13. QED BY <1>1, <1>2, <1>3, <1>4, <1>5, <1>6, <1>7, <1>8, <1>9, <1>10, <1>11, <1>12
       DEF Next, Connect, Again, Leave

LEMMA LeasesHold == Spec => [](TypeInv /\ Excl)
<1>1. Init => Excl
  <2>1. SUFFICES ASSUME Init
                 PROVE  Excl
    OBVIOUS
  <2>2. cm.dhcp.leases = Nobody /\ \A d \in Devices : used[d] = Nobody
    BY <2>1, NoMapIs DEF Init
  <2>3. QED BY <2>2, NobodyExclusive DEF Excl
<1>2. QED BY <1>1, TypesHold, NextLeases, PTL DEF Spec

(* RentIP reads the field DHCP and patches the whole of it later, ReleaseIP *)
(* updates a version it read before: whatever is lost between them, the    *)
(* leases that FromStringToDHCP finds never give one address to two        *)
(* devices, unless one of them rented when none was available.             *)
THEOREM LeasesAreExclusive == Spec => []NoDoubleLease
<1>1. TypeInv /\ Excl => NoDoubleLease
  BY ReadExclusive DEF NoDoubleLease, Exclusive
<1>2. QED BY <1>1, LeasesHold, PTL

-----------------------------------------------------------------------------
(* Addresses. *)

Trusted(d) == d \notin robbed \cup reused \cup full

HoldLabels ==
  {"record", "port", "create", "increment", "incremented", "start", "up", "reversed"} \cup AgainLabels

(* The labels before a patch of a device that has an address already. *)
Patching == {"reversed", "rerented"}

(* A device has its address leased from its patch on, as long as nobody    *)
(* drops the lease; before the patch, and before the patch of a reverse or *)
(* another Prepare, the address is among the leases it is going to write.                   *)
LeasedOf(d) ==
  /\ pc[d] \in HoldLabels /\ Trusted(d) => addr[d] \in Held(d, cm)
  /\ pc[d] = "rented" \/ (pc[d] \in Patching /\ Trusted(d)) =>
        d \in DOMAIN used[d] /\ addr[d] \in used[d][d]

Leased == \A d \in Devices : LeasedOf(d)

(* A step of d leaves a device trusted only if it leaves it its leases. *)
Spares(d) ==
  \A e \in Devices \ {d} :
      Trusted(e)' => Trusted(e) /\ Held(e, cm) \subseteq Held(e, cm')

LEMMA SparesWrite ==
  ASSUME NEW d \in Devices, UNCHANGED <<reused, full>>,
         UNCHANGED <<cm, robbed>> \/ \E m : Write(d, m)
  PROVE  Spares(d)
<1>1. CASE UNCHANGED <<cm, robbed>>
  BY <1>1 DEF Spares, Trusted
<1>2. CASE \E m : Write(d, m)
  <2>1. PICK m : Write(d, m)
    BY <1>2
  <2>2. \A e \in Devices \ {d} : e \notin robbed' => e \notin robbed /\ Held(e, cm) \subseteq Held(e, cm')
    BY <2>1, WriteRobs
  <2>3. QED BY <2>2 DEF Spares, Trusted
<1>3. QED BY <1>1, <1>2

LEMMA SparesQuiet ==
  ASSUME NEW d \in Devices, cm' = cm,
         \A e \in Devices \ {d} : e \notin robbed' \cup reused' \cup full' =>
                                  e \notin robbed \cup reused \cup full
  PROVE  Spares(d)
BY DEF Spares, Trusted

LEMMA OthersLeased ==
  ASSUME Leased, NEW d \in Devices, Spares(d), LeasedOf(d)',
         \A e \in Devices \ {d} : pc'[e] = pc[e] /\ addr'[e] = addr[e] /\ used'[e] = used[e]
  PROVE  Leased'
<1>1. SUFFICES ASSUME NEW e \in Devices \ {d}
               PROVE  LeasedOf(e)'
  BY DEF Leased
<1>2. Trusted(e)' => Trusted(e) /\ Held(e, cm) \subseteq Held(e, cm')
  BY DEF Spares
<1>3. LeasedOf(e)
  BY DEF Leased
<1>4. /\ pc'[e] \in HoldLabels /\ Trusted(e)' => addr'[e] \in Held(e, cm')
      /\ pc'[e] = "rented" \/ (pc'[e] \in Patching /\ Trusted(e)') =>
            e \in DOMAIN used'[e] /\ addr'[e] \in used'[e][e]
  BY <1>2, <1>3 DEF LeasedOf
<1>5. QED BY <1>4 DEF LeasedOf

LEMMA OutLeased ==
  ASSUME Leased, NEW d \in Devices, Spares(d), pc'[d] \notin HoldLabels \cup {"rented"},
         \A e \in Devices \ {d} : pc'[e] = pc[e] /\ addr'[e] = addr[e] /\ used'[e] = used[e]
  PROVE  Leased'
<1>1. LeasedOf(d)'
  BY DEF LeasedOf, HoldLabels, Patching, AgainLabels
<1>2. QED BY <1>1, OthersLeased

(* A device goes on with its address. *)
LEMMA HoldLeased ==
  ASSUME TypeInv, Leased, NEW d \in Devices, UNCHANGED <<cm, addr, used, robbed, reused, full>>,
         \A e \in Devices \ {d} : pc'[e] = pc[e],
         pc[d] \in HoldLabels, pc'[d] \in HoldLabels \ Patching
  PROVE  Leased'
<1>1. cm' = cm /\ addr' = addr /\ used' = used /\ robbed' = robbed /\ reused' = reused /\ full' = full
  OBVIOUS
<1>2. Spares(d)
  BY <1>1, SparesQuiet
<1>3. Trusted(d)' => Trusted(d)
  BY <1>1 DEF Trusted
<1>4. LeasedOf(d)
  BY DEF Leased
<1>5. pc'[d] \in HoldLabels /\ Trusted(d)' => addr'[d] \in Held(d, cm')
  BY <1>1, <1>3, <1>4 DEF LeasedOf
<1>6. LeasedOf(d)'
  BY <1>5 DEF LeasedOf, HoldLabels, Patching, AgainLabels
<1>7. QED BY <1>1, <1>2, <1>6, OthersLeased

LEMMA AgainHolds ==
  ASSUME TypeInv, Leased, NEW d \in Devices, UNCHANGED <<cm, addr, used, robbed, reused, full>>,
         pc[d] \in AgainLabels, NEW k \in {"up", "rerent", "release"}, Goto(d, k)
  PROVE  Leased'
<1>1. pc'[d] = k /\ \A e \in Devices \ {d} : pc'[e] = pc[e]
  BY Moves DEF Labels, AgainLabels
<1>2. CASE k = "release"
  <2>1. Spares(d)
    BY SparesQuiet
  <2>2. QED BY <1>1, <1>2, <2>1, OutLeased DEF HoldLabels, AgainLabels
<1>3. CASE k # "release"
  BY <1>1, <1>3, HoldLeased DEF HoldLabels, Patching, AgainLabels
<1>4. QED BY <1>2, <1>3

LEMMA HeldOf ==
  ASSUME NEW d, NEW m, NEW l, FromStringToDHCP(m.dhcp) = l
  PROVE  Held(d, m) = IF d \in DOMAIN l THEN l[d] ELSE {}
<1>1. CASE d \in DOMAIN l
  <2>1. Held(d, m) = l[d]
    BY <1>1 DEF Held
  <2>2. QED BY <1>1, <2>1
<1>2. CASE d \notin DOMAIN l
  <2>1. Held(d, m) = {}
    BY <1>2 DEF Held
  <2>2. QED BY <1>2, <2>1
<1>3. QED BY <1>1, <1>2

(* What FromStringToDHCP makes of a patched text. *)
LEMMA PatchedHeld ==
  ASSUME TypeInv, cm.exists, NEW l \in Leases, NEW m, m = [cm EXCEPT !.dhcp = Text(l, TRUE)], NEW d
  PROVE  Held(d, m) = IF d \in DOMAIN l THEN l[d] ELSE {}
<1>1. m.dhcp = [leases |-> l, lines |-> TRUE]
  BY NewText
<1>2. m.dhcp.lines = TRUE /\ m.dhcp.leases = l
  <2>1. [leases |-> l, lines |-> TRUE].lines = TRUE /\ [leases |-> l, lines |-> TRUE].leases = l
    BY Zenon
  <2>2. QED BY <1>1, <2>1, Zenon
<1>3. FromStringToDHCP(m.dhcp) = l
  BY <1>2, Zenon DEF FromStringToDHCP
<1>4. QED BY <1>3, HeldOf

LEMMA PatchAddress ==
  ASSUME TypeInv, Leased, NEW d \in Devices, NEW l1 \in HoldLabels \ Patching,
         NEW l2 \in {"idle", "up"}, PatchDHCP(d, l1, l2),
         pc[d] = "rented" \/ pc[d] \in Patching, l2 = "up" => pc[d] \in Patching
  PROVE  Leased'
<1>1. UNCHANGED <<addr, used, reused, full>>
  BY DEF PatchDHCP, local
<1>2. Spares(d)
  BY <1>1, SparesWrite DEF PatchDHCP
<1>3. l1 \in Labels /\ l2 \in Labels
  BY DEF HoldLabels, Patching, AgainLabels, Labels
<1>4. /\ \A e \in Devices \ {d} : pc'[e] = pc[e]
      /\ (cm' = cm /\ robbed' = robbed /\ pc'[d] = l2)
         \/ (cm.exists /\ Write(d, [cm EXCEPT !.dhcp = Text(used[d], TRUE)]) /\ pc'[d] = l1)
  BY <1>3, Moves DEF PatchDHCP
<1>5. LeasedOf(d)
  BY DEF Leased
<1>6. CASE cm' = cm /\ robbed' = robbed /\ pc'[d] = l2
  <2>1. Trusted(d)' => Trusted(d)
    BY <1>1, <1>6 DEF Trusted
  <2>2. LeasedOf(d)'
    BY <1>1, <1>5, <1>6, <2>1 DEF LeasedOf, HoldLabels, Patching, AgainLabels
  <2>3. QED BY <1>1, <1>2, <1>4, <2>2, OthersLeased
<1>7. CASE cm.exists /\ Write(d, [cm EXCEPT !.dhcp = Text(used[d], TRUE)]) /\ pc'[d] = l1
  <2>1. cm' = [cm EXCEPT !.dhcp = Text(used[d], TRUE)] /\ robbed \subseteq robbed'
    BY <1>7 DEF Write
  <2>2. used[d] \in Leases
    BY DEF TypeInv, CallOK
  <2>3. Held(d, cm') = IF d \in DOMAIN used[d] THEN used[d][d] ELSE {}
    BY <1>7, <2>1, <2>2, PatchedHeld
  <2>4. Trusted(d)' => Trusted(d)
    BY <1>1, <2>1 DEF Trusted
  <2>5. Trusted(d)' => addr'[d] \in Held(d, cm')
    BY <1>1, <1>5, <2>3, <2>4 DEF LeasedOf
  <2>6. LeasedOf(d)'
    BY <1>7, <2>5 DEF LeasedOf, HoldLabels, Patching, AgainLabels
  <2>7. QED BY <1>1, <1>2, <1>4, <2>6, OthersLeased
<1>8. QED BY <1>4, <1>6, <1>7

LEMMA ConnectLeased ==
  ASSUME TypeInv, Leased, NEW d \in Devices, Connect(d)
  PROVE  Leased'
<1> DEFINE Others == \A e \in Devices \ {d} : pc'[e] = pc[e] /\ addr'[e] = addr[e] /\ used'[e] = used[e]
<1>0. addr \in [Devices -> Ips] /\ used \in [Devices -> Leases] /\ LeasedOf(d)
  BY DEF TypeInv, CallOK, Leased
<1>1. CASE InitDHCP(d)
  <2>1. UNCHANGED <<addr, used, reused, full>> /\ Goto(d, "generate")
    BY <1>1 DEF InitDHCP, local
  <2>2. Spares(d)
    BY <1>1, <2>1, SparesWrite DEF InitDHCP, InitDHCPIfNecessary
  <2>3. Others /\ pc'[d] = "generate"
    BY <2>1, Moves DEF Labels
  <2>4. QED BY <2>2, <2>3, OutLeased DEF HoldLabels, Patching, AgainLabels
<1>2. CASE GenerateTunIP(d)
  <2>1. cm' = cm /\ used' = used /\ robbed' = robbed \ {d} /\ full' = full
    BY <1>2 DEF GenerateTunIP, shared
  <2>2. /\ reused' = reused \/ reused' = reused \cup {d} \/ reused' = reused \ {d}
        /\ addr' = addr \/ addr' = [addr EXCEPT ![d] = cm.macs[d]]
        /\ \E l \in {"idle", "port", "rent"} : Goto(d, l)
    BY <1>2 DEF GenerateTunIP, Prepared
  <2>3. Spares(d)
    BY <2>1, <2>2, SparesQuiet
  <2>4. Others
    BY <1>0, <2>1, <2>2, Moves DEF Labels
  <2>5. CASE Goto(d, "idle") \/ Goto(d, "rent")
    <3>1. pc'[d] \in {"idle", "rent"}
      BY <2>5, Moves DEF Labels
    <3>2. QED BY <2>3, <2>4, <3>1, OutLeased DEF HoldLabels, Patching, AgainLabels
  <2>6. CASE /\ addr' = [addr EXCEPT ![d] = cm.macs[d]] /\ Goto(d, "port")
             /\ reused' = IF cm.macs[d] \in Held(d, cm) THEN reused \ {d} ELSE reused \cup {d}
    <3>1. pc'[d] = "port" /\ addr'[d] = cm.macs[d]
      BY <1>0, <2>6, Moves DEF Labels
    <3>2. Trusted(d)' => addr'[d] \in Held(d, cm')
      BY <2>1, <2>6, <3>1 DEF Trusted
    <3>3. LeasedOf(d)'
      BY <3>1, <3>2 DEF LeasedOf, Patching
    <3>4. QED BY <2>3, <2>4, <3>3, OthersLeased
  <2>7. QED BY <1>2, <2>5, <2>6 DEF GenerateTunIP, Prepared
<1>3. CASE RentIP(d)
  <2> DEFINE l == FromStringToDHCP(cm.dhcp)
             ip == getIP(d, GetAvailableIPs(l))
  <2>1. cm' = cm /\ robbed' = robbed /\ reused' = reused
    BY <1>3 DEF RentIP, shared
  <2>2. /\ full' = full \/ full' = full \cup {d}
        /\ addr' = addr \/ addr' = [addr EXCEPT ![d] = ip]
        /\ used' = used \/ used' = [used EXCEPT ![d] = With(l, d, ip)]
        /\ \E k \in {"idle", "rented"} : Goto(d, k)
    BY <1>3 DEF RentIP
  <2>3. Spares(d)
    BY <2>1, <2>2, SparesQuiet
  <2>4. Others
    BY <1>0, <2>1, <2>2, Moves DEF Labels
  <2>5. CASE Goto(d, "idle")
    <3>1. pc'[d] = "idle"
      BY <2>5, Moves DEF Labels
    <3>2. QED BY <2>3, <2>4, <3>1, OutLeased DEF HoldLabels, Patching, AgainLabels
  <2>6. CASE /\ addr' = [addr EXCEPT ![d] = ip] /\ used' = [used EXCEPT ![d] = With(l, d, ip)]
             /\ Goto(d, "rented")
    <3>1. pc'[d] = "rented" /\ addr'[d] = ip /\ used'[d] = With(l, d, ip)
      BY <1>0, <2>6, Moves DEF Labels
    <3>2. ip \in Ips /\ l \in Leases
      BY getIPIsIp, ReadLeases
    <3> HIDE DEF ip, l
    <3>3. d \in DOMAIN With(l, d, ip) /\ ip \in With(l, d, ip)[d]
      BY <3>2 DEF With
    <3>4. LeasedOf(d)'
      BY <3>1, <3>3 DEF LeasedOf, HoldLabels, Patching, AgainLabels
    <3>5. QED BY <2>3, <2>4, <3>4, OthersLeased
  <2>7. QED BY <1>3, <2>5, <2>6 DEF RentIP
<1>4. CASE Rented(d)
  BY <1>4, PatchAddress DEF Rented, At, HoldLabels, Patching, AgainLabels
<1>5. CASE RecordMac(d)
  <2>1. UNCHANGED <<addr, used, reused, full>> /\ pc[d] = "record"
    BY <1>5 DEF RecordMac, local, At
  <2>2. Spares(d)
    BY <1>5, <2>1, SparesWrite DEF RecordMac, AddMacToIPRecord
  <2>3. Others /\ pc'[d] \in {"idle", "port"}
    BY <1>5, <2>1, Moves DEF Labels, RecordMac, Prepared
  <2>4. cm'.dhcp = cm.dhcp /\ robbed \subseteq robbed'
    BY <1>5 DEF RecordMac, AddMacToIPRecord, Write, TypeInv, MapOK, ConfigMaps
  <2>5. Trusted(d)' => Trusted(d)
    BY <2>1, <2>4 DEF Trusted
  <2>6. Held(d, cm') = Held(d, cm)
    BY <2>4 DEF Held
  <2>7. LeasedOf(d)'
    BY <1>0, <2>1, <2>3, <2>5, <2>6 DEF LeasedOf, HoldLabels, Patching, AgainLabels
  <2>8. QED BY <2>2, <2>3, <2>7, OthersLeased
<1>6. QED BY <1>1, <1>2, <1>3, <1>4, <1>5 DEF Connect

LEMMA DialLeased ==
  ASSUME TypeInv, Leased, NEW d \in Devices, Dial(d)
  PROVE  Leased'
<1>1. cm' = cm /\ UNCHANGED <<addr, used, robbed, reused, full>>
  BY DEF Dial, ConnectFails, GetPod, CreatePod, PodAlreadyExists, Increment, GetRefCount,
     PatchRefCount, TunnelUp, NoTunnel, Redial, shared, local, history
<1>2. CASE Goto(d, "release")
  <2>1. pc'[d] = "release" /\ \A e \in Devices \ {d} : pc'[e] = pc[e]
    BY <1>2, Moves DEF Labels
  <2>2. Spares(d)
    BY <1>1, SparesQuiet
  <2>3. QED BY <1>1, <2>1, <2>2, OutLeased DEF HoldLabels, Patching, AgainLabels
<1>3. CASE /\ pc[d] \in HoldLabels
           /\ \E l \in {"create", "increment", "incremented", "start", "up", "port"} : Goto(d, l)
  <2>1. pc'[d] \in HoldLabels \ Patching /\ \A e \in Devices \ {d} : pc'[e] = pc[e]
    BY <1>3, Moves DEF Labels, HoldLabels, Patching, AgainLabels
  <2>2. QED BY <1>1, <1>3, <2>1, HoldLeased
<1>4. CASE Increment(d)
  BY <1>3, <1>4 DEF Increment, GetRefCount, PatchRefCount, At, HoldLabels, Patching, AgainLabels
<1>5. CASE GetPod(d) \/ CreatePod(d) \/ TunnelUp(d) \/ Redial(d)
  BY <1>3, <1>5 DEF GetPod, CreatePod, TunnelUp, Redial, Begin, At, HoldLabels, Patching, AgainLabels
<1>6. QED BY <1>2, <1>4, <1>5 DEF Dial, ConnectFails, PodAlreadyExists, NoTunnel

LEMMA LeaveLeased ==
  ASSUME TypeInv, Leased, NEW d \in Devices, Leave(d) \/ Crash(d)
  PROVE  Leased'
<1>1. addr' = addr /\ UNCHANGED <<reused, full>>
  BY DEF Leave, ReleaseIP, ReleaseRead, ReleaseFree, ReleaseDelete, UpdateDHCP, Decrement,
     GetRefCount, PatchRefCount, CleanUp, DeleteMap, DeletePod, Crash, shared, local, history
<1>2. used' = used \/ used' = [used EXCEPT ![d] = FromStringToDHCP(cm.dhcp)]
  BY DEF Leave, ReleaseIP, ReleaseRead, ReleaseFree, ReleaseDelete, UpdateDHCP, Decrement,
     GetRefCount, PatchRefCount, CleanUp, DeleteMap, DeletePod, Crash, shared, local, history
<1>3. UNCHANGED <<cm, robbed>> \/ \E m : Write(d, m)
  <2>1. CASE ReleaseFree(d) \/ ReleaseDelete(d) \/ DeleteMap(d)
    BY <2>1 DEF ReleaseFree, ReleaseDelete, UpdateDHCP, DeleteMap
  <2>2. CASE ~ (ReleaseFree(d) \/ ReleaseDelete(d) \/ DeleteMap(d))
    BY <2>2 DEF Leave, ReleaseIP, ReleaseRead, Decrement,
       GetRefCount, PatchRefCount, CleanUp, DeletePod, Crash, shared, local, history
  <2>3. QED BY <2>1, <2>2
<1>4. Spares(d)
  BY <1>1, <1>3, SparesWrite
<1> DEFINE Out == {"idle", "release", "read", "free", "delete", "decrement", "decremented", "clean",
                   "deleteMap", "deletePod"}
<1>5. \E l \in Out : Goto(d, l)
  BY DEF Leave, ReleaseIP, ReleaseRead, ReleaseFree, ReleaseDelete, UpdateDHCP, Conflict,
     Decrement, GetRefCount, PatchRefCount, CleanUp, DeleteMap, DeletePod, Crash
<1>6. pc'[d] \in Out /\ \A e \in Devices \ {d} : pc'[e] = pc[e]
  BY <1>5, Moves DEF Labels
<1>7. \A e \in Devices \ {d} : used'[e] = used[e]
  BY <1>2 DEF TypeInv, CallOK
<1>8. QED BY <1>1, <1>4, <1>6, <1>7, OutLeased DEF HoldLabels, Patching, AgainLabels

(* A device that has an address reads the leases and rents one more. *)
LEMMA RentsMore ==
  ASSUME TypeInv, Leased, NEW d \in Devices, NEW ip \in Ips, NEW k \in Patching,
         used' = [used EXCEPT ![d] = With(FromStringToDHCP(cm.dhcp), d, ip)],
         full' = full \/ full' = full \cup {d}, UNCHANGED <<cm, addr, robbed, reused>>,
         pc[d] \in HoldLabels, Goto(d, k)
  PROVE  Leased'
<1> DEFINE l == FromStringToDHCP(cm.dhcp)
<1>1. full \subseteq full' /\ full' \subseteq full \cup {d}
  OBVIOUS
<1>2. Spares(d)
  BY <1>1, SparesQuiet
<1>3. pc'[d] = k /\ k \in HoldLabels /\ \A e \in Devices \ {d} : pc'[e] = pc[e]
  BY Moves DEF Labels, HoldLabels, Patching, AgainLabels
<1>4. used'[d] = With(l, d, ip) /\ \A e \in Devices \ {d} : used'[e] = used[e]
  BY DEF TypeInv, CallOK
<1>5. l \in Leases
  BY ReadLeases
<1>6. LeasedOf(d)
  BY DEF Leased
<1>7. Trusted(d)' => addr'[d] \in Held(d, cm')
  BY <1>1, <1>6 DEF LeasedOf, Trusted
<1>8. addr[d] \in Held(d, cm) => d \in DOMAIN l /\ addr[d] \in l[d]
  BY DEF Held
<1> HIDE DEF l
<1>9. Trusted(d)' => d \in DOMAIN With(l, d, ip) /\ addr'[d] \in With(l, d, ip)[d]
  <2>1. SUFFICES ASSUME Trusted(d)'
                 PROVE  d \in DOMAIN With(l, d, ip) /\ addr'[d] \in With(l, d, ip)[d]
    OBVIOUS
  <2>2. addr'[d] = addr[d] /\ d \in DOMAIN l /\ addr[d] \in l[d]
    BY <1>7, <1>8, <2>1
  <2>3. DOMAIN With(l, d, ip) = DOMAIN l \cup {d} /\ With(l, d, ip)[d] = l[d] \cup {ip}
    BY <2>2 DEF With
  <2>4. QED BY <2>2, <2>3
<1>10. pc'[d] # "rented"
  BY <1>3 DEF Patching
<1>11. LeasedOf(d)'
  BY <1>3, <1>4, <1>7, <1>9, <1>10 DEF LeasedOf
<1>12. QED BY <1>2, <1>3, <1>4, <1>11, OthersLeased

LEMMA ReverseLeased ==
  ASSUME TypeInv, Leased, NEW d \in Devices, Reverse(d)
  PROVE  Leased'
<1> DEFINE l == FromStringToDHCP(cm.dhcp)
           available == GetAvailableIPs(l)
<1>1. PICK ip \in IF available = {} THEN {0} ELSE available :
        /\ used' = [used EXCEPT ![d] = With(l, d, ip)]
        /\ full' = IF available = {} THEN full \cup {d} ELSE full
  BY DEF Reverse
<1>2. UNCHANGED <<cm, addr, robbed, reused>> /\ pc[d] = "up" /\ Goto(d, "reversed")
  BY DEF Reverse, shared, Begin, At
<1>3. ip \in Ips /\ (full' = full \/ full' = full \cup {d})
  BY <1>1, VpnMapAssumption DEF Ips, GetAvailableIPs
<1>4. QED BY <1>1, <1>2, <1>3, RentsMore DEF HoldLabels, Patching

(* A Prepare of a connected device makes the map only if there is none,    *)
(* and then the device has lost its lease before.                          *)
LEMMA AgainLeased ==
  ASSUME TypeInv, AgainOK, Leased, NEW d \in Devices, Again(d)
  PROVE  Leased'
<1>0. LeasedOf(d)
  BY DEF Leased
<1>1. CASE PrepareAgain(d)
  <2>1. UNCHANGED <<addr, used, reused, full>> /\ Goto(d, "regenerate") /\ pc[d] = "up"
    BY <1>1 DEF PrepareAgain, Begin, At
  <2>2. Spares(d)
    BY <1>1, <2>1, SparesWrite DEF PrepareAgain, InitDHCPIfNecessary
  <2>3. /\ \A e \in Devices \ {d} : pc'[e] = pc[e] /\ addr'[e] = addr[e] /\ used'[e] = used[e]
        /\ pc'[d] = "regenerate"
    BY <2>1, Moves DEF Labels, AgainLabels
  <2>4. Trusted(d)' => Trusted(d)
    BY <1>1, <2>1 DEF PrepareAgain, InitDHCPIfNecessary, Write, Trusted
  <2>5. Trusted(d) => addr[d] \in Held(d, cm)
    BY <1>0, <2>1 DEF LeasedOf, HoldLabels
  <2>6. ~ cm.exists => Held(d, cm) = {}
    <3>1. ~ cm.exists => FromStringToDHCP(cm.dhcp) = Nobody
      BY NoMapIs DEF TypeInv, MapOK, FromStringToDHCP
    <3>2. QED BY <3>1, NobodyHas DEF Held
  <2>7. Trusted(d) => cm' = cm
    BY <1>1, <2>5, <2>6 DEF PrepareAgain, InitDHCPIfNecessary
  <2>8. Trusted(d)' => addr'[d] \in Held(d, cm')
    BY <2>1, <2>4, <2>5, <2>7
  <2>9. LeasedOf(d)'
    BY <2>3, <2>8 DEF LeasedOf, Patching
  <2>10. QED BY <2>2, <2>3, <2>9, OthersLeased
<1>2. CASE GenerateAgain(d)
  <2>1. UNCHANGED <<cm, addr, used, robbed, reused, full>> /\ pc[d] = "regenerate"
    BY <1>2 DEF GenerateAgain, At, shared, history
  <2>2. goal[d] \in {"up", "release"}
    BY DEF AgainOK
  <2>3. \E k \in {"up", "rerent", "release"} : Goto(d, k)
    BY <1>2, <2>2 DEF GenerateAgain, PreparedAgain
  <2>4. QED BY <2>1, <2>3, AgainHolds DEF AgainLabels
<1>3. CASE RentAgain(d)
  <2> DEFINE l == FromStringToDHCP(cm.dhcp)
             ip == getIP(d, GetAvailableIPs(l))
  <2>1. UNCHANGED <<cm, addr, robbed, reused>> /\ pc[d] = "rerent"
    BY <1>3 DEF RentAgain, At, shared
  <2>2. CASE Goto(d, "up") /\ UNCHANGED <<used, full>>
    BY <2>1, <2>2, AgainHolds DEF AgainLabels
  <2>3. CASE /\ used' = [used EXCEPT ![d] = With(l, d, ip)] /\ Goto(d, "rerented")
             /\ full' = full \/ full' = full \cup {d}
    <3>1. ip \in Ips
      BY getIPIsIp
    <3> HIDE DEF ip
    <3>2. QED BY <2>1, <2>3, <3>1, RentsMore DEF HoldLabels, Patching, AgainLabels
  <2>4. QED BY <1>3, <2>2, <2>3 DEF RentAgain
<1>4. CASE RentedAgain(d)
  BY <1>4, PatchAddress DEF RentedAgain, At, HoldLabels, Patching, AgainLabels
<1>5. CASE RecordAgain(d)
  <2>1. UNCHANGED <<addr, used, reused, full>> /\ pc[d] = "rerecord"
    BY <1>5 DEF RecordAgain, At
  <2>2. Spares(d)
    BY <1>5, <2>1, SparesWrite DEF RecordAgain, AddMacToIPRecord
  <2>3. goal[d] \in {"up", "release"}
    BY DEF AgainOK
  <2>4. /\ \A e \in Devices \ {d} : pc'[e] = pc[e] /\ addr'[e] = addr[e] /\ used'[e] = used[e]
        /\ pc'[d] \in {"up", "release"}
    BY <1>5, <2>1, <2>3, Moves DEF Labels, RecordAgain, PreparedAgain
  <2>5. cm'.dhcp = cm.dhcp /\ robbed \subseteq robbed'
    BY <1>5 DEF RecordAgain, AddMacToIPRecord, Write, TypeInv, MapOK, ConfigMaps
  <2>6. Trusted(d)' => Trusted(d)
    BY <2>1, <2>5 DEF Trusted
  <2>7. Held(d, cm') = Held(d, cm)
    BY <2>5 DEF Held
  <2>8. LeasedOf(d)'
    BY <1>0, <2>1, <2>4, <2>6, <2>7 DEF LeasedOf, HoldLabels, Patching, AgainLabels
  <2>9. QED BY <2>2, <2>4, <2>8, OthersLeased
<1>6. QED BY <1>1, <1>2, <1>3, <1>4, <1>5 DEF Again

LEMMA NextLeased == TypeInv /\ AgainOK /\ Leased /\ [Next]_vars => Leased'
<1>1. SUFFICES ASSUME TypeInv, AgainOK, Leased, [Next]_vars
               PROVE  Leased'
  OBVIOUS
<1>2. CASE UNCHANGED vars
  BY <1>1, <1>2 DEF vars, shared, local, history, Leased, LeasedOf, Trusted
<1>3. ASSUME NEW d \in Devices, Reversed(d)
      PROVE  Leased'
  BY <1>1, <1>3, PatchAddress DEF Reversed, At, HoldLabels, Patching, AgainLabels
<1>4. QED BY <1>1, <1>2, <1>3, ConnectLeased, DialLeased, AgainLeased, LeaveLeased, ReverseLeased DEF Next

(* Two devices that are connected have different tunnel addresses, unless  *)
(* the lease of one of them was dropped by the write of another device, or *)
(* it took its address from MAC_TO_IP without a lease, or rented when none *)
(* was available: GenerateTunIP, RentIP and the patches of RentIP leave no *)
(* other way.                                                              *)
THEOREM AddressesAreUnique == Spec => []UniqueAddress
<1>1. Init => Leased
  BY DEF Init, Leased, LeasedOf, HoldLabels, Patching, AgainLabels
<1>2. TypeInv /\ Excl /\ Leased => UniqueAddress
  <2>1. SUFFICES ASSUME TypeInv, Excl, Leased, NEW d \in Devices, NEW e \in Devices, d # e, Up(d), Up(e),
                        addr[d] = addr[e], Trusted(d), Trusted(e)
                 PROVE  FALSE
    BY DEF UniqueAddress, Trusted
  <2> DEFINE l == FromStringToDHCP(cm.dhcp)
  <2>2. LeasedOf(d) /\ LeasedOf(e)
    BY <2>1 DEF Leased
  <2>3. addr[d] \in Held(d, cm) /\ addr[e] \in Held(e, cm)
    BY <2>1, <2>2 DEF LeasedOf, Up, HoldLabels, Patching, AgainLabels
  <2>4. d \in DOMAIN l /\ e \in DOMAIN l /\ addr[d] \in l[d] \cap l[e]
    BY <2>1, <2>3 DEF Held
  <2>5. Exclusive(l, full)
    BY <2>1, ReadExclusive
  <2>6. QED BY <2>1, <2>4, <2>5 DEF Exclusive, Trusted
<1>3. Spec => []Leased
  BY <1>1, TypesHold, NextLeased, PTL DEF Spec
<1>4. QED BY <1>2, <1>3, LeasesHold, PTL

-----------------------------------------------------------------------------
(* The ref-count.  Total(c) is the sum of c over the devices, as a number  *)
(* of units: <<d, 1>>, ..., <<d, c[d]>> of every d.                        *)

Plus(c) == {t \in Devices \X (Nat \ {0}) : t[2] <= c[t[1]]}

Minus(c) == Plus([d \in Devices |-> - c[d]])

Total(c) == Cardinality(Plus(c)) - Cardinality(Minus(c))

LEMMA PlusUp ==
  ASSUME NEW c \in [Devices -> Int], NEW d \in Devices, c[d] >= 0, IsFiniteSet(Plus(c)),
         NEW k \in [Devices -> Int], k[d] = c[d] + 1, \A e \in Devices \ {d} : k[e] = c[e]
  PROVE  IsFiniteSet(Plus(k)) /\ Cardinality(Plus(k)) = Cardinality(Plus(c)) + 1
<1> DEFINE u == <<d, c[d] + 1>>
<1>1. u \notin Plus(c) /\ u \in Plus(k)
  BY DEF Plus
<1>2. Plus(k) = Plus(c) \cup {u}
  <2>1. ASSUME NEW e \in Devices, NEW n \in Nat \ {0}
        PROVE  n <= k[e] <=> (n <= c[e] \/ <<e, n>> = u)
    <3>1. CASE e = d
      BY <3>1
    <3>2. CASE e # d
      BY <3>2
    <3>3. QED BY <3>1, <3>2
  <2>2. \A t \in Devices \X (Nat \ {0}) : t = <<t[1], t[2]>> /\ t[1] \in Devices /\ t[2] \in Nat \ {0}
    OBVIOUS
  <2>3. \A t \in Devices \X (Nat \ {0}) : t[2] <= k[t[1]] <=> (t[2] <= c[t[1]] \/ t = u)
    BY <2>1, <2>2
  <2> HIDE DEF u
  <2>4. QED BY <1>1, <2>3 DEF Plus
<1> HIDE DEF u
<1>3. QED BY <1>1, <1>2, FS_AddElement

LEMMA PlusDown ==
  ASSUME NEW c \in [Devices -> Int], NEW d \in Devices, c[d] > 0, IsFiniteSet(Plus(c)),
         NEW k \in [Devices -> Int], k[d] = c[d] - 1, \A e \in Devices \ {d} : k[e] = c[e]
  PROVE  IsFiniteSet(Plus(k)) /\ Cardinality(Plus(k)) = Cardinality(Plus(c)) - 1
<1> DEFINE u == <<d, c[d]>>
<1>1. u \in Plus(c)
  BY DEF Plus
<1>2. Plus(k) = Plus(c) \ {u}
  <2>1. ASSUME NEW e \in Devices, NEW n \in Nat \ {0}
        PROVE  n <= k[e] <=> (n <= c[e] /\ <<e, n>> # u)
    <3>1. CASE e = d
      BY <3>1
    <3>2. CASE e # d
      BY <3>2
    <3>3. QED BY <3>1, <3>2
  <2>2. \A t \in Devices \X (Nat \ {0}) : t = <<t[1], t[2]>> /\ t[1] \in Devices /\ t[2] \in Nat \ {0}
    OBVIOUS
  <2>3. \A t \in Devices \X (Nat \ {0}) : t[2] <= k[t[1]] <=> (t[2] <= c[t[1]] /\ t # u)
    BY <2>1, <2>2
  <2> HIDE DEF u
  <2>4. QED BY <1>1, <2>3 DEF Plus
<1> HIDE DEF u
<1>3. QED BY <1>1, <1>2, FS_RemoveElement

LEMMA PlusSame ==
  ASSUME NEW c \in [Devices -> Int], NEW d \in Devices, c[d] <= 0,
         NEW k \in [Devices -> Int], k[d] <= 0, \A e \in Devices \ {d} : k[e] = c[e]
  PROVE  Plus(k) = Plus(c)
<1>1. ASSUME NEW e \in Devices, NEW n \in Nat \ {0}
      PROVE  n <= k[e] <=> n <= c[e]
  <2>1. CASE e = d
    BY <2>1
  <2>2. CASE e # d
    BY <2>2
  <2>3. QED BY <2>1, <2>2
<1>2. \A t \in Devices \X (Nat \ {0}) : t[1] \in Devices /\ t[2] \in Nat \ {0}
  OBVIOUS
<1>3. \A t \in Devices \X (Nat \ {0}) : t[2] <= k[t[1]] <=> t[2] <= c[t[1]]
  BY <1>1, <1>2
<1>4. QED BY <1>3 DEF Plus

FiniteTotal(c) == IsFiniteSet(Plus(c)) /\ IsFiniteSet(Minus(c))

LEMMA TotalIs ==
  ASSUME NEW c, FiniteTotal(c)
  PROVE  Cardinality(Plus(c)) \in Nat /\ Cardinality(Minus(c)) \in Nat /\ Total(c) \in Int
<1>1. Cardinality(Plus(c)) \in Nat /\ Cardinality(Minus(c)) \in Nat
  BY FS_CardinalityType DEF FiniteTotal
<1>2. QED BY <1>1 DEF Total

LEMMA TotalStep ==
  ASSUME NEW c \in [Devices -> Int], NEW d \in Devices, FiniteTotal(c), NEW i \in {-1, 1},
         NEW k, k = [c EXCEPT ![d] = @ + i]
  PROVE  k \in [Devices -> Int] /\ FiniteTotal(k) /\ Total(k) = Total(c) + i
<1> DEFINE nc == [e \in Devices |-> - c[e]]
           nk == [e \in Devices |-> - k[e]]
<1>1. /\ k \in [Devices -> Int] /\ k[d] = c[d] + i /\ \A e \in Devices \ {d} : k[e] = c[e]
      /\ c[d] \in Int /\ k[d] \in Int
  OBVIOUS
<1>2. /\ nc \in [Devices -> Int] /\ nk \in [Devices -> Int] /\ nc[d] = - c[d] /\ nk[d] = - k[d]
      /\ \A e \in Devices \ {d} : nk[e] = nc[e]
  BY <1>1
<1>3. Plus(nc) = Minus(c) /\ Plus(nk) = Minus(k)
  BY DEF Minus
<1>4. Cardinality(Plus(c)) \in Nat /\ Cardinality(Minus(c)) \in Nat
  BY TotalIs
<1>5. IsFiniteSet(Plus(c)) /\ IsFiniteSet(Plus(nc))
  BY <1>3 DEF FiniteTotal
<1> HIDE DEF nc, nk
<1>6. CASE i = 1 /\ c[d] >= 0
  <2>1. IsFiniteSet(Plus(k)) /\ Cardinality(Plus(k)) = Cardinality(Plus(c)) + 1
    BY <1>1, <1>5, <1>6, PlusUp
  <2>2. Plus(nk) = Plus(nc)
    BY <1>1, <1>2, <1>6, PlusSame
  <2>3. QED BY <1>1, <1>3, <1>4, <1>5, <1>6, <2>1, <2>2 DEF FiniteTotal, Total
<1>7. CASE i = 1 /\ c[d] < 0
  <2>1. IsFiniteSet(Plus(nk)) /\ Cardinality(Plus(nk)) = Cardinality(Plus(nc)) - 1
    BY <1>1, <1>2, <1>5, <1>7, PlusDown
  <2>2. Plus(k) = Plus(c)
    <3>1. c[d] <= 0 /\ k[d] <= 0
      BY <1>1, <1>7
    <3>2. QED BY <1>1, <3>1, PlusSame, Zenon
  <2>3. QED BY <1>1, <1>3, <1>4, <1>5, <1>7, <2>1, <2>2 DEF FiniteTotal, Total
<1>8. CASE i = -1 /\ c[d] > 0
  <2>1. IsFiniteSet(Plus(k)) /\ Cardinality(Plus(k)) = Cardinality(Plus(c)) - 1
    BY <1>1, <1>5, <1>8, PlusDown
  <2>2. Plus(nk) = Plus(nc)
    BY <1>1, <1>2, <1>8, PlusSame
  <2>3. QED BY <1>1, <1>3, <1>4, <1>5, <1>8, <2>1, <2>2 DEF FiniteTotal, Total
<1>9. CASE i = -1 /\ c[d] <= 0
  <2>1. IsFiniteSet(Plus(nk)) /\ Cardinality(Plus(nk)) = Cardinality(Plus(nc)) + 1
    BY <1>1, <1>2, <1>5, <1>9, PlusUp
  <2>2. Plus(k) = Plus(c)
    <3>1. c[d] <= 0 /\ k[d] <= 0
      BY <1>1, <1>9
    <3>2. QED BY <1>1, <3>1, PlusSame, Zenon
  <2>3. QED BY <1>1, <1>3, <1>4, <1>5, <1>9, <2>1, <2>2 DEF FiniteTotal, Total
<1>10. QED BY <1>1, <1>6, <1>7, <1>8, <1>9

LEMMA NoPlus ==
  ASSUME NEW c \in [Devices -> Int], \A d \in Devices : c[d] <= 0
  PROVE  Plus(c) = {} /\ IsFiniteSet(Plus(c)) /\ Cardinality(Plus(c)) = 0
<1>1. \A t \in Devices \X (Nat \ {0}) : ~ t[2] <= c[t[1]]
  <2>1. SUFFICES ASSUME NEW t \in Devices \X (Nat \ {0})
                 PROVE  ~ t[2] <= c[t[1]]
    OBVIOUS
  <2>2. t[1] \in Devices /\ t[2] \in Nat \ {0} /\ c[t[1]] \in Int /\ c[t[1]] <= 0
    OBVIOUS
  <2>3. QED BY <2>2
<1>2. Plus(c) = {}
  BY <1>1 DEF Plus
<1>3. QED BY <1>2, FS_EmptySet

(* Nobody counted more than it gave back, or less. *)
LEMMA TotalPositive ==
  ASSUME NEW c \in [Devices -> Int], FiniteTotal(c), \A e \in Devices : c[e] >= 0,
         NEW d \in Devices, c[d] >= 1
  PROVE  Total(c) >= 1
<1> DEFINE nc == [e \in Devices |-> - c[e]]
<1>1. nc \in [Devices -> Int] /\ \A e \in Devices : nc[e] <= 0
  OBVIOUS
<1>2. Cardinality(Minus(c)) = 0
  BY <1>1, NoPlus DEF Minus
<1>3. <<d, 1>> \in Plus(c)
  BY DEF Plus
<1>4. Cardinality(Plus(c)) \in Nat /\ Cardinality(Plus(c)) # 0
  BY <1>3, TotalIs, FS_EmptySet DEF FiniteTotal
<1>5. QED BY <1>2, <1>4 DEF Total

LEMMA TotalNegative ==
  ASSUME NEW c \in [Devices -> Int], FiniteTotal(c), \A e \in Devices : c[e] <= 0
  PROVE  Total(c) <= 0
BY NoPlus, TotalIs DEF Total

LEMMA TotalZero ==
  ASSUME NEW c, c = [d \in Devices |-> 0]
  PROVE  FiniteTotal(c) /\ Total(c) = 0
<1> DEFINE nc == [e \in Devices |-> - c[e]]
<1>1. /\ c \in [Devices -> Int] /\ \A e \in Devices : c[e] <= 0
      /\ nc \in [Devices -> Int] /\ \A e \in Devices : nc[e] <= 0
  OBVIOUS
<1>2. IsFiniteSet(Plus(c)) /\ Cardinality(Plus(c)) = 0 /\ IsFiniteSet(Plus(nc)) /\ Cardinality(Plus(nc)) = 0
  BY <1>1, NoPlus
<1>3. QED BY <1>2 DEF FiniteTotal, Total, Minus

Before == {"idle", "generate", "rent", "rented", "record"}

Using == {"start", "up", "reversed"} \cup AgainLabels

Cleaning == {"clean", "deleteMap", "deletePod"}

(* Unless two updates overlapped, the ref-count is the sum of what the     *)
(* devices have counted since the pod was created ...                      *)
Balanced ==
  ~ overlap => /\ ref = NoPod => \A d \in Devices : counted[d] = 0
               /\ ref # NoPod => ref = Total(counted)

(* ... a device that uses the pod has counted itself ... *)
Counted ==
  ~ overlap /\ ~ uncounted =>
      \A d \in Devices : counted[d] >= 0 /\ (pc[d] \in Using => counted[d] >= 1)

(* ... the pod is deleted after a count that was not positive ... *)
Zero == \A d \in Devices : pc[d] \in {"deleteMap", "deletePod"} => cur[d] <= 0

(* ... a device that is not connected counts for nothing ... *)
Uncount ==
  ~ overlap /\ ~ leaked =>
      \A d \in Devices : counted[d] <= 1 /\ (pc[d] \in Before \cup Cleaning => counted[d] <= 0)

(* ... and whoever leaves a count that is not positive cleans up. *)
Cleans ==
  ~ overlap /\ ~ leaked /\ ref # NoPod /\ ref <= 0 => \E d \in Devices : pc[d] \in Cleaning

CountInv ==
  TypeInv /\ FiniteTotal(counted) /\ Balanced /\ Counted /\ Zero /\ Uncount /\ Cleans

CountParts ==
  FiniteTotal(counted)' /\ Balanced' /\ Counted' /\ Zero' /\ Uncount' /\ Cleans'

(* A step of d that neither counts nor cleans up. *)
Quiet(d) ==
  /\ pc[d] \notin Cleaning /\ pc'[d] \notin Cleaning
  /\ pc'[d] \in Before => pc[d] \in Before
  /\ pc'[d] \in Using => pc[d] \in Using
  /\ \A e \in Devices \ {d} : pc'[e] = pc[e] /\ cur'[e] = cur[e]

LEMMA QuietCounts ==
  ASSUME CountInv, NEW d \in Devices, Quiet(d), ref' = ref, counted' = counted, overlap' = overlap,
         uncounted' = uncounted, leaked' = leaked
  PROVE  CountParts
<1>1. FiniteTotal(counted)'
  BY DEF CountInv, FiniteTotal, Plus, Minus
<1>2. Balanced'
  <2>1. Balanced
    BY DEF CountInv
  <2>2. Total(counted)' = Total(counted)
    BY DEF Total, Plus, Minus
  <2>3. QED BY <2>1, <2>2 DEF Balanced
<1>3. Counted'
  <2>1. SUFFICES ASSUME ~ overlap, ~ uncounted, NEW e \in Devices
                 PROVE  counted[e] >= 0 /\ (pc'[e] \in Using => counted[e] >= 1)
    BY Zenon DEF Counted
  <2>2. counted[e] >= 0 /\ (pc[e] \in Using => counted[e] >= 1)
    BY <2>1, Zenon DEF CountInv, Counted
  <2>3. pc'[e] \in Using => pc[e] \in Using
    BY DEF Quiet
  <2>4. QED BY <2>2, <2>3
<1>4. Zero'
  BY DEF CountInv, Zero, Quiet, Cleaning
<1>5. Uncount'
  <2>1. SUFFICES ASSUME ~ overlap, ~ leaked, NEW e \in Devices
                 PROVE  counted[e] <= 1 /\ (pc'[e] \in Before \cup Cleaning => counted[e] <= 0)
    BY Zenon DEF Uncount
  <2>2. counted[e] <= 1 /\ (pc[e] \in Before \cup Cleaning => counted[e] <= 0)
    BY <2>1, Zenon DEF CountInv, Uncount
  <2>3. pc'[e] \in Before \cup Cleaning => pc[e] \in Before \cup Cleaning
    BY DEF Quiet
  <2>4. QED BY <2>2, <2>3
<1>6. Cleans'
  <2>1. SUFFICES ASSUME ~ overlap, ~ leaked, ref # NoPod, ref <= 0
                 PROVE  \E e \in Devices : pc'[e] \in Cleaning
    BY Zenon DEF Cleans
  <2>2. PICK e \in Devices : pc[e] \in Cleaning
    BY <2>1, Zenon DEF CountInv, Cleans
  <2>3. QED BY <2>2 DEF Quiet
<1>7. QED BY <1>1, <1>2, <1>3, <1>4, <1>5, <1>6 DEF CountParts

LEMMA CountFacts ==
  ASSUME CountInv
  PROVE  /\ counted \in [Devices -> Int] /\ cur \in [Devices -> Int] /\ FiniteTotal(counted)
         /\ ref \in Int \cup {NoPod} /\ NoPod \notin Int /\ Total(counted) \in Int
         /\ \A d \in Devices : pc[d] \in {"deleteMap", "deletePod"} => cur[d] <= 0
BY TotalIs, VpnMapAssumption DEF CountInv, TypeInv, CountOK, Zero

(* UpdateRefCount finds no pod. *)
LEMMA MissingCounts ==
  ASSUME CountInv, NEW d \in Devices, ref = NoPod, ref' = ref, counted' = counted, overlap' = overlap,
         leaked' = leaked, \A e \in Devices \ {d} : pc'[e] = pc[e], cur' = cur,
         \/ pc'[d] = "start" /\ uncounted' = TRUE
         \/ pc'[d] = "clean" /\ uncounted' = uncounted
  PROVE  CountParts
<1>1. ~ overlap => \A e \in Devices : counted[e] = 0
  BY Zenon DEF CountInv, Balanced
<1>2. FiniteTotal(counted)'
  BY DEF CountInv, FiniteTotal, Plus, Minus
<1>3. Balanced'
  BY <1>1, Zenon DEF Balanced
<1>4. Counted'
  <2>1. CASE uncounted' = TRUE
    BY <2>1, Zenon DEF Counted
  <2>2. CASE pc'[d] = "clean" /\ uncounted' = uncounted
    <3>1. SUFFICES ASSUME ~ overlap, ~ uncounted, NEW e \in Devices
                   PROVE  counted[e] >= 0 /\ (pc'[e] \in Using => counted[e] >= 1)
      BY <2>2, Zenon DEF Counted
    <3>2. counted[e] >= 0 /\ (pc[e] \in Using => counted[e] >= 1)
      BY <3>1, Zenon DEF CountInv, Counted
    <3>3. pc'[e] \in Using => pc[e] \in Using
      BY <2>2 DEF Using, AgainLabels
    <3>4. QED BY <3>2, <3>3
  <2>3. QED BY <2>1, <2>2
<1>5. Zero'
  BY DEF CountInv, Zero
<1>6. Uncount'
  <2>1. SUFFICES ASSUME ~ overlap, ~ leaked, NEW e \in Devices
                 PROVE  counted[e] <= 1 /\ (pc'[e] \in Before \cup Cleaning => counted[e] <= 0)
    BY Zenon DEF Uncount
  <2>2. counted[e] = 0
    BY <1>1, <2>1, Zenon
  <2>3. QED BY <2>2
<1>7. Cleans'
  BY Zenon DEF Cleans
<1>8. QED BY <1>2, <1>3, <1>4, <1>5, <1>6, <1>7 DEF CountParts

LEMMA GetCounts ==
  ASSUME CountInv, NEW d \in Devices,
         \/ GetRefCount(d, "increment", "incremented", "start")
         \/ GetRefCount(d, "decrement", "decremented", "clean")
  PROVE  CountParts
<1>1. /\ ref' = ref /\ counted' = counted /\ overlap' = overlap /\ leaked' = leaked
      /\ pc[d] \in {"increment", "decrement"}
  BY DEF GetRefCount, shared, At
<1>2. TypeInv /\ cur \in [Devices -> Int]
  BY DEF CountInv, TypeInv, CountOK
<1>3. CASE ref # NoPod
  <2>1. \/ Goto(d, "incremented") \/ Goto(d, "decremented")
    BY <1>3 DEF GetRefCount
  <2>2. cur' = [cur EXCEPT ![d] = ref] /\ uncounted' = uncounted
    BY <1>3 DEF GetRefCount
  <2>3. pc'[d] \in {"incremented", "decremented"} /\ \A e \in Devices \ {d} : pc'[e] = pc[e]
    BY <1>2, <2>1, Moves DEF Labels
  <2>4. \A e \in Devices \ {d} : cur'[e] = cur[e]
    BY <1>2, <2>2
  <2>5. Quiet(d)
    BY <1>1, <2>3, <2>4 DEF Quiet, Cleaning, Before, Using, AgainLabels
  <2>6. QED BY <1>1, <2>2, <2>5, QuietCounts
<1>4. CASE ref = NoPod
  <2>1. cur' = cur
    BY <1>4 DEF GetRefCount
  <2>2. CASE GetRefCount(d, "increment", "incremented", "start")
    <3>1. Goto(d, "start") /\ uncounted' = (uncounted \/ "increment" = "increment")
      BY <1>4, <2>2 DEF GetRefCount
    <3>2. uncounted' = TRUE
      BY <3>1, Zenon
    <3>3. pc'[d] = "start" /\ \A e \in Devices \ {d} : pc'[e] = pc[e]
      BY <1>2, <3>1, Moves DEF Labels
    <3>4. QED BY <1>1, <1>4, <2>1, <3>2, <3>3, MissingCounts
  <2>3. CASE GetRefCount(d, "decrement", "decremented", "clean")
    <3>1. Goto(d, "clean") /\ uncounted' = (uncounted \/ "decrement" = "increment")
      BY <1>4, <2>3 DEF GetRefCount
    <3>2. uncounted \in BOOLEAN /\ "decrement" # "increment"
      BY <1>2 DEF TypeInv, FlagsOK
    <3>3. uncounted' = uncounted
      BY <3>1, <3>2, Zenon
    <3>4. pc'[d] = "clean" /\ \A e \in Devices \ {d} : pc'[e] = pc[e]
      BY <1>2, <3>1, Moves DEF Labels
    <3>5. QED BY <1>1, <1>4, <2>1, <3>3, <3>4, MissingCounts
  <2>4. QED BY <2>2, <2>3
<1>5. QED BY <1>3, <1>4

(* The ref-count is replaced by what d makes of its own read. *)
LEMMA StepCounts ==
  ASSUME CountInv, NEW d \in Devices, NEW i \in {-1, 1}, ref # NoPod, ref' = cur[d] + i,
         counted' = [counted EXCEPT ![d] = @ + i], overlap' = (overlap \/ ref # cur[d]),
         uncounted' = (uncounted \/ counted'[d] < 0), leaked' = (leaked \/ counted'[d] > 1),
         cur' = cur, \A e \in Devices \ {d} : pc'[e] = pc[e], pc[d] \notin Cleaning,
         \/ i = 1 /\ pc'[d] = "start"
         \/ i = -1 /\ pc'[d] = "clean"
  PROVE  CountParts
<1>1. /\ counted \in [Devices -> Int] /\ cur \in [Devices -> Int] /\ FiniteTotal(counted)
      /\ ref \in Int \cup {NoPod} /\ NoPod \notin Int /\ Total(counted) \in Int
  BY CountFacts
<1>2. counted' \in [Devices -> Int] /\ FiniteTotal(counted') /\ Total(counted') = Total(counted) + i
  BY <1>1, TotalStep
<1>3. FiniteTotal(counted)' /\ Total(counted)' = Total(counted')
  BY <1>2 DEF FiniteTotal, Total, Plus, Minus
<1>4. ~ overlap' => ~ overlap /\ ref = cur[d]
  BY Zenon
<1>5. ~ overlap' => ref = Total(counted)
  BY <1>4, Zenon DEF CountInv, Balanced
<1>6. ref' \in Int /\ ref' # NoPod /\ counted'[d] = counted[d] + i
      /\ \A e \in Devices \ {d} : counted'[e] = counted[e]
  BY <1>1
<1>7. Balanced'
  <2>1. ~ overlap' => ref' = Total(counted')
    BY <1>1, <1>2, <1>4, <1>5
  <2>2. QED BY <1>3, <1>6, <2>1, Zenon DEF Balanced
<1>8. Counted'
  <2>1. SUFFICES ASSUME ~ overlap', ~ uncounted', NEW e \in Devices
                 PROVE  counted'[e] >= 0 /\ (pc'[e] \in Using => counted'[e] >= 1)
    BY Zenon DEF Counted
  <2>2. ~ uncounted /\ ~ (counted'[d] < 0)
    BY <2>1, Zenon
  <2>3. \A f \in Devices : counted[f] >= 0 /\ (pc[f] \in Using => counted[f] >= 1)
    BY <1>4, <2>1, <2>2, Zenon DEF CountInv, Counted
  <2>4. CASE e # d
    BY <1>6, <2>3, <2>4
  <2>5. CASE e = d
    BY <1>1, <1>2, <1>6, <2>2, <2>3, <2>5 DEF Using, AgainLabels
  <2>6. QED BY <2>4, <2>5
<1>9. Zero'
  BY DEF CountInv, Zero
<1>10. Uncount'
  <2>1. SUFFICES ASSUME ~ overlap', ~ leaked', NEW e \in Devices
                 PROVE  counted'[e] <= 1 /\ (pc'[e] \in Before \cup Cleaning => counted'[e] <= 0)
    BY Zenon DEF Uncount
  <2>2. ~ leaked /\ ~ (counted'[d] > 1)
    BY <2>1, Zenon
  <2>3. \A f \in Devices : counted[f] <= 1 /\ (pc[f] \in Before \cup Cleaning => counted[f] <= 0)
    BY <1>4, <2>1, <2>2, Zenon DEF CountInv, Uncount
  <2>4. CASE e # d
    BY <1>6, <2>3, <2>4
  <2>5. CASE e = d
    BY <1>1, <1>2, <1>6, <2>2, <2>3, <2>5 DEF Before, Cleaning
  <2>6. QED BY <2>4, <2>5
<1>11. Cleans'
  <2>1. SUFFICES ASSUME ~ overlap', ~ leaked', ref' <= 0
                 PROVE  \E e \in Devices : pc'[e] \in Cleaning
    BY Zenon DEF Cleans
  <2>2. CASE i = -1
    BY <2>2 DEF Cleaning
  <2>3. CASE i = 1
    <3>1. ~ leaked /\ ~ overlap
      BY <1>4, <2>1, Zenon
    <3>2. ref <= 0
      BY <1>1, <1>4, <2>1, <2>3
    <3>3. PICK e \in Devices : pc[e] \in Cleaning
      BY <3>1, <3>2, Zenon DEF CountInv, Cleans
    <3>4. QED BY <3>3
  <2>4. QED BY <2>2, <2>3
<1>12. QED BY <1>3, <1>7, <1>8, <1>9, <1>10, <1>11 DEF CountParts

LEMMA PatchCounts ==
  ASSUME CountInv, NEW d \in Devices,
         \/ PatchRefCount(d, "incremented", 1, "start")
         \/ PatchRefCount(d, "decremented", -1, "clean")
  PROVE  CountParts
<1>1. /\ cur' = cur /\ pc[d] \in {"incremented", "decremented"}
  BY DEF PatchRefCount, local, At
<1>2. TypeInv
  BY DEF CountInv
<1>3. pc[d] \notin Cleaning
  BY <1>1 DEF Cleaning
<1>4. CASE PatchRefCount(d, "incremented", 1, "start")
  <2>1. pc'[d] = "start" /\ \A e \in Devices \ {d} : pc'[e] = pc[e]
    BY <1>2, <1>4, Moves DEF PatchRefCount, Labels
  <2>2. CASE ref = NoPod
    <3>1. /\ uncounted' = (uncounted \/ 1 = 1)
          /\ ref' = ref /\ counted' = counted /\ overlap' = overlap /\ leaked' = leaked
      BY <1>4, <2>2 DEF PatchRefCount
    <3>2. uncounted' = TRUE
      BY <3>1, Zenon
    <3>3. QED BY <1>1, <2>1, <2>2, <3>1, <3>2, MissingCounts
  <2>3. CASE ref # NoPod
    <3>1. /\ ref' = cur[d] + 1
          /\ counted' = [counted EXCEPT ![d] = @ + 1]
          /\ overlap' = (overlap \/ ref # cur[d])
          /\ uncounted' = (uncounted \/ counted'[d] < 0)
          /\ leaked' = (leaked \/ counted'[d] > 1)
      BY <1>4, <2>3, Zenon DEF PatchRefCount
    <3>2. QED BY <1>1, <1>3, <2>1, <2>3, <3>1, StepCounts
  <2>4. QED BY <2>2, <2>3
<1>5. CASE PatchRefCount(d, "decremented", -1, "clean")
  <2>1. pc'[d] = "clean" /\ \A e \in Devices \ {d} : pc'[e] = pc[e]
    BY <1>2, <1>5, Moves DEF PatchRefCount, Labels
  <2>2. CASE ref = NoPod
    <3>1. /\ uncounted' = (uncounted \/ -1 = 1)
          /\ ref' = ref /\ counted' = counted /\ overlap' = overlap /\ leaked' = leaked
      BY <1>5, <2>2 DEF PatchRefCount
    <3>2. uncounted \in BOOLEAN /\ -1 # 1
      BY <1>2 DEF TypeInv, FlagsOK
    <3>3. uncounted' = uncounted
      BY <3>1, <3>2, Zenon
    <3>4. QED BY <1>1, <2>1, <2>2, <3>1, <3>3, MissingCounts
  <2>3. CASE ref # NoPod
    <3>1. /\ ref' = cur[d] + (-1)
          /\ counted' = [counted EXCEPT ![d] = @ + (-1)]
          /\ overlap' = (overlap \/ ref # cur[d])
          /\ uncounted' = (uncounted \/ counted'[d] < 0)
          /\ leaked' = (leaked \/ counted'[d] > 1)
      BY <1>5, <2>3, Zenon DEF PatchRefCount
    <3>2. QED BY <1>1, <1>3, <2>1, <2>3, <3>1, StepCounts
  <2>4. QED BY <2>2, <2>3
<1>6. QED BY <1>4, <1>5

LEMMA CreateCounts ==
  ASSUME CountInv, NEW d \in Devices, CreatePod(d)
  PROVE  CountParts
<1>1. /\ ref = NoPod /\ ref' = 1 /\ counted' = [counted EXCEPT ![d] = @ + 1] /\ Goto(d, "start")
      /\ cur' = cur /\ overlap' = overlap /\ uncounted' = uncounted /\ leaked' = leaked
  BY DEF CreatePod, local
<1>2. pc'[d] = "start" /\ \A e \in Devices \ {d} : pc'[e] = pc[e]
  BY <1>1, Moves DEF CountInv, Labels
<1>3. counted \in [Devices -> Int] /\ FiniteTotal(counted) /\ NoPod \notin Int /\ Total(counted) \in Int
  BY CountFacts
<1>4. FiniteTotal(counted') /\ Total(counted') = Total(counted) + 1
  BY <1>1, <1>3, TotalStep
<1>5. FiniteTotal(counted)' /\ Total(counted)' = Total(counted')
  BY <1>4 DEF FiniteTotal, Total, Plus, Minus
<1>6. ~ overlap => \A e \in Devices : counted[e] = 0
  BY <1>1, Zenon DEF CountInv, Balanced
<1>7. ~ overlap => Total(counted) = 0
  <2>1. SUFFICES ASSUME ~ overlap
                 PROVE  Total(counted) = 0
    OBVIOUS
  <2>2. \A e \in Devices : counted[e] = 0
    BY <1>6, <2>1, Zenon
  <2>3. counted = [e \in Devices |-> 0]
    BY <1>3, <2>2
  <2>4. QED BY <2>3, TotalZero
<1>8. ~ overlap => counted'[d] = 1 /\ \A e \in Devices \ {d} : counted'[e] = 0
  BY <1>1, <1>3, <1>6
<1>9. Balanced'
  <2>1. ~ overlap' => ref' = Total(counted')
    BY <1>1, <1>4, <1>7
  <2>2. ref' # NoPod
    BY <1>1, <1>3
  <2>3. QED BY <1>5, <2>1, <2>2, Zenon DEF Balanced
<1>10. Counted'
  <2>1. SUFFICES ASSUME ~ overlap, ~ uncounted, NEW e \in Devices
                 PROVE  counted'[e] >= 0 /\ (pc'[e] \in Using => counted'[e] >= 1)
    BY <1>1, Zenon DEF Counted
  <2>2. \A f \in Devices : counted[f] >= 0 /\ (pc[f] \in Using => counted[f] >= 1)
    BY <2>1, Zenon DEF CountInv, Counted
  <2>3. CASE e = d
    BY <1>8, <2>1, <2>3
  <2>4. CASE e # d
    BY <1>1, <1>2, <1>3, <2>2, <2>4
  <2>5. QED BY <2>3, <2>4
<1>11. Zero'
  BY <1>1, <1>2 DEF CountInv, Zero
<1>12. Uncount'
  <2>1. SUFFICES ASSUME ~ overlap, ~ leaked, NEW e \in Devices
                 PROVE  counted'[e] <= 1 /\ (pc'[e] \in Before \cup Cleaning => counted'[e] <= 0)
    BY <1>1, Zenon DEF Uncount
  <2>2. QED BY <1>2, <1>8, <2>1 DEF Before, Cleaning
<1>13. Cleans'
  <2>1. ~ (ref' <= 0)
    BY <1>1
  <2>2. QED BY <2>1, Zenon DEF Cleans
<1>14. QED BY <1>5, <1>9, <1>10, <1>11, <1>12, <1>13 DEF CountParts

(* CleanUpTrafficManagerIfRefCountIsZero up to the deletion of the pod. *)
LEMMA CleanCounts ==
  ASSUME CountInv, NEW d \in Devices, CleanUp(d) \/ DeleteMap(d)
  PROVE  CountParts
<1>1. /\ ref' = ref /\ counted' = counted /\ overlap' = overlap /\ uncounted' = uncounted
      /\ leaked' = leaked /\ pc[d] \in {"clean", "deleteMap"}
  BY DEF CleanUp, DeleteMap, shared, history, counts, At
<1>2. TypeInv /\ cur \in [Devices -> Int] /\ ref \in Int \cup {NoPod}
      /\ (pc[d] = "deleteMap" => cur[d] <= 0)
  BY CountFacts DEF CountInv
<1>3. /\ \A e \in Devices \ {d} : pc'[e] = pc[e] /\ cur'[e] = cur[e]
      /\ pc'[d] \in {"idle", "deleteMap", "deletePod"}
      /\ pc'[d] # "idle" => cur'[d] <= 0
      /\ pc'[d] = "idle" => ~ (ref # NoPod /\ ref <= 0)
  <2>1. CASE CleanUp(d)
    <3>1. /\ Goto(d, IF ref # NoPod /\ ref <= 0 THEN "deleteMap" ELSE "idle")
          /\ cur' = [cur EXCEPT ![d] = IF ref = NoPod THEN @ ELSE ref]
      BY <2>1 DEF CleanUp
    <3>2. /\ pc'[d] = IF ref # NoPod /\ ref <= 0 THEN "deleteMap" ELSE "idle"
          /\ \A e \in Devices \ {d} : pc'[e] = pc[e]
      BY <1>2, <3>1, Moves DEF Labels
    <3>3. \A e \in Devices \ {d} : cur'[e] = cur[e]
      BY <1>2, <3>1
    <3>4. cur'[d] = IF ref = NoPod THEN cur[d] ELSE ref
      BY <1>2, <3>1
    <3>5. QED BY <3>2, <3>3, <3>4
  <2>2. CASE DeleteMap(d)
    <3>1. Goto(d, "deletePod") /\ cur' = cur /\ pc[d] = "deleteMap"
      BY <2>2 DEF DeleteMap, local, At
    <3>2. pc'[d] = "deletePod" /\ \A e \in Devices \ {d} : pc'[e] = pc[e]
      BY <1>2, <3>1, Moves DEF Labels
    <3>3. QED BY <1>2, <3>1, <3>2
  <2>3. QED BY <2>1, <2>2
<1>4. FiniteTotal(counted)' /\ Total(counted)' = Total(counted)
  BY <1>1 DEF CountInv, FiniteTotal, Total, Plus, Minus
<1>5. Balanced'
  BY <1>1, <1>4, Zenon DEF CountInv, Balanced
<1>6. Counted'
  <2>1. SUFFICES ASSUME ~ overlap, ~ uncounted, NEW e \in Devices
                 PROVE  counted[e] >= 0 /\ (pc'[e] \in Using => counted[e] >= 1)
    BY <1>1, Zenon DEF Counted
  <2>2. counted[e] >= 0 /\ (pc[e] \in Using => counted[e] >= 1)
    BY <2>1, Zenon DEF CountInv, Counted
  <2>3. pc'[e] \in Using => pc[e] \in Using
    BY <1>3 DEF Using, AgainLabels
  <2>4. QED BY <2>2, <2>3
<1>7. Zero'
  BY <1>3 DEF CountInv, Zero
<1>8. Uncount'
  <2>1. SUFFICES ASSUME ~ overlap, ~ leaked, NEW e \in Devices
                 PROVE  counted[e] <= 1 /\ (pc'[e] \in Before \cup Cleaning => counted[e] <= 0)
    BY <1>1, Zenon DEF Uncount
  <2>2. counted[e] <= 1 /\ (pc[e] \in Before \cup Cleaning => counted[e] <= 0)
    BY <2>1, Zenon DEF CountInv, Uncount
  <2>3. pc'[e] \in Before \cup Cleaning => pc[e] \in Before \cup Cleaning
    BY <1>1, <1>3 DEF Cleaning
  <2>4. QED BY <2>2, <2>3
<1>9. Cleans'
  <2>1. SUFFICES ASSUME ref # NoPod, ref <= 0
                 PROVE  \E e \in Devices : pc'[e] \in Cleaning
    BY <1>1, Zenon DEF Cleans
  <2>2. pc'[d] \in Cleaning
    BY <1>3, <2>1 DEF Cleaning
  <2>3. QED BY <2>2
<1>10. QED BY <1>4, <1>5, <1>6, <1>7, <1>8, <1>9 DEF CountParts

LEMMA DeleteCounts ==
  ASSUME CountInv, NEW d \in Devices, DeletePod(d)
  PROVE  CountParts
<1>1. /\ ref' = NoPod /\ counted' = [e \in Devices |-> 0] /\ cur' = cur /\ uncounted' = uncounted
      /\ leaked' = leaked /\ Goto(d, "idle") /\ pc[d] = "deletePod"
      /\ overlap' = (overlap \/ (ref # NoPod /\ ref # cur[d]))
  BY DEF DeletePod, local, At
<1>2. pc'[d] = "idle" /\ \A e \in Devices \ {d} : pc'[e] = pc[e]
  BY <1>1, Moves DEF CountInv, Labels
<1>3. /\ counted \in [Devices -> Int] /\ cur \in [Devices -> Int] /\ FiniteTotal(counted)
      /\ Total(counted) \in Int /\ cur[d] <= 0
  BY <1>1, CountFacts
<1>4. ~ overlap' => ~ overlap /\ (ref = NoPod \/ ref = cur[d])
  BY <1>1, Zenon
<1>5. FiniteTotal(counted)'
  <2>1. FiniteTotal(counted')
    BY <1>1, TotalZero
  <2>2. QED BY <2>1 DEF FiniteTotal, Plus, Minus
<1>6. Balanced'
  BY <1>1 DEF Balanced
<1>7. Counted'
  <2>1. SUFFICES ASSUME ~ overlap', ~ uncounted, NEW e \in Devices, pc'[e] \in Using
                 PROVE  FALSE
    <3>1. \A e \in Devices : counted'[e] >= 0
      BY <1>1
    <3>2. QED BY <1>1, <3>1, Zenon DEF Counted
  <2>2. \A f \in Devices : counted[f] >= 0 /\ (pc[f] \in Using => counted[f] >= 1)
    BY <1>4, <2>1, Zenon DEF CountInv, Counted
  <2>3. e # d /\ pc[e] \in Using
    BY <1>2, <2>1 DEF Using, AgainLabels
  <2>4. counted[e] >= 1
    BY <2>2, <2>3
  <2>5. CASE ref = NoPod
    <3>1. counted[e] = 0
      BY <1>4, <2>1, <2>5, Zenon DEF CountInv, Balanced
    <3>2. QED BY <2>4, <3>1
  <2>6. CASE ref # NoPod /\ ref = cur[d]
    <3>1. ref = Total(counted)
      BY <1>4, <2>1, <2>6, Zenon DEF CountInv, Balanced
    <3>2. Total(counted) >= 1
      BY <1>3, <2>2, <2>4, TotalPositive
    <3>3. QED BY <1>3, <2>6, <3>1, <3>2
  <2>7. QED BY <1>4, <2>1, <2>5, <2>6
<1>8. Zero'
  BY <1>1, <1>2 DEF CountInv, Zero
<1>9. Uncount'
  BY <1>1 DEF Uncount
<1>10. Cleans'
  BY <1>1, Zenon DEF Cleans
<1>11. QED BY <1>5, <1>6, <1>7, <1>8, <1>9, <1>10 DEF CountParts

LEMMA CrashCounts ==
  ASSUME CountInv, NEW d \in Devices, Crash(d)
  PROVE  CountParts
<1>1. /\ ref' = ref /\ counted' = counted /\ overlap' = overlap /\ uncounted' = uncounted
      /\ leaked' = TRUE /\ cur' = cur /\ Goto(d, "idle")
  BY DEF Crash, shared, local
<1>2. pc'[d] = "idle" /\ \A e \in Devices \ {d} : pc'[e] = pc[e]
  BY <1>1, Moves DEF CountInv, Labels
<1>3. FiniteTotal(counted)' /\ Total(counted)' = Total(counted)
  BY <1>1 DEF CountInv, FiniteTotal, Total, Plus, Minus
<1>4. Balanced'
  BY <1>1, <1>3, Zenon DEF CountInv, Balanced
<1>5. Counted'
  <2>1. SUFFICES ASSUME ~ overlap, ~ uncounted, NEW e \in Devices
                 PROVE  counted[e] >= 0 /\ (pc'[e] \in Using => counted[e] >= 1)
    BY <1>1, Zenon DEF Counted
  <2>2. counted[e] >= 0 /\ (pc[e] \in Using => counted[e] >= 1)
    BY <2>1, Zenon DEF CountInv, Counted
  <2>3. pc'[e] \in Using => pc[e] \in Using
    BY <1>2 DEF Using, AgainLabels
  <2>4. QED BY <2>2, <2>3
<1>6. Zero'
  BY <1>1, <1>2 DEF CountInv, Zero
<1>7. Uncount' /\ Cleans'
  BY <1>1, Zenon DEF Uncount, Cleans
<1>8. QED BY <1>3, <1>4, <1>5, <1>6, <1>7 DEF CountParts

LEMMA UpdateMoves ==
  ASSUME NEW d \in Devices, NEW which, NEW l, NEW next \in {"delete", "decrement"},
         UpdateDHCP(d, which, l, next)
  PROVE  \E k \in {"delete", "decrement", "release"} : Goto(d, k)
BY DEF UpdateDHCP, Conflict

LEMMA ConnectQuiet ==
  ASSUME TypeInv, NEW d \in Devices, Connect(d) \/ Reverse(d) \/ Reversed(d)
  PROVE  /\ ref' = ref /\ counted' = counted /\ overlap' = overlap /\ uncounted' = uncounted
         /\ leaked' = leaked /\ Quiet(d)
<1>1. /\ ref' = ref /\ counted' = counted /\ overlap' = overlap /\ uncounted' = uncounted
      /\ leaked' = leaked /\ cur' = cur
  BY DEF Connect, InitDHCP, GenerateTunIP, RentIP, Rented, PatchDHCP, RecordMac, Reverse, Reversed,
     shared, local, counts
<1>2. CASE Connect(d)
  <2>1. /\ pc[d] \in Before
        /\ \E l \in {"idle", "generate", "rent", "rented", "record", "port"} : Goto(d, l)
    BY <1>2 DEF Connect, InitDHCP, GenerateTunIP, RentIP, Rented, PatchDHCP, RecordMac, Prepared, Begin, At,
       Before
  <2>2. /\ pc'[d] \in {"idle", "generate", "rent", "rented", "record", "port"}
        /\ \A e \in Devices \ {d} : pc'[e] = pc[e]
    BY <2>1, Moves DEF Labels
  <2>3. QED BY <1>1, <2>1, <2>2 DEF Quiet, Before, Using, AgainLabels, Cleaning
<1>3. CASE Reverse(d) \/ Reversed(d)
  <2>1. /\ pc[d] \in Using /\ \E l \in {"up", "reversed"} : Goto(d, l)
    BY <1>3 DEF Reverse, Reversed, PatchDHCP, Begin, At, Using, AgainLabels
  <2>2. /\ pc'[d] \in {"up", "reversed"} /\ \A e \in Devices \ {d} : pc'[e] = pc[e]
    BY <2>1, Moves DEF Labels
  <2>3. QED BY <1>1, <2>1, <2>2 DEF Quiet, Before, Using, AgainLabels, Cleaning
<1>4. QED BY <1>1, <1>2, <1>3

LEMMA DialQuiet ==
  ASSUME TypeInv, NEW d \in Devices,
         \/ ConnectFails(d) \/ GetPod(d) \/ PodAlreadyExists(d) \/ TunnelUp(d) \/ NoTunnel(d)
         \/ Redial(d)
  PROVE  /\ ref' = ref /\ counted' = counted /\ overlap' = overlap /\ uncounted' = uncounted
         /\ leaked' = leaked /\ Quiet(d)
<1>1. /\ ref' = ref /\ counted' = counted /\ overlap' = overlap /\ uncounted' = uncounted
      /\ leaked' = leaked /\ cur' = cur
  BY DEF ConnectFails, GetPod, PodAlreadyExists, TunnelUp, NoTunnel, Redial,
     shared, local, history, counts
<1>2. CASE TunnelUp(d)
  <2>1. pc[d] = "start" /\ Goto(d, "up")
    BY <1>2 DEF TunnelUp, At
  <2>2. pc'[d] = "up" /\ \A e \in Devices \ {d} : pc'[e] = pc[e]
    BY <2>1, Moves DEF Labels
  <2>3. QED BY <1>1, <2>1, <2>2 DEF Quiet, Before, Using, AgainLabels, Cleaning
<1>3. CASE ~ TunnelUp(d)
  <2>1. /\ pc[d] \in {"port", "start", "create", "up"}
        /\ \E l \in {"release", "create", "increment", "port"} : Goto(d, l)
    BY <1>3 DEF ConnectFails, GetPod, PodAlreadyExists, NoTunnel, Redial, Begin, At
  <2>2. /\ pc'[d] \in {"release", "create", "increment", "port"}
        /\ \A e \in Devices \ {d} : pc'[e] = pc[e]
    BY <2>1, Moves DEF Labels
  <2>3. QED BY <1>1, <2>1, <2>2 DEF Quiet, Before, Using, AgainLabels, Cleaning
<1>4. QED BY <1>1, <1>2, <1>3

LEMMA ReleaseQuiet ==
  ASSUME TypeInv, NEW d \in Devices,
         ReleaseIP(d) \/ ReleaseRead(d) \/ ReleaseFree(d) \/ ReleaseDelete(d)
  PROVE  /\ ref' = ref /\ counted' = counted /\ overlap' = overlap /\ uncounted' = uncounted
         /\ leaked' = leaked /\ Quiet(d)
<1>1. /\ ref' = ref /\ counted' = counted /\ overlap' = overlap /\ uncounted' = uncounted
      /\ leaked' = leaked /\ cur' = cur
  BY DEF ReleaseIP, ReleaseRead, ReleaseFree, ReleaseDelete, UpdateDHCP, shared, local, history, counts
<1>2. pc[d] \in RetryLabels
  BY DEF ReleaseIP, ReleaseRead, ReleaseFree, ReleaseDelete, At, RetryLabels
<1>3. \E l \in {"decrement", "read", "delete", "free", "release"} : Goto(d, l)
  <2>1. CASE ReleaseIP(d) \/ ReleaseRead(d)
    BY <2>1 DEF ReleaseIP, ReleaseRead
  <2>2. CASE ReleaseFree(d) \/ ReleaseDelete(d)
    <3>1. \E k \in {"delete", "decrement", "release"} : Goto(d, k)
      BY <2>2, UpdateMoves DEF ReleaseFree, ReleaseDelete
    <3>2. QED BY <3>1
  <2>3. QED BY <2>1, <2>2
<1>4. /\ pc'[d] \in {"decrement", "read", "delete", "free", "release"}
      /\ \A e \in Devices \ {d} : pc'[e] = pc[e]
  BY <1>3, Moves DEF Labels
<1>5. Quiet(d)
  BY <1>1, <1>2, <1>4 DEF Quiet, Before, Using, AgainLabels, Cleaning, RetryLabels
<1>6. QED BY <1>1, <1>5

LEMMA AgainQuiet ==
  ASSUME TypeInv, AgainOK, NEW d \in Devices, Again(d)
  PROVE  /\ ref' = ref /\ counted' = counted /\ overlap' = overlap /\ uncounted' = uncounted
         /\ leaked' = leaked /\ Quiet(d)
<1>1. /\ ref' = ref /\ counted' = counted /\ overlap' = overlap /\ uncounted' = uncounted
      /\ leaked' = leaked /\ cur' = cur
  BY DEF Again, PrepareAgain, GenerateAgain, RentAgain, RentedAgain, PatchDHCP, RecordAgain, shared,
     local, history, counts
<1>2. goal[d] \in {"up", "release"}
  BY DEF AgainOK
<1>3. /\ pc[d] \in {"up"} \cup AgainLabels
      /\ \E l \in {"up", "release"} \cup AgainLabels : Goto(d, l)
  BY <1>2 DEF Again, PrepareAgain, GenerateAgain, RentAgain, RentedAgain, PatchDHCP, RecordAgain,
     PreparedAgain, Begin, At, AgainLabels
<1>4. /\ pc'[d] \in {"up", "release"} \cup AgainLabels /\ \A e \in Devices \ {d} : pc'[e] = pc[e]
  BY <1>3, Moves DEF Labels
<1>5. QED BY <1>1, <1>3, <1>4 DEF Quiet, Before, Using, AgainLabels, Cleaning

LEMMA NextCounts == CountInv /\ AgainOK /\ [Next]_vars => CountInv'
<1>1. SUFFICES ASSUME CountInv, AgainOK, [Next]_vars
               PROVE  CountInv'
  OBVIOUS
<1>2. TypeInv /\ TypeInv'
  BY <1>1, NextTypes DEF CountInv
<1>3. CASE UNCHANGED vars
  <2>1. /\ ref' = ref /\ counted' = counted /\ overlap' = overlap /\ uncounted' = uncounted
        /\ leaked' = leaked /\ pc' = pc /\ cur' = cur
    BY <1>3 DEF vars, shared, local, history, counts
  <2>2. FiniteTotal(counted)' /\ Total(counted)' = Total(counted)
    BY <1>1, <2>1 DEF CountInv, FiniteTotal, Total, Plus, Minus
  <2>3. Balanced' /\ Counted' /\ Zero' /\ Uncount' /\ Cleans'
    BY <1>1, <2>1, <2>2, Zenon DEF CountInv, Balanced, Counted, Zero, Uncount, Cleans
  <2>4. QED BY <1>2, <2>2, <2>3 DEF CountInv
<1>4. ASSUME NEW d \in Devices, \/ Connect(d) \/ Dial(d) \/ Reverse(d) \/ Reversed(d)
                                \/ Again(d) \/ Leave(d) \/ Crash(d)
      PROVE  CountParts
  <2>1. CASE Connect(d) \/ Reverse(d) \/ Reversed(d)
    BY <1>1, <1>2, <2>1, ConnectQuiet, QuietCounts
  <2>2. CASE Dial(d)
    <3>1. CASE CreatePod(d)
      BY <1>1, <3>1, CreateCounts
    <3>2. CASE Increment(d)
      BY <1>1, <3>2, GetCounts, PatchCounts DEF Increment
    <3>3. CASE ~ CreatePod(d) /\ ~ Increment(d)
      BY <1>1, <1>2, <2>2, <3>3, DialQuiet, QuietCounts DEF Dial
    <3>4. QED BY <3>1, <3>2, <3>3
  <2>3. CASE Leave(d)
    <3>2. CASE ReleaseIP(d) \/ ReleaseRead(d) \/ ReleaseFree(d) \/ ReleaseDelete(d)
      BY <1>1, <1>2, <3>2, ReleaseQuiet, QuietCounts
    <3>3. CASE Decrement(d)
      BY <1>1, <3>3, GetCounts, PatchCounts DEF Decrement
    <3>4. CASE CleanUp(d) \/ DeleteMap(d)
      BY <1>1, <3>4, CleanCounts
    <3>5. CASE DeletePod(d)
      BY <1>1, <3>5, DeleteCounts
    <3>6. QED BY <2>3, <3>2, <3>3, <3>4, <3>5 DEF Leave
  <2>4. CASE Crash(d)
    BY <1>1, <2>4, CrashCounts
  <2>5. CASE Again(d)
    BY <1>1, <1>2, <2>5, AgainQuiet, QuietCounts
  <2>6. QED BY <1>4, <2>1, <2>2, <2>3, <2>4, <2>5
<1>5. CASE Next
  BY <1>2, <1>4, <1>5 DEF Next, CountInv, CountParts
<1>6. QED BY <1>1, <1>3, <1>5

LEMMA CountsHold == Spec => []CountInv
<1>1. Init => CountInv
  <2>1. SUFFICES ASSUME Init
                 PROVE  CountInv
    OBVIOUS
  <2>2. /\ ref = NoPod /\ counted = [d \in Devices |-> 0] /\ overlap = FALSE /\ uncounted = FALSE
        /\ leaked = FALSE /\ \A d \in Devices : pc[d] = "idle" /\ counted[d] = 0
    BY <2>1 DEF Init
  <2>3. FiniteTotal(counted)
    BY <2>2, TotalZero
  <2>4. Balanced /\ Cleans
    BY <2>2, Zenon DEF Balanced, Cleans
  <2>5. Counted /\ Zero /\ Uncount
    BY <2>2 DEF Counted, Zero, Uncount, Using, AgainLabels
  <2>6. QED BY <2>1, <2>3, <2>4, <2>5, InitTypes DEF CountInv
<1>2. QED BY <1>1, TypesHold, NextCounts, PTL DEF Spec

(* UpdateRefCount reads the ref-count and replaces it later, and the       *)
(* traffic manager is deleted by whoever finds it not positive: it is not  *)
(* deleted under a device that is connected, unless two updates of the     *)
(* ref-count overlapped or a device decremented it that had not counted    *)
(* itself.                                                                 *)
THEOREM TrafficManagerIsKept == Spec => []InUseIsKept
<1>1. CountInv => InUseIsKept
  <2>1. SUFFICES ASSUME CountInv, NEW d \in Devices, Up(d), ref = NoPod, ~ overlap, ~ uncounted
                 PROVE  FALSE
    BY Zenon DEF InUseIsKept
  <2>2. pc[d] \in Using
    BY <2>1 DEF Up, Using, AgainLabels
  <2>3. counted[d] = 0
    BY <2>1, Zenon DEF CountInv, Balanced
  <2>4. counted[d] >= 1
    BY <2>1, <2>2, Zenon DEF CountInv, Counted
  <2>5. QED BY <2>3, <2>4
<1>2. QED BY <1>1, CountsHold, PTL

(* When every device has disconnected, the last of them has cleaned the    *)
(* traffic manager up (CleanUpTrafficManagerIfRefCountIsZero), unless two  *)
(* updates of the ref-count overlapped, or a device incremented it twice   *)
(* or crashed.                                                             *)
THEOREM TrafficManagerIsCleaned == Spec => []UnusedIsCleaned
<1>1. CountInv => UnusedIsCleaned
  <2>1. SUFFICES ASSUME CountInv, \A d \in Devices : pc[d] = "idle", ref # NoPod, ~ overlap, ~ leaked
                 PROVE  FALSE
    BY Zenon DEF UnusedIsCleaned, At
  <2>2. \A d \in Devices : counted[d] <= 1 /\ (pc[d] \in Before \cup Cleaning => counted[d] <= 0)
    BY <2>1, Zenon DEF CountInv, Uncount
  <2>3. \A d \in Devices : counted[d] <= 0
    BY <2>1, <2>2 DEF Before
  <2>4. counted \in [Devices -> Int] /\ FiniteTotal(counted)
    BY <2>1, CountFacts
  <2>5. Total(counted) <= 0
    BY <2>3, <2>4, TotalNegative
  <2>6. ref = Total(counted)
    BY <2>1, Zenon DEF CountInv, Balanced
  <2>7. ref <= 0
    BY <2>5, <2>6
  <2>8. \E d \in Devices : pc[d] \in Cleaning
    BY <2>1, <2>7, Zenon DEF CountInv, Cleans
  <2>9. QED BY <2>1, <2>8 DEF Cleaning
<1>2. QED BY <1>1, CountsHold, PTL
=============================================================================
