------------------------------- MODULE VpnMap -------------------------------
(***************************************************************************)
(* What the devices of one namespace share: the addresses of the config    *)
(* map (the fields DHCP and MAC_TO_IP) and the traffic manager pod with    *)
(* its ref-count.  Every device reads and writes them by calls of its own, *)
(* one step each, so that the calls of several devices interleave.         *)
(*                                                                         *)
(* VpnDaemon has the daemons of one device; here a device connects, stays  *)
(* connected and disconnects, and its calls follow one another.            *)
(***************************************************************************)
EXTENDS Integers, FiniteSets, FiniteSetsExt

CONSTANTS
    Devices,       \* the devices, by their mac addresses
    NoPod,         \* there is no traffic manager
    Usable,        \* the addresses to rent: 2..253 without the router's
    Router,        \* the router's address, 100
    Modulus,       \* 255: the probing of getIP is modulo this
    Hash(_),       \* Hash(d): the hash of a mac address, modulo Modulus
    TextLast(_),   \* TextLast(S): the last of S when the numbers are sorted as strings
    Retries,       \* bound of RetryOnConflict
    MaxBusy,       \* bound: devices that connect or disconnect at the same time
    Budgets        \* bounds: how many Prepares to connect, other Prepares of connected devices,
                   \* reverses, failures, re-dials and crashes a behaviour may have

ASSUME VpnMapAssumption ==
    /\ IsFiniteSet(Devices) /\ NoPod \notin Int /\ Modulus \in Nat \ {0} /\ Usable \subseteq 1..Modulus - 1
    /\ Router \in (1..Modulus - 1) \ Usable
    /\ \A d \in Devices : Hash(d) \in 0..Modulus - 1
    /\ \A S \in SUBSET (0..Modulus - 1) : S # {} => TextLast(S) \in S
    /\ Retries \in Nat \ {0} /\ MaxBusy \in Nat \ {0}
    /\ Budgets \subseteq [connects : Nat, prepares : Nat, reverses : Nat, fails : Nat, redials : Nat,
                     crashes : Nat]

VARIABLES
    cm,        \* the config map: does it exist, its DHCP text and its MAC_TO_IP records
    mine,      \* the devices whose Uid is the uid of the config map
    ref,       \* the ref-count of the traffic manager pod, or NoPod
    pc,        \* pc[d]: the next call of d
    addr,      \* addr[d]: localTunIP of d
    again,     \* again[d]: localTunIP of a Prepare of d while it is connected
    goal,      \* goal[d]: what that Prepare is for
    used,      \* used[d]: the leases d has read
    records,   \* records[d]: the MAC_TO_IP records d has read
    fresh,     \* fresh[d]: which reads of d have the version of the config map
    cur,       \* cur[d]: the ref-count d has read
    tries,     \* tries[d]: what is left of RetryOnConflict
    counted,   \* history: counted[d]: increments of the ref-count by d less its decrements
    robbed,    \* history: devices whose lease a write of another device has dropped
    reused,    \* history: devices that took an address from MAC_TO_IP without a lease
    full,      \* history: devices that were given an address that was not available
    overlap,   \* history: a ref-count was patched or acted on after it had changed
    uncounted, \* history: a device connected without incrementing the ref-count, or
               \* decremented it without having incremented it
    leaked,    \* history: a device incremented the ref-count twice, or crashed
    budget     \* what is left of the budget

shared == <<cm, mine, ref>>
call == <<again, goal>>
local == <<addr, used, records, cur, tries, call>>
counts == <<counted, overlap, uncounted, leaked>>
history == <<counts, robbed, reused, full>>
vars == <<shared, pc, local, fresh, history, budget>>

Ips == 0..Modulus - 1

(* Leases and records of nobody: a device that has none is not in the map. *)
Leases == UNION {[D -> SUBSET Ips] : D \in SUBSET Devices}

Records == UNION {[D -> Ips] : D \in SUBSET Devices}

Nobody == [d \in {} |-> {}]

(* DHCP: the leases ToString was given, and how its text was written.  Its *)
(* \n is a newline only after it has gone through the JSON of a patch.     *)
Texts == [leases : Leases, lines : BOOLEAN]

ConfigMaps == [exists : BOOLEAN, dhcp : Texts, macs : Records]

NoMap == [exists |-> FALSE, dhcp |-> [leases |-> Nobody, lines |-> TRUE], macs |-> Nobody]

-----------------------------------------------------------------------------
(* FromStringToDHCP: a text that was not patched is one line.  With one    *)
(* device its last number ends in \n and is no number; with several, the   *)
(* line has too many parts and nothing is read.                            *)
FromStringToDHCP(t) ==
    IF t.lines THEN t.leases
    ELSE IF Cardinality(DOMAIN t.leases) # 1 THEN Nobody
    ELSE [d \in DOMAIN t.leases |->
            IF t.leases[d] = {} THEN {} ELSE t.leases[d] \ {TextLast(t.leases[d])}]

Taken(l) == UNION {l[d] : d \in DOMAIN l}

(* Mutant: the leases are forgotten. *)
AvailableForgets(l) == Usable

GetAvailableIPs(l) == Usable \ Taken(l)

(* getIP: the first available address from the hash on, of all but one. *)
Probe(d, i) == (Hash(d) + i) % Modulus

(* Mutant: the address is not reduced when the probing ends. *)
getIPUnreduced(d, available) ==
    LET hits == {i \in 0..Modulus - 2 : Probe(d, i) \in available}
    IN  IF hits = {} THEN Hash(d) + Modulus ELSE Probe(d, Min(hits))

getIP(d, available) ==
    LET hits == {i \in 0..Modulus - 2 : Probe(d, i) \in available}
    IN  IF hits = {} THEN Hash(d) ELSE Probe(d, Min(hits))

With(l, d, ip) ==
    [e \in DOMAIN l \cup {d} |->
        IF e # d THEN l[e] ELSE (IF d \in DOMAIN l THEN l[d] ELSE {}) \cup {ip}]

Without(l, d) == [e \in DOMAIN l \ {d} |-> l[e]]

Held(d, m) ==
    LET l == FromStringToDHCP(m.dhcp) IN IF d \in DOMAIN l THEN l[d] ELSE {}

-----------------------------------------------------------------------------
(* The API server. *)

(* d writes the config map.  A text of several devices comes in any order, *)
(* so that it may be a new version with the same leases.                   *)
Write(d, m) ==
    /\ cm' = m
    /\ robbed' = robbed \cup {e \in Devices \ {d} : ~ Held(e, cm) \subseteq Held(e, m)}
    /\ \E new \in BOOLEAN :
          /\ m # cm => new
          /\ Cardinality(DOMAIN m.dhcp.leases) < 2 /\ m = cm => ~ new
          /\ fresh' = IF new THEN [e \in Devices |-> {}] ELSE fresh

(* d reads the config map. *)
Read(d, which) == fresh' = [fresh EXCEPT ![d] = @ \cup {which}]

Text(l, lines) == [leases |-> l, lines |-> lines]

Goto(d, l) == pc' = [pc EXCEPT ![d] = l]

At(d, l) == pc[d] = l

Spend(what) == budget[what] > 0 /\ budget' = [budget EXCEPT ![what] = @ - 1]

(* d begins to connect, to dial again, to reverse or to prepare again. *)
Begin(d, here) ==
    /\ At(d, here) /\ Cardinality({e \in Devices : pc[e] \notin {"idle", "up"}}) < MaxBusy

-----------------------------------------------------------------------------
(* Prepare, when the device is not connected. *)

(* InitDHCPIfNecessary: the router's address is written for this device. *)
InitDHCPIfNecessary(d) ==
    IF cm.exists THEN UNCHANGED <<cm, robbed, fresh>>
    ELSE Write(d, [NoMap EXCEPT !.exists = TRUE, !.dhcp = Text(With(Nobody, d, Router), FALSE)])

InitDHCP(d) ==
    /\ Begin(d, "idle") /\ Spend("connects") /\ Goto(d, "generate")
    /\ InitDHCPIfNecessary(d) /\ mine' = mine \cup {d}
    /\ UNCHANGED <<ref, local, counts, reused, full>>

(* The sudo daemon's Prepare is followed by DoConnect, the daemon's before *)
(* it by the sudo daemon's.                                                *)
Prepared(d) == \E l \in {"port", "idle"} : Goto(d, l)

(* GenerateTunIP: an address that MAC_TO_IP records is taken as it is. *)
GenerateTunIP(d) ==
    /\ At(d, "generate")
    /\ \/ ~ cm.exists /\ Goto(d, "idle") /\ UNCHANGED <<addr, records, reused>>
       \/ /\ cm.exists /\ d \in DOMAIN cm.macs
          /\ addr' = [addr EXCEPT ![d] = cm.macs[d]]
          /\ reused' = IF cm.macs[d] \in Held(d, cm) THEN reused \ {d} ELSE reused \cup {d}
          /\ Prepared(d) /\ UNCHANGED records
       \/ /\ cm.exists /\ d \notin DOMAIN cm.macs
          /\ records' = [records EXCEPT ![d] = cm.macs] /\ reused' = reused \ {d}
          /\ Goto(d, "rent") /\ UNCHANGED addr
    /\ robbed' = robbed \ {d}
    /\ UNCHANGED <<shared, used, cur, tries, call, fresh, counts, full, budget>>

(* RentIP(false): the address is chosen from what was read ... *)
RentIP(d) ==
    /\ At(d, "rent")
    /\ LET l == FromStringToDHCP(cm.dhcp)
           ip == getIP(d, GetAvailableIPs(l))
       IN  \/ ~ cm.exists /\ Goto(d, "idle") /\ UNCHANGED <<addr, used, full>>
           \/ /\ cm.exists
              /\ addr' = [addr EXCEPT ![d] = ip]
              /\ used' = [used EXCEPT ![d] = With(l, d, ip)]
              /\ full' = IF ip \in GetAvailableIPs(l) THEN full ELSE full \cup {d}
              /\ Goto(d, "rented")
    /\ UNCHANGED <<shared, records, cur, tries, call, fresh, counts, robbed, reused, budget>>

(* Mutant: only the lines of d are patched. *)
PatchDHCPOwn(d, next, failed) ==
    /\ \/ ~ cm.exists /\ Goto(d, failed) /\ UNCHANGED <<cm, robbed, fresh>>
       \/ /\ cm.exists /\ Goto(d, next)
          /\ Write(d, [cm EXCEPT !.dhcp = Text(With(FromStringToDHCP(@), d, addr[d]), TRUE)])
    /\ UNCHANGED <<mine, ref, local, counts, reused, full, budget>>

(* ... and the whole field is patched, whatever it is by now. *)
PatchDHCP(d, next, failed) ==
    /\ \/ ~ cm.exists /\ Goto(d, failed) /\ UNCHANGED <<cm, robbed, fresh>>
       \/ cm.exists /\ Write(d, [cm EXCEPT !.dhcp = Text(used[d], TRUE)]) /\ Goto(d, next)
    /\ UNCHANGED <<mine, ref, local, counts, reused, full, budget>>

Rented(d) == At(d, "rented") /\ PatchDHCP(d, "record", "idle")

(* AddMacToIPRecord: to the records that were read before the rent. *)
AddMacToIPRecord(d, ip) ==
    Write(d, [cm EXCEPT !.macs =
        [e \in DOMAIN records[d] \cup {d} |-> IF e = d THEN ip ELSE records[d][e]]])

RecordMac(d) ==
    /\ At(d, "record")
    /\ \/ ~ cm.exists /\ Goto(d, "idle") /\ UNCHANGED <<cm, robbed, fresh>>
       \/ cm.exists /\ AddMacToIPRecord(d, addr[d]) /\ Prepared(d)
    /\ UNCHANGED <<mine, ref, local, counts, reused, full, budget>>

-----------------------------------------------------------------------------
(* DoConnect. *)

(* WaitPortToBeFree, the waiting for the pod, the port-forward, the tunnel *)
(* or the DNS fails: the daemon disconnects.                               *)
ConnectFails(d) ==
    /\ pc[d] \in {"port", "start"} /\ Spend("fails") /\ Goto(d, "release")
    /\ tries' = [tries EXCEPT ![d] = Retries]
    /\ UNCHANGED <<shared, addr, used, records, cur, call, fresh, history>>

(* createOutboundRouterPodIfNecessary. *)
GetPod(d) ==
    /\ At(d, "port") /\ Goto(d, IF ref = NoPod THEN "create" ELSE "increment")
    /\ UNCHANGED <<shared, local, fresh, history, budget>>

CreatePod(d) ==
    /\ At(d, "create") /\ ref = NoPod
    /\ ref' = 1 /\ counted' = [counted EXCEPT ![d] = @ + 1] /\ Goto(d, "start")
    /\ UNCHANGED <<cm, mine, local, fresh, robbed, reused, full, overlap, uncounted, leaked, budget>>

PodAlreadyExists(d) ==
    /\ At(d, "create") /\ ref # NoPod
    /\ Goto(d, "release") /\ tries' = [tries EXCEPT ![d] = Retries]
    /\ UNCHANGED <<shared, addr, used, records, cur, call, fresh, history, budget>>

(* UpdateRefCount: the count is read, then replaced.  Without a pod it     *)
(* gives up and logs.                                                      *)
GetRefCount(d, here, next, missing) ==
    /\ At(d, here)
    /\ IF ref = NoPod
       THEN Goto(d, missing) /\ uncounted' = (uncounted \/ here = "increment") /\ UNCHANGED cur
       ELSE Goto(d, next) /\ cur' = [cur EXCEPT ![d] = ref] /\ UNCHANGED uncounted
    /\ UNCHANGED <<shared, addr, used, records, tries, call, fresh, counted, overlap, leaked, robbed,
                   reused, full, budget>>

PatchRefCount(d, here, increment, next) ==
    /\ At(d, here) /\ Goto(d, next)
    /\ IF ref = NoPod
       THEN uncounted' = (uncounted \/ increment = 1) /\ UNCHANGED <<ref, counted, overlap, leaked>>
       ELSE /\ ref' = cur[d] + increment
            /\ counted' = [counted EXCEPT ![d] = @ + increment]
            /\ overlap' = (overlap \/ ref # cur[d])
            /\ uncounted' = (uncounted \/ counted'[d] < 0)
            /\ leaked' = (leaked \/ counted'[d] > 1)
    /\ UNCHANGED <<cm, mine, local, fresh, robbed, reused, full, budget>>

Increment(d) ==
    \/ GetRefCount(d, "increment", "incremented", "start")
    \/ PatchRefCount(d, "incremented", 1, "start")

(* The port-forward reaches the pod, and the tunnel is up. *)
TunnelUp(d) ==
    /\ At(d, "start") /\ ref # NoPod /\ Goto(d, "up")
    /\ UNCHANGED <<shared, local, fresh, history, budget>>

NoTunnel(d) ==
    /\ At(d, "start") /\ ref = NoPod /\ Goto(d, "release")
    /\ tries' = [tries EXCEPT ![d] = Retries]
    /\ UNCHANGED <<shared, addr, used, records, cur, call, fresh, history, budget>>

(* The tunnel ends with an error: the loop of the daemon calls DoConnect   *)
(* again.                                                                  *)
Redial(d) ==
    /\ Begin(d, "up") /\ Spend("redials") /\ Goto(d, "port")
    /\ UNCHANGED <<shared, local, fresh, history>>

(* createRemoteInboundPod: RentIP(true) takes any available address, or 0. *)
Reverse(d) ==
    /\ Begin(d, "up") /\ Spend("reverses") /\ ref # NoPod /\ cm.exists
    /\ LET l == FromStringToDHCP(cm.dhcp)
           available == GetAvailableIPs(l)
       IN  \E ip \in IF available = {} THEN {0} ELSE available :
              /\ used' = [used EXCEPT ![d] = With(l, d, ip)]
              /\ full' = IF available = {} THEN full \cup {d} ELSE full
    /\ Goto(d, "reversed")
    /\ UNCHANGED <<shared, addr, records, cur, tries, call, fresh, counts, robbed, reused>>

Reversed(d) == At(d, "reversed") /\ PatchDHCP(d, "up", "up")

-----------------------------------------------------------------------------
(* Prepare, when the device is connected: of fresh ConnectOptions, for any *)
(* command and every reverse that is looked after.  The address of the     *)
(* connection stays; of a disconnect, disconnect() follows if the uid is   *)
(* that of the connection.                                                 *)
PrepareAgain(d) ==
    /\ Begin(d, "up") /\ Goto(d, "regenerate") /\ InitDHCPIfNecessary(d)
    /\ \/ d \in mine /\ goal' = [goal EXCEPT ![d] = "release"] /\ UNCHANGED budget
       \/ goal' = [goal EXCEPT ![d] = "up"] /\ Spend("prepares")
    /\ UNCHANGED <<mine, ref, addr, used, records, cur, tries, again, counts, reused, full>>

PreparedAgain(d) == Goto(d, goal[d]) /\ tries' = [tries EXCEPT ![d] = Retries]

GenerateAgain(d) ==
    /\ At(d, "regenerate")
    /\ \/ ~ cm.exists /\ Goto(d, "up") /\ UNCHANGED <<records, tries>>
       \/ cm.exists /\ d \in DOMAIN cm.macs /\ PreparedAgain(d) /\ UNCHANGED records
       \/ /\ cm.exists /\ d \notin DOMAIN cm.macs
          /\ records' = [records EXCEPT ![d] = cm.macs] /\ Goto(d, "rerent") /\ UNCHANGED tries
    /\ UNCHANGED <<shared, addr, used, cur, call, fresh, history, budget>>

RentAgain(d) ==
    /\ At(d, "rerent")
    /\ LET l == FromStringToDHCP(cm.dhcp)
           ip == getIP(d, GetAvailableIPs(l))
       IN  \/ ~ cm.exists /\ Goto(d, "up") /\ UNCHANGED <<again, used, full>>
           \/ /\ cm.exists
              /\ again' = [again EXCEPT ![d] = ip]
              /\ used' = [used EXCEPT ![d] = With(l, d, ip)]
              /\ full' = IF ip \in GetAvailableIPs(l) THEN full ELSE full \cup {d}
              /\ Goto(d, "rerented")
    /\ UNCHANGED <<shared, addr, records, cur, tries, goal, fresh, counts, robbed, reused, budget>>

RentedAgain(d) == At(d, "rerented") /\ PatchDHCP(d, "rerecord", "up")

RecordAgain(d) ==
    /\ At(d, "rerecord")
    /\ \/ ~ cm.exists /\ Goto(d, "up") /\ UNCHANGED <<cm, robbed, fresh, tries>>
       \/ cm.exists /\ AddMacToIPRecord(d, again[d]) /\ PreparedAgain(d)
    /\ UNCHANGED <<mine, ref, addr, used, records, cur, call, counts, reused, full, budget>>

-----------------------------------------------------------------------------
(* disconnect. *)

(* ConnectOptions.ReleaseIP: without a lease that it can read, the device  *)
(* writes its own Update at once; else DHCPManager.ReleaseIP comes first.  *)
ReleaseIP(d) ==
    /\ At(d, "release")
    /\ \/ ~ cm.exists /\ Goto(d, "decrement") /\ UNCHANGED <<used, fresh>>
       \/ /\ cm.exists /\ used' = [used EXCEPT ![d] = FromStringToDHCP(cm.dhcp)]
          /\ fresh' = [fresh EXCEPT ![d] = {"outer"}]
          /\ Goto(d, IF d \in DOMAIN FromStringToDHCP(cm.dhcp) THEN "read" ELSE "delete")
    /\ UNCHANGED <<shared, addr, records, cur, tries, call, history, budget>>

(* DHCPManager.ReleaseIP reads the map again; the addresses are those the  *)
(* first read has shown.                                                   *)
ReleaseRead(d) ==
    /\ At(d, "read")
    /\ IF cm.exists THEN Goto(d, "free") /\ Read(d, "inner")
       ELSE Goto(d, "decrement") /\ UNCHANGED fresh
    /\ UNCHANGED <<shared, local, history, budget>>

(* RetryOnConflict: again from the first read, a few times. *)
Conflict(d) ==
    /\ tries' = [tries EXCEPT ![d] = @ - 1]
    /\ Goto(d, IF tries[d] = 1 THEN "decrement" ELSE "release")

(* An Update writes the text as it is, and only over the version it read. *)
UpdateDHCP(d, which, l, next) ==
    /\ \/ /\ cm.exists /\ which \in fresh[d]
          /\ Write(d, [cm EXCEPT !.dhcp = Text(l, FALSE)])
          /\ Goto(d, next) /\ UNCHANGED tries
       \/ /\ cm.exists /\ which \notin fresh[d]
          /\ Conflict(d) /\ UNCHANGED <<cm, robbed, fresh>>
       \/ ~ cm.exists /\ Goto(d, "decrement") /\ UNCHANGED <<cm, robbed, fresh, tries>>
    /\ UNCHANGED <<mine, ref, addr, used, records, cur, call, counts, reused, full, budget>>

(* The addresses are removed from every device's leases. *)
ReleaseFree(d) ==
    /\ At(d, "free")
    /\ LET l == FromStringToDHCP(cm.dhcp)
       IN  UpdateDHCP(d, "inner", [e \in DOMAIN l |-> l[e] \ used[d][d]], "delete")

ReleaseDelete(d) == At(d, "delete") /\ UpdateDHCP(d, "outer", Without(used[d], d), "decrement")

(* CleanUpTrafficManagerIfRefCountIsZero. *)
Decrement(d) ==
    \/ GetRefCount(d, "decrement", "decremented", "clean")
    \/ PatchRefCount(d, "decremented", -1, "clean")

(* Mutants: one device too early, one too late. *)
CleanUpEarly(d) ==
    /\ At(d, "clean")
    /\ Goto(d, IF ref # NoPod /\ ref <= 1 THEN "deleteMap" ELSE "idle")
    /\ cur' = [cur EXCEPT ![d] = IF ref = NoPod THEN @ ELSE ref]
    /\ UNCHANGED <<shared, addr, used, records, tries, call, fresh, history, budget>>

CleanUpLate(d) ==
    /\ At(d, "clean")
    /\ Goto(d, IF ref # NoPod /\ ref < 0 THEN "deleteMap" ELSE "idle")
    /\ cur' = [cur EXCEPT ![d] = IF ref = NoPod THEN @ ELSE ref]
    /\ UNCHANGED <<shared, addr, used, records, tries, call, fresh, history, budget>>

CleanUp(d) ==
    /\ At(d, "clean")
    /\ Goto(d, IF ref # NoPod /\ ref <= 0 THEN "deleteMap" ELSE "idle")
    /\ cur' = [cur EXCEPT ![d] = IF ref = NoPod THEN @ ELSE ref]
    /\ UNCHANGED <<shared, addr, used, records, tries, call, fresh, history, budget>>

DeleteMap(d) ==
    /\ At(d, "deleteMap") /\ Goto(d, "deletePod")
    /\ Write(d, NoMap) /\ mine' = {}
    /\ UNCHANGED <<ref, local, counts, reused, full, budget>>

DeletePod(d) ==
    /\ At(d, "deletePod") /\ Goto(d, "idle")
    /\ ref' = NoPod /\ counted' = [e \in Devices |-> 0]
    /\ overlap' = (overlap \/ (ref # NoPod /\ ref # cur[d]))
    /\ UNCHANGED <<cm, mine, local, fresh, robbed, reused, full, uncounted, leaked, budget>>

(* The daemon of d is killed: nothing is released. *)
Crash(d) ==
    /\ ~ At(d, "idle") /\ Spend("crashes") /\ Goto(d, "idle") /\ leaked' = TRUE
    /\ UNCHANGED <<shared, local, fresh, counted, overlap, uncounted, robbed, reused, full>>

-----------------------------------------------------------------------------
(* A namespace where nobody has connected yet. *)
Init ==
    /\ cm = NoMap /\ mine = {} /\ ref = NoPod
    /\ pc = [d \in Devices |-> "idle"] /\ addr = [d \in Devices |-> 0]
    /\ again = [d \in Devices |-> 0] /\ goal = [d \in Devices |-> "up"]
    /\ used = [d \in Devices |-> Nobody] /\ records = [d \in Devices |-> Nobody]
    /\ fresh = [d \in Devices |-> {}] /\ cur = [d \in Devices |-> 0]
    /\ tries = [d \in Devices |-> 0] /\ counted = [d \in Devices |-> 0]
    /\ robbed = {} /\ reused = {} /\ full = {}
    /\ overlap = FALSE /\ uncounted = FALSE /\ leaked = FALSE
    /\ budget \in Budgets

Connect(d) == InitDHCP(d) \/ GenerateTunIP(d) \/ RentIP(d) \/ Rented(d) \/ RecordMac(d)

Dial(d) ==
    \/ ConnectFails(d) \/ GetPod(d) \/ CreatePod(d) \/ PodAlreadyExists(d)
    \/ Increment(d) \/ TunnelUp(d) \/ NoTunnel(d) \/ Redial(d)

Again(d) ==
    \/ PrepareAgain(d) \/ GenerateAgain(d) \/ RentAgain(d) \/ RentedAgain(d) \/ RecordAgain(d)

Leave(d) ==
    \/ ReleaseIP(d) \/ ReleaseRead(d) \/ ReleaseFree(d) \/ ReleaseDelete(d)
    \/ Decrement(d) \/ CleanUp(d) \/ DeleteMap(d) \/ DeletePod(d)

Next ==
    \E d \in Devices :
        Connect(d) \/ Dial(d) \/ Reverse(d) \/ Reversed(d) \/ Again(d) \/ Leave(d) \/ Crash(d)

Spec == Init /\ [][Next]_vars

-----------------------------------------------------------------------------
AgainLabels == {"regenerate", "rerent", "rerented", "rerecord"}

Labels ==
    {"idle", "generate", "rent", "rented", "record", "port", "create", "increment",
     "incremented", "start", "up", "reversed", "release", "read", "free", "delete",
     "decrement", "decremented", "clean", "deleteMap", "deletePod"} \cup AgainLabels

(* Types.  What the daemons write keeps every address below the modulus,   *)
(* and there are no records without a config map.                          *)
TypeOK ==
    /\ cm \in ConfigMaps /\ (~ cm.exists => cm = NoMap)
    /\ mine \subseteq Devices /\ ref \in Int \cup {NoPod}
    /\ pc \in [Devices -> Labels]
    /\ again \in [Devices -> Ips] /\ goal \in [Devices -> {"up", "release"}]
    /\ addr \in [Devices -> Ips] /\ used \in [Devices -> Leases]
    /\ records \in [Devices -> Records] /\ fresh \in [Devices -> SUBSET {"outer", "inner"}]
    /\ cur \in [Devices -> Int] /\ tries \in [Devices -> 0..Retries]
    /\ counted \in [Devices -> Int]
    /\ robbed \subseteq Devices /\ reused \subseteq Devices /\ full \subseteq Devices
    /\ {overlap, uncounted, leaked} \subseteq BOOLEAN

Up(d) == pc[d] \in {"up", "reversed"} \cup AgainLabels

(* Two devices that are connected have different tunnel addresses, except  *)
(* in three ways the code leaves open: the lease of one of them was        *)
(* dropped by a write of another device (a patch of an old field, a text   *)
(* that is not read back, a deleted map), one of them took its address     *)
(* from MAC_TO_IP with no lease, or one rented when none was available.    *)
UniqueAddress ==
    \A d, e \in Devices :
        d # e /\ Up(d) /\ Up(e) /\ addr[d] = addr[e] => {d, e} \cap (robbed \cup reused \cup full) # {}

(* Whatever the devices read and write at the same time, the field DHCP    *)
(* never leases one address to two of them, unless one of them rented when *)
(* none was available: what a race loses is a lease, never its exclusion.  *)
NoDoubleLease ==
    LET l == FromStringToDHCP(cm.dhcp)
    IN  \A d, e \in DOMAIN l : d # e => l[d] \cap l[e] = {} \/ {d, e} \cap full # {}

(* The traffic manager is there while a device uses it, unless two updates *)
(* of the ref-count overlapped or a device that was not counted has        *)
(* decremented it (its connect failed before UpdateRefCount, or            *)
(* UpdateRefCount found no pod).                                           *)
InUseIsKept == \A d \in Devices : Up(d) => ref # NoPod \/ overlap \/ uncounted

(* When every device has disconnected, the traffic manager is cleaned up,  *)
(* unless two updates of the ref-count overlapped, or a device incremented *)
(* it again when it dialled again, or crashed.                             *)
UnusedIsCleaned ==
    (\A d \in Devices : At(d, "idle")) => ref = NoPod \/ overlap \/ leaked
=============================================================================
