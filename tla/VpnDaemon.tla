----------------------------- MODULE VpnDaemon ------------------------------
(***************************************************************************)
(* The VPN of one device.  The user's daemon runs the commands             *)
(* (HandleVPNOperate) and watches the config map of every namespace; the   *)
(* sudo daemon holds the one connection and its tunnel.  What is wanted is *)
(* written in the config maps, where the device is listed as connected;    *)
(* the handlers of the watchers put functions on a channel, and one        *)
(* goroutine runs them to make the sudo daemon follow.                     *)
(*                                                                         *)
(* Of the config maps, the uid and whether they list this device are kept; *)
(* this device's merge patch that lists it or not has the same effect on   *)
(* that whatever was read before it, so the Get and the Patch of such an   *)
(* update are one step.  Another device's patch writes back what it had    *)
(* read of this one's listing, so there they are two.  VpnMap has the      *)
(* other fields and the other devices.                                     *)
(***************************************************************************)
EXTENDS Naturals, Sequences, FiniteSets

CONSTANTS
    Namespaces,   \* namespaces, each with its kubeconfig
    None,         \* no namespace, no caller
    Worker,       \* the goroutine that runs the functions of the channel
    Commands,     \* goroutines of HandleVPNOperate
    Slots,        \* goroutines of the sudo daemon that keep a tunnel up
    ChanSize,     \* bound: capacity of funcChan
    MaxUid,       \* bound: config maps that are ever created
    Budgets       \* bounds: how many commands in each namespace, dials that fail and tunnels
                  \* that break, writes of other devices, restarts of a daemon, new lists of
                  \* an informer and health checks a behaviour may have

ASSUME VpnDaemonAssumption ==
    /\ None \notin Namespaces \cup Commands \cup {Worker} /\ Worker \notin Commands
    /\ ChanSize \in Nat \ {0} /\ MaxUid \in Nat
    /\ Budgets \subseteq [cmds : [Namespaces -> Nat], fails : Nat, others : Nat, crashes : Nat,
                        lists : Nat, checks : Nat]

VARIABLES
    cm,        \* cm[n]: the config map of n: its uid, and is this device listed
    created,   \* uids given so far
    pend,      \* pend[n]: versions of cm[n] the watcher has not handled
    store,     \* store[n]: the version it handled last
    watched,   \* namespaces with a watcher
    hUid,      \* hUid[n]: the uid its resourceHandler has noted
    info,      \* connectInfo: the uid and the namespace the user daemon is connected to
    checking,  \* the namespace a health check is about to prepare
    chan,      \* funcChan
    pc,        \* pc[p]: the next step of p
    act,       \* act[p]: the sudo call p is in, and where p goes on after it
    job,       \* job[p]: the command, or the function of the channel, that p runs
    ns,        \* ns[p]: the namespace p is leaving
    uid,       \* uid[p]: the uid its last Prepare found
    connected, \* the connection of the sudo daemon
    lock,      \* who holds the sudo daemon's lock
    tun,       \* tun[i]: the state of tunnel goroutine i and the caller that waits for it
    cancels,   \* CancelFunctions
    read,      \* what another device has read of a listing and is going to write back
    raced,     \* history: an unlocked disconnect overlapped with a change of connected
    missed,    \* history: namespaces where an informer has not seen that the map was made anew
    listed,    \* history: uids of the maps that have listed this device
    causes,    \* history: what may make a connection outlast its listing
    budget     \* what is left of the budget

others == <<read, listed, causes>>
cluster == <<cm, created, pend, others>>
handler == <<store, hUid, info, missed, checking>>
watcher == <<watched, handler>>
caller == <<act, job, ns, uid>>
sudo == <<connected, lock, tun, cancels, raced>>
vars == <<cluster, watcher, chan, pc, caller, sudo, budget>>

Callers == Commands \cup {Worker}

NoMap == [uid |-> 0, mine |-> FALSE]

(* ConnectInfo and ConnectOptions: nothing, or a uid and its namespace. *)
Empty == [uid |-> 0, ns |-> None]

(* No other device is between its read and its write. *)
NoRead == [ns |-> None, mine |-> FALSE]

Uids == 0..MaxUid

Maps == [uid : Uids, mine : BOOLEAN]

Links == [uid : Uids, ns : Namespaces \cup {None}]

Kinds == {"follow", "leave", "connect", "reconnect", "disconnect", "none"}

(* A command, or a function of the channel with the ConnectInfo that it    *)
(* has captured.                                                           *)
Job(k, n, b) == [kind |-> k, ns |-> n, backup |-> b]

NoJob == Job("none", None, Empty)

Jobs == [kind : Kinds, ns : Namespaces \cup {None}, backup : Links]

-----------------------------------------------------------------------------
(* The API server: a version that differs is stored and sent to a watcher. *)
Put(n, v) ==
    /\ cm' = [cm EXCEPT ![n] = v]
    /\ pend' = IF n \in watched /\ v # cm[n] THEN [pend EXCEPT ![n] = Append(@, v)] ELSE pend

(* A merge patch: there is nothing to patch when the map is missing. *)
Patch(n, v) == IF cm[n].uid = 0 THEN UNCHANGED <<cm, pend>> ELSE Put(n, v)

(* Why a connection may outlast its listing: the device was taken off      *)
(* while a command was connecting it, an informer skipped a version, the   *)
(* user daemon was restarted.                                              *)
Causes == {"overtaken", "skipped", "restarted"}

Note(cause, if) == causes' = IF if THEN causes \cup {cause} ELSE causes

Spend(what) == budget[what] > 0 /\ budget' = [budget EXCEPT ![what] = @ - 1]

Goto(p, l) == pc' = [pc EXCEPT ![p] = l]

At(p, l) == pc[p] = l

(* GetOrGenerateConfigMapWatcher: the informer starts with a list. *)
Watch(n) ==
    /\ watched' = watched \cup {n}
    /\ pend' = IF n \in watched \/ cm[n] = NoMap THEN pend ELSE [pend EXCEPT ![n] = <<cm[n]>>]

(* Prepare: InitDHCPIfNecessary makes the config map if there is none, and *)
(* its uid becomes that of the ConnectOptions.                             *)
Prepare(n, u) ==
    \/ cm[n].uid # 0 /\ u = cm[n].uid /\ UNCHANGED cluster
    \/ /\ cm[n].uid = 0 /\ created < MaxUid
       /\ u = created + 1 /\ created' = u /\ UNCHANGED others
       /\ Put(n, [NoMap EXCEPT !.uid = u])

PrepareFails(n) == cm[n].uid = 0 /\ created = MaxUid

-----------------------------------------------------------------------------
(* The sudo daemon: HandleSudoVPNOperate on behalf of caller p. *)

Running == {i \in Slots : tun[i].st \in {"dial", "up"}}

Answer(p, r) == Goto(p, IF r THEN act[p].yes ELSE act[p].no)

(* p asks for op on namespace n, and goes on at yes or at no. *)
Send(p, op, n, yes, no) ==
    /\ act' = [act EXCEPT ![p] = [op |-> op, ns |-> n, yes |-> yes, no |-> no]]
    /\ Goto(p, "prepare")

SudoPrepare(p) ==
    /\ At(p, "prepare")
    /\ \/ \E u \in Uids :
            /\ Prepare(act[p].ns, u)
            /\ uid' = [uid EXCEPT ![p] = u]
            /\ Goto(p, act[p].op)
       \/ PrepareFails(act[p].ns) /\ Answer(p, FALSE) /\ UNCHANGED <<cluster, uid>>
    /\ UNCHANGED <<watcher, chan, act, job, ns, connected, lock, tun, cancels, raced, budget>>

(* Connected already: p waits for the traffic manager to have an address,  *)
(* or is refused.                                                          *)
SudoConnected(p) ==
    /\ At(p, "Connect") /\ lock = None /\ connected # Empty
    /\ Answer(p, connected.uid = uid[p])
    /\ UNCHANGED <<cluster, watcher, chan, act, job, ns, uid, sudo, budget>>

(* A goroutine is started that dials; p is answered when it is through. *)
SudoConnect(p) ==
    /\ At(p, "Connect") /\ lock = None /\ connected = Empty
    /\ connected' = [uid |-> uid[p], ns |-> act[p].ns]
    /\ \E i \in {j \in Slots : tun[j].st = "off"} :
          /\ tun' = [tun EXCEPT ![i] = [st |-> "dial", for |-> p]]
          /\ cancels' = cancels \cup {i}
    /\ raced' = (raced \/ \E i \in Slots : tun[i].st = "release")
    /\ Goto(p, "dialing")
    /\ UNCHANGED <<cluster, watcher, chan, caller, lock, budget>>

(* DisConnect of nothing, or of something else. *)
SudoDisConnectRefused(p) ==
    /\ At(p, "DisConnect") /\ lock = None
    /\ connected = Empty \/ connected.uid # uid[p]
    /\ Answer(p, connected = Empty)
    /\ UNCHANGED <<cluster, watcher, chan, act, job, ns, uid, sudo, budget>>

(* Mutant: a tunnel that is still dialling is not cancelled. *)
CancelledUp(t) ==
    [i \in Slots |-> IF i \in cancels /\ t[i].st = "up" THEN [st |-> "off", for |-> None] ELSE t[i]]

(* disconnect() begins with every function of CancelFunctions: a tunnel    *)
(* that is up ends, one that is still dialling is about to fail.           *)
Cancelled(t) ==
    [i \in Slots |-> IF i \notin cancels THEN t[i]
                     ELSE IF t[i].st = "up" THEN [st |-> "off", for |-> None]
                     ELSE IF t[i].st = "dial" THEN [t[i] EXCEPT !.st = "fail"] ELSE t[i]]

SudoDisConnect(p) ==
    /\ At(p, "DisConnect") /\ lock = None
    /\ connected # Empty /\ connected.uid = uid[p]
    /\ lock' = p /\ tun' = Cancelled(tun) /\ cancels' = {}
    /\ Goto(p, "release")
    /\ UNCHANGED <<cluster, watcher, chan, caller, connected, raced, budget>>

(* ... then it releases the address, takes itself off the traffic manager  *)
(* and, when nobody else is on it, deletes the config map.                 *)
CleanUp ==
    \/ connected # Empty /\ Put(connected.ns, NoMap)
    \/ UNCHANGED <<cm, pend>>

SudoRelease(p) ==
    /\ At(p, "release")
    /\ CleanUp
    /\ connected' = Empty /\ lock' = None
    /\ Answer(p, TRUE)
    /\ UNCHANGED <<created, others, watcher, chan, act, job, ns, uid, tun, cancels, raced, budget>>

(* The caller is answered after the first dial; nobody waits for another. *)
Reply(i, r) == IF tun[i].for = None THEN UNCHANGED pc ELSE Answer(tun[i].for, r)

(* DoConnect has succeeded: the tunnel is up, or ends because it had been  *)
(* cancelled already.                                                      *)
TunnelUp(i) ==
    /\ tun[i].st \in {"dial", "fail"}
    /\ tun' = [tun EXCEPT ![i] = [st |-> IF @.st = "dial" THEN "up" ELSE "off", for |-> None]]
    /\ Reply(i, TRUE)
    /\ UNCHANGED <<cluster, watcher, chan, act, job, ns, uid, connected, lock, cancels, raced, budget>>

(* DoConnect has failed, of itself or because it was cancelled.  The       *)
(* goroutine calls disconnect() without the lock.                          *)
TunnelFails(i) ==
    /\ \/ tun[i].st = "fail" /\ UNCHANGED budget
       \/ /\ tun[i].st = "dial" /\ Spend("fails")
    /\ tun' = [Cancelled(tun) EXCEPT ![i] = [st |-> "release", for |-> None]]
    /\ cancels' = {}
    /\ Reply(i, FALSE)
    /\ UNCHANGED <<cluster, watcher, chan, act, job, ns, uid, connected, lock, raced>>

(* The tunnel breaks, or its errChan yields nil: the goroutine dials again. *)
TunnelBreaks(i) ==
    /\ tun[i].st = "up" /\ Spend("fails")
    /\ tun' = [tun EXCEPT ![i].st = "dial"]
    /\ UNCHANGED <<cluster, watcher, chan, pc, caller, connected, lock, cancels, raced>>

TunnelReleases(i) ==
    /\ tun[i].st = "release"
    /\ CleanUp
    /\ connected' = Empty
    /\ tun' = [tun EXCEPT ![i].st = "off"]
    /\ UNCHANGED <<created, others, watcher, chan, pc, caller, lock, cancels, raced, budget>>

-----------------------------------------------------------------------------
(* The user daemon leaves ns[p]: disconnectedFromNamespace. *)

Leave(p, n) == ns' = [ns EXCEPT ![p] = n] /\ Goto(p, "unlist")

(* Where p goes on: a function of the channel whatever the answer is. *)
SendLeave(p) ==
    LET k == job[p].kind
    IN  Send(p, "DisConnect", ns[p],
             IF k = "follow" THEN "check" ELSE IF k = "connect" THEN "list" ELSE "idle",
             IF k = "follow" THEN "check" ELSE "idle")

InSudo(p) == pc[p] \in {"prepare", "Connect", "DisConnect", "dialing", "release"}

(* The Connect field of n's map no longer lists this device. *)
Delete(n) ==
    /\ Patch(n, [cm[n] EXCEPT !.mine = FALSE])
    /\ Note("overtaken", \E p \in Commands : InSudo(p) /\ act[p].op = "Connect" /\ act[p].ns = n)
    /\ UNCHANGED listed

(* The device is no longer listed, and the sudo daemon is to disconnect. *)
Unlist(p) ==
    /\ At(p, "unlist")
    /\ Delete(ns[p])
    /\ SendLeave(p)
    /\ UNCHANGED <<created, read, watcher, chan, job, ns, uid, sudo, budget>>

-----------------------------------------------------------------------------
(* Commands: HandleVPNOperate. *)

Operate(p) ==
    /\ At(p, "idle")
    /\ \E k \in {"connect", "reconnect", "disconnect"}, n \in Namespaces, u \in Uids :
          /\ budget.cmds[n] > 0 /\ budget' = [budget EXCEPT !.cmds[n] = @ - 1]
          /\ Prepare(n, u)
          /\ job' = [job EXCEPT ![p] = Job(k, n, Empty)]
          /\ uid' = [uid EXCEPT ![p] = u]
    /\ Goto(p, "init")
    /\ UNCHANGED <<watcher, chan, act, ns, sudo>>

(* InitDHCPIfNecessary once more: the map may have been deleted since; the *)
(* uid of the ConnectOptions stays that of Prepare.                        *)
InitAgain(p) ==
    /\ At(p, "init")
    /\ \/ (\E u \in Uids : Prepare(job[p].ns, u)) /\ Goto(p, "operate")
       \/ PrepareFails(job[p].ns) /\ Goto(p, "idle") /\ UNCHANGED cluster
    /\ UNCHANGED <<watcher, chan, caller, sudo, budget>>

(* The watcher is made if need be, and the command goes its way: to        *)
(* connect, another namespace is left first.                               *)
Decide(p) ==
    LET j == job[p]
    IN  /\ At(p, "operate") /\ Watch(j.ns)
        /\ CASE j.kind = "disconnect" -> Leave(p, j.ns)
             [] j.kind = "connect" /\ info.uid \notin {0, uid[p]} -> Leave(p, info.ns)
             [] OTHER -> Goto(p, "list") /\ UNCHANGED ns
        /\ UNCHANGED <<cm, created, others, handler, chan, act, job, uid, sudo, budget>>

(* A workload was named: to connect, and it is reversed already, or to     *)
(* disconnect, and it was not reversed or not the last one.                *)
Stay(p) ==
    /\ At(p, "operate") /\ job[p].kind # "reconnect" /\ Watch(job[p].ns)
    /\ Goto(p, "idle")
    /\ UNCHANGED <<cm, created, others, handler, chan, caller, sudo, budget>>

(* The Connect field of n's map lists this device. *)
Insert(n) ==
    /\ Put(n, [cm[n] EXCEPT !.mine = TRUE])
    /\ listed' = listed \cup {cm[n].uid}
    /\ UNCHANGED causes

(* connectToNamespace: the device is listed, and the sudo daemon called. *)
List(p) ==
    LET n == job[p].ns
    IN  /\ At(p, "list")
        /\ IF cm[n].uid = 0
             THEN Goto(p, "idle") /\ UNCHANGED <<cluster, act>>
             ELSE /\ Insert(n)
                  /\ Send(p, "Connect", n, "idle", "idle")
                  /\ UNCHANGED <<created, read>>
        /\ UNCHANGED <<watcher, chan, job, ns, uid, sudo, budget>>

-----------------------------------------------------------------------------
(* The goroutine of funcChan. *)

Take ==
    LET f == Head(chan)
    IN  /\ At(Worker, "idle") /\ chan # << >>
        /\ chan' = Tail(chan) /\ job' = [job EXCEPT ![Worker] = f]
        /\ CASE f.kind = "leave" -> Goto(Worker, "gone") /\ UNCHANGED ns
             [] f.kind = "follow" /\ f.backup.uid \notin {0, hUid[f.ns]} -> Leave(Worker, f.backup.ns)
             [] OTHER -> Goto(Worker, "check") /\ UNCHANGED ns
        /\ UNCHANGED <<cluster, watcher, act, uid, sudo, budget>>

(* notifySudoDaemonToConnect asks where the sudo daemon is. *)
Check ==
    LET n == job[Worker].ns
    IN  /\ At(Worker, "check")
        /\ CASE connected.uid = 0 -> Send(Worker, "Connect", n, "idle", "idle")
             [] connected.uid # 0 /\ connected.uid = hUid[n] -> Goto(Worker, "idle") /\ UNCHANGED act
             [] OTHER -> Send(Worker, "DisConnect", connected.ns, "switched", "idle")
        /\ UNCHANGED <<cluster, watcher, chan, job, ns, uid, sudo, budget>>

Switched ==
    /\ At(Worker, "switched")
    /\ Send(Worker, "Connect", job[Worker].ns, "idle", "idle")
    /\ UNCHANGED <<cluster, watcher, chan, job, ns, uid, sudo, budget>>

(* notifySudoDaemonToDisConnect. *)
Gone ==
    LET n == job[Worker].ns
    IN  /\ At(Worker, "gone")
        /\ IF connected.uid \in {0} \/ connected.uid # hUid[n]
             THEN Goto(Worker, "idle") /\ UNCHANGED act
             ELSE Send(Worker, "DisConnect", n, "idle", "idle")
        /\ UNCHANGED <<cluster, watcher, chan, job, ns, uid, sudo, budget>>

-----------------------------------------------------------------------------
(* The watchers: resourceHandler. *)

(* Mutant: the channel has no end. *)
EnqueueUnbounded(f) == chan' = Append(chan, f)

(* A full channel blocks the handler. *)
Enqueue(f) == Len(chan) < ChanSize /\ chan' = Append(chan, f)

(* The map lists this device: the daemon follows it. *)
Follow(n, h) ==
    /\ info' = [uid |-> h, ns |-> n]
    /\ Enqueue(Job("follow", n, info))

OnAdd(n, new) ==
    /\ hUid' = [hUid EXCEPT ![n] = new.uid]
    /\ IF new.mine THEN Follow(n, new.uid) ELSE UNCHANGED <<info, chan>>

(* Mutant: only a change of the listing is followed. *)
OnUpdateOnce(n, old, new) ==
    /\ CASE new.mine /\ ~old.mine -> Follow(n, hUid[n])
         [] ~new.mine /\ old.mine /\ info.uid = hUid[n] ->
                info' = Empty /\ Enqueue(Job("leave", n, Empty))
         [] OTHER -> UNCHANGED <<info, chan>>
    /\ UNCHANGED hUid

(* Mutant: the sudo daemon is not told. *)
OnUpdateSilent(n, old, new) ==
    /\ CASE new.mine -> Follow(n, hUid[n])
         [] ~new.mine /\ old.mine /\ info.uid = hUid[n] -> info' = Empty /\ UNCHANGED chan
         [] OTHER -> UNCHANGED <<info, chan>>
    /\ UNCHANGED hUid

OnUpdate(n, old, new) ==
    /\ CASE new.mine -> Follow(n, hUid[n])
         [] ~new.mine /\ old.mine /\ info.uid = hUid[n] ->
                info' = Empty /\ Enqueue(Job("leave", n, Empty))
         [] OTHER -> UNCHANGED <<info, chan>>
    /\ UNCHANGED hUid

OnDelete(n, old) ==
    /\ IF old.mine /\ info.uid = hUid[n]
         THEN info' = Empty /\ Enqueue(Job("leave", n, Empty))
         ELSE UNCHANGED <<info, chan>>
    /\ UNCHANGED hUid

(* The informer hands the next version to the handler. *)
Handle(n) ==
    /\ pend[n] # << >>
    /\ LET new == Head(pend[n])
           old == store[n]
       IN  /\ pend' = [pend EXCEPT ![n] = Tail(@)]
           /\ store' = [store EXCEPT ![n] = new]
           /\ missed' = IF old.uid = 0 THEN missed \ {n}
                        ELSE IF new.uid \notin {0, old.uid} THEN missed \cup {n} ELSE missed
           /\ IF old.uid = 0 THEN OnAdd(n, new)
              ELSE IF new.uid = 0 THEN OnDelete(n, old)
              ELSE OnUpdate(n, old, new)
    /\ UNCHANGED <<cm, created, others, watched, checking, pc, caller, sudo, budget>>

(* The informer's watch breaks and it lists again: it sees what is there   *)
(* now, and a map that was deleted and made anew in between is an update.  *)
Relist(n) ==
    /\ n \in watched /\ Spend("lists")
    /\ pend' = [pend EXCEPT ![n] = IF cm[n] = store[n] THEN << >> ELSE <<cm[n]>>]
    /\ Note("skipped", \E i \in DOMAIN pend[n] : pend[n][i] \notin {store[n], cm[n]})
    /\ UNCHANGED <<cm, created, read, listed, watcher, chan, pc, caller, sudo>>

(* Every five seconds it hands over again what it has. *)
Resync(n) ==
    /\ store[n].uid # 0
    /\ OnUpdate(n, store[n], store[n])
    /\ UNCHANGED <<cluster, store, watched, missed, checking, pc, caller, sudo, budget>>

(* A list of namespaces makes the watchers that are missing. *)
WatchNamespace(n) ==
    /\ n \notin watched /\ Watch(n)
    /\ UNCHANGED <<cm, created, others, handler, chan, pc, caller, sudo, budget>>

(* checkReverse, of a namespace whose status is known while the daemon is  *)
(* connected ...                                                           *)
CheckReverse(n) ==
    /\ checking = None /\ Spend("checks")
    /\ info # Empty /\ store[n].uid # 0
    /\ checking' = n
    /\ UNCHANGED <<cluster, watched, store, hUid, info, missed, chan, pc, caller, sudo>>

(* ... prepares it, which makes a map that is missing by then. *)
CheckPrepares ==
    /\ checking # None /\ checking' = None
    /\ \/ \E u \in Uids : Prepare(checking, u)
       \/ PrepareFails(checking) /\ UNCHANGED cluster
    /\ UNCHANGED <<watched, store, hUid, info, missed, chan, pc, caller, sudo, budget>>

-----------------------------------------------------------------------------
(* Another device takes the last reference off the traffic manager. *)
OthersDelete(n) ==
    /\ Spend("others")
    /\ cm[n].uid # 0 /\ Put(n, NoMap)
    /\ UNCHANGED <<created, others, watcher, chan, pc, caller, sudo>>

(* Another device lists itself, or takes itself off: it reads the Connect  *)
(* field ...                                                               *)
OthersRead(n) ==
    /\ Spend("others")
    /\ read = NoRead /\ cm[n].uid # 0
    /\ read' = [ns |-> n, mine |-> cm[n].mine]
    /\ UNCHANGED <<cm, created, pend, listed, causes, watcher, chan, pc, caller, sudo>>

(* ... and patches the whole field, with no version to hold it back. *)
OthersPatch ==
    LET n == read.ns
    IN  /\ n # None /\ read' = NoRead
        /\ IF cm[n].uid # 0 /\ read.mine
             THEN Insert(n)
             ELSE Delete(n)
        /\ UNCHANGED <<created, watcher, chan, pc, caller, sudo, budget>>

(* The sudo daemon is restarted: calls under way fail. *)
SudoRestarts ==
    /\ Spend("crashes")
    /\ connected' = Empty /\ lock' = None /\ cancels' = {} /\ raced' = FALSE
    /\ tun' = [i \in Slots |-> [st |-> "off", for |-> None]]
    /\ pc' = [p \in Callers |-> IF InSudo(p) THEN act[p].no ELSE pc[p]]
    /\ UNCHANGED <<cluster, watcher, chan, caller>>

(* The user daemon is restarted: the sudo daemon goes on with the calls it *)
(* has, and nobody waits for the answer.                                   *)
UserRestarts ==
    /\ Spend("crashes")
    /\ info' = Empty /\ chan' = << >> /\ watched' = {}
    /\ store' = [n \in Namespaces |-> NoMap] /\ pend' = [n \in Namespaces |-> << >>]
    /\ hUid' = [n \in Namespaces |-> 0] /\ missed' = {} /\ checking' = None
    /\ act' = [p \in Callers |-> [act[p] EXCEPT !.yes = "idle", !.no = "idle"]]
    /\ pc' = [p \in Callers |-> IF InSudo(p) THEN pc[p] ELSE "idle"]
    /\ Note("restarted", TRUE)
    /\ UNCHANGED <<cm, created, read, listed, job, ns, uid, sudo>>

-----------------------------------------------------------------------------
Init ==
    /\ cm = [n \in Namespaces |-> NoMap] /\ created = 0
    /\ pend = [n \in Namespaces |-> << >>]
    /\ store = cm /\ watched = Namespaces /\ hUid = [n \in Namespaces |-> 0]
    /\ info = Empty /\ missed = {} /\ checking = None
    /\ chan = << >>
    /\ pc = [p \in Callers |-> "idle"]
    /\ act = [p \in Callers |-> [op |-> "none", ns |-> None, yes |-> "idle", no |-> "idle"]]
    /\ job = [p \in Callers |-> NoJob]
    /\ ns = [p \in Callers |-> None] /\ uid = [p \in Callers |-> 0]
    /\ connected = Empty /\ lock = None /\ cancels = {}
    /\ tun = [i \in Slots |-> [st |-> "off", for |-> None]]
    /\ raced = FALSE /\ read = NoRead /\ listed = {} /\ causes = {}
    /\ budget \in Budgets

SudoStep(p) ==
    \/ SudoPrepare(p) \/ SudoConnected(p) \/ SudoConnect(p)
    \/ SudoDisConnectRefused(p) \/ SudoDisConnect(p) \/ SudoRelease(p)

CommandStep(p) == InitAgain(p) \/ Decide(p) \/ Stay(p) \/ List(p)

WorkerStep == Take \/ Check \/ Switched \/ Gone

TunnelStep(i) == TunnelUp(i) \/ TunnelFails(i) \/ TunnelReleases(i)

Next ==
    \/ \E p \in Commands : Operate(p) \/ CommandStep(p)
    \/ \E p \in Callers : SudoStep(p) \/ Unlist(p)
    \/ WorkerStep
    \/ \E i \in Slots : TunnelStep(i) \/ TunnelBreaks(i)
    \/ \E n \in Namespaces : Handle(n) \/ Relist(n) \/ Resync(n) \/ WatchNamespace(n)
    \/ \E n \in Namespaces : CheckReverse(n) \/ OthersDelete(n) \/ OthersRead(n)
    \/ CheckPrepares \/ OthersPatch
    \/ SudoRestarts \/ UserRestarts

Spec == Init /\ [][Next]_vars

(* Every goroutine goes on, every informer hands over what it has, and the *)
(* namespaces are listed again after a restart.  Commands, failures,       *)
(* restarts and other devices owe nothing.                                 *)
Fairness ==
    /\ \A p \in Callers : WF_vars(SudoStep(p)) /\ WF_vars(Unlist(p))
    /\ \A p \in Commands : WF_vars(CommandStep(p))
    /\ WF_vars(WorkerStep)
    /\ \A i \in Slots : WF_vars(TunnelStep(i))
    /\ \A n \in Namespaces : SF_vars(Handle(n)) /\ SF_vars(Resync(n)) /\ WF_vars(WatchNamespace(n))

FairSpec == Spec /\ Fairness

-----------------------------------------------------------------------------
Labels ==
    {"idle", "init", "operate", "list", "unlist",
     "check", "switched", "gone", "prepare", "Connect", "DisConnect", "dialing", "release"}

(* Types. *)
TypeOK ==
    /\ cm \in [Namespaces -> Maps] /\ created \in Uids
    /\ pend \in [Namespaces -> Seq(Maps)]
    /\ store \in [Namespaces -> Maps] /\ watched \subseteq Namespaces
    /\ hUid \in [Namespaces -> Uids] /\ info \in Links
    /\ missed \subseteq Namespaces /\ checking \in Namespaces \cup {None}
    /\ chan \in Seq(Jobs) /\ Len(chan) <= ChanSize
    /\ pc \in [Callers -> Labels]
    /\ act \in [Callers -> [op : {"none", "Connect", "DisConnect"}, ns : Namespaces \cup {None},
                            yes : Labels, no : Labels]]
    /\ job \in [Callers -> Jobs]
    /\ ns \in [Callers -> Namespaces \cup {None}] /\ uid \in [Callers -> Uids]
    /\ connected \in Links /\ lock \in Callers \cup {None}
    /\ tun \in [Slots -> [st : {"off", "dial", "up", "fail", "release"}, for : Callers \cup {None}]]
    /\ cancels \subseteq Slots
    /\ read \in [ns : Namespaces \cup {None}, mine : BOOLEAN]
    /\ raced \in BOOLEAN /\ listed \subseteq Uids /\ causes \subseteq Causes
    /\ budget \in [cmds : [Namespaces -> Nat], fails : Nat, others : Nat, crashes : Nat,
                   lists : Nat, checks : Nat]

(* A tunnel that runs is the one of the sudo daemon's connection, and its  *)
(* cancel function is at hand: DisConnect finds it.  The exception is a    *)
(* connection made while a goroutine whose DoConnect failed was inside the *)
(* disconnect() it calls without the lock, which then forgets the new one. *)
TunnelIsKnown ==
    raced \/ (/\ Cardinality(Running) <= 1
              /\ Running \subseteq cancels
              /\ Running # {} => connected # Empty)

(* The config map of the connection is gone, or another one is there. *)
Stale == connected # Empty /\ cm[connected.ns].uid # connected.uid

ConnectedTo(n) == connected.ns = n /\ connected.uid = cm[n].uid

(* "if connect to a cluster, needs to keep it connect": whatever commands, *)
(* failures, restarts and writes of other devices there were, the sudo     *)
(* daemon ends up connected to the namespace whose config map lists the    *)
(* device, and one at most does.  The exceptions: a connection whose own   *)
(* config map has been deleted or made anew, which nothing can disconnect  *)
(* (DeletedIsLeft), so that nothing else can be connected; and a map made  *)
(* anew that an informer took for an update, where the handler goes on     *)
(* with the old uid, and the connection is dropped and made at every       *)
(* resync.                                                                 *)
KeepsConnected ==
    <>[](\A n \in Namespaces : cm[n].mine => ConnectedTo(n) \/ Stale \/ n \in missed)

(* "if connected --> disconnected, needs to notify sudo daemon to          *)
(* disconnect": a connection does not outlast the listing of the device by *)
(* the map that it is made to, whatever fails and whatever other devices   *)
(* write.  A map that never listed the device has no listing to outlast.   *)
(* The exceptions are the Causes.                                          *)
LeavesUnlisted ==
    <>[](\A n \in Namespaces :
            connected # Empty /\ ConnectedTo(n) /\ cm[n].uid \in listed
               => cm[n].mine \/ causes # {})

(* "if this machine is connected, needs to disconnect vpn": a connection   *)
(* whose config map is deleted does not last.                              *)
DeletedIsLeft == [](Stale => <>~Stale)
=============================================================================
