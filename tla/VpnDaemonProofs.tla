--------------------------- MODULE VpnDaemonProofs --------------------------
(***************************************************************************)
(* Proofs about VpnDaemon, for any namespaces, any number of commands and  *)
(* of tunnels, any capacity of the channel and any budgets.                *)
(***************************************************************************)
EXTENDS VpnDaemon, FiniteSetTheorems, TLAPS

-----------------------------------------------------------------------------
(* The type invariant, in the parts that an action may disturb. *)

ClusterOK ==
  cm \in [Namespaces -> Maps] /\ created \in Uids /\ pend \in [Namespaces -> Seq(Maps)]

WatchOK ==
  /\ store \in [Namespaces -> Maps] /\ watched \subseteq Namespaces
  /\ hUid \in [Namespaces -> Uids] /\ info \in Links
  /\ missed \subseteq Namespaces /\ checking \in Namespaces \cup {None}

ChanOK == chan \in Seq(Jobs) /\ Len(chan) <= ChanSize

Calls == [op : {"none", "Connect", "DisConnect"}, ns : Namespaces \cup {None},
          yes : Labels, no : Labels]

CallerOK ==
  /\ pc \in [Callers -> Labels] /\ act \in [Callers -> Calls] /\ job \in [Callers -> Jobs]
  /\ ns \in [Callers -> Namespaces \cup {None}] /\ uid \in [Callers -> Uids]

Tunnels == [st : {"off", "dial", "up", "fail", "release"}, for : Callers \cup {None}]

SudoOK ==
  /\ connected \in Links /\ lock \in Callers \cup {None}
  /\ tun \in [Slots -> Tunnels] /\ cancels \subseteq Slots

BudgetOK == budget \in [cmds : [Namespaces -> Nat], fails : Nat, others : Nat, crashes : Nat,
                       lists : Nat, checks : Nat]

HistoryOK ==
  /\ read \in [ns : Namespaces \cup {None}, mine : BOOLEAN]
  /\ raced \in BOOLEAN /\ listed \subseteq Uids /\ causes \subseteq Causes

LEMMA TypeParts ==
  TypeOK <=> ClusterOK /\ WatchOK /\ ChanOK /\ CallerOK /\ SudoOK /\ BudgetOK /\ HistoryOK
BY DEF TypeOK, ClusterOK, WatchOK, ChanOK, CallerOK, SudoOK, BudgetOK, HistoryOK, Calls, Tunnels

LEMMA TypeWhole ==
  ClusterOK' /\ WatchOK' /\ ChanOK' /\ CallerOK' /\ SudoOK' /\ BudgetOK' /\ HistoryOK' => TypeOK'
BY DEF TypeOK, ClusterOK, WatchOK, ChanOK, CallerOK, SudoOK, BudgetOK, HistoryOK, Calls, Tunnels

(* Where a caller goes on after a call of the sudo daemon. *)
Outside == {"idle", "check", "list", "switched"}

(* Whoever has something to do has a namespace to do it in: the command or *)
(* function that a caller runs, the call it is in, the namespace it        *)
(* leaves, the two connections and the functions of the channel.           *)
CallsNamed ==
  /\ \A p \in Callers : pc[p] # "idle" => job[p].ns \in Namespaces
  /\ \A p \in Callers : InSudo(p) => act[p].ns \in Namespaces /\ act[p].op # "none"
  /\ \A p \in Callers : act[p].yes \in Outside /\ act[p].no \in Outside
  /\ \A p \in Callers : pc[p] = "unlist" => ns[p] \in Namespaces

LinksNamed ==
  /\ info.uid # 0 => info.ns \in Namespaces
  /\ connected # Empty => connected.ns \in Namespaces

JobNamed(j) == j.ns \in Namespaces /\ (j.backup.uid # 0 => j.backup.ns \in Namespaces)

ChanNamed == \A i \in 1..Len(chan) : JobNamed(chan[i])

Named == CallsNamed /\ LinksNamed /\ ChanNamed

NamedInv == TypeOK /\ Named

-----------------------------------------------------------------------------
(* The operators. *)

LEMMA Constants ==
  /\ 0 \in Uids /\ NoMap \in Maps /\ Empty \in Links
  /\ NoJob \in Jobs
  /\ Worker \in Callers /\ Commands \subseteq Callers /\ None \notin Namespaces
BY VpnDaemonAssumption
   DEF Uids, NoMap, Maps, Empty, Links, NoJob, Job, Jobs, Kinds, Callers

LEMMA PutType ==
  ASSUME ClusterOK, NEW n \in Namespaces, NEW v \in Maps, Put(n, v)
  PROVE  cm' \in [Namespaces -> Maps] /\ pend' \in [Namespaces -> Seq(Maps)]
<1>1. pend[n] \in Seq(Maps)
  BY DEF ClusterOK
<1>2. Append(pend[n], v) \in Seq(Maps)
  BY <1>1
<1>3. QED BY <1>2 DEF ClusterOK, Put

LEMMA WatchType ==
  ASSUME ClusterOK, WatchOK, NEW n \in Namespaces, Watch(n)
  PROVE  watched' \subseteq Namespaces /\ pend' \in [Namespaces -> Seq(Maps)]
<1>1. cm[n] \in Maps
  BY DEF ClusterOK
<1>2. <<cm[n]>> \in Seq(Maps)
  BY <1>1
<1>3. QED BY <1>2 DEF ClusterOK, WatchOK, Watch

LEMMA PrepareType ==
  ASSUME ClusterOK, NEW n \in Namespaces, NEW u \in Uids, Prepare(n, u)
  PROVE  ClusterOK' /\ UNCHANGED others
<1>1. CASE UNCHANGED cluster
  BY <1>1 DEF ClusterOK, cluster, others
<1>2. CASE created < MaxUid /\ created' = u /\ UNCHANGED others /\ Put(n, [NoMap EXCEPT !.uid = u])
  <2>1. [NoMap EXCEPT !.uid = u] \in Maps
    BY DEF NoMap, Maps
  <2>2. QED BY <1>2, <2>1, PutType DEF ClusterOK
<1>3. QED BY <1>1, <1>2 DEF Prepare

LEMMA InsertType ==
  ASSUME ClusterOK, HistoryOK, NEW n \in Namespaces, Insert(n), created' = created
  PROVE  ClusterOK' /\ listed' \subseteq Uids /\ causes' = causes
<1>1. cm[n] \in Maps
  BY DEF ClusterOK
<1>2. [cm[n] EXCEPT !.mine = TRUE] \in Maps /\ cm[n].uid \in Uids
  BY <1>1 DEF Maps
<1>3. cm' \in [Namespaces -> Maps] /\ pend' \in [Namespaces -> Seq(Maps)]
  BY <1>2, PutType DEF Insert
<1>4. QED BY <1>2, <1>3 DEF Insert, ClusterOK, HistoryOK

LEMMA DeleteType ==
  ASSUME ClusterOK, HistoryOK, NEW n \in Namespaces, Delete(n), created' = created
  PROVE  ClusterOK' /\ listed' = listed /\ causes' \subseteq Causes
<1>1. cm[n] \in Maps
  BY DEF ClusterOK
<1>2. [cm[n] EXCEPT !.mine = FALSE] \in Maps
  BY <1>1 DEF Maps
<1>3. cm' \in [Namespaces -> Maps] /\ pend' \in [Namespaces -> Seq(Maps)]
  <2>1. CASE Put(n, [cm[n] EXCEPT !.mine = FALSE])
    BY <1>2, <2>1, PutType
  <2>2. CASE UNCHANGED <<cm, pend>>
    BY <2>2 DEF ClusterOK
  <2>3. QED BY <2>1, <2>2 DEF Delete, Patch
<1>4. QED BY <1>3 DEF Delete, Note, ClusterOK, HistoryOK, Causes

LEMMA CleanUpType ==
  ASSUME ClusterOK, LinksNamed, CleanUp
  PROVE  cm' \in [Namespaces -> Maps] /\ pend' \in [Namespaces -> Seq(Maps)]
<1>1. CASE connected # Empty /\ Put(connected.ns, NoMap)
  BY <1>1, PutType, Constants DEF LinksNamed
<1>2. CASE UNCHANGED <<cm, pend>>
  BY <1>2 DEF ClusterOK
<1>3. QED BY <1>1, <1>2 DEF CleanUp

LEMMA CancelledType ==
  ASSUME SudoOK
  PROVE  Cancelled(tun) \in [Slots -> Tunnels]
<1>1. \A i \in Slots : tun[i] \in Tunnels
  BY DEF SudoOK
<1>2. \A t \in Tunnels : [t EXCEPT !.st = "fail"] \in Tunnels
  BY DEF Tunnels
<1>3. [st |-> "off", for |-> None] \in Tunnels
  BY DEF Tunnels
<1>4. QED BY <1>1, <1>2, <1>3 DEF Cancelled

LEMMA SpendType ==
  ASSUME BudgetOK, NEW what \in {"fails", "others", "crashes", "lists", "checks"}, Spend(what)
  PROVE  BudgetOK'
BY DEF BudgetOK, Spend

-----------------------------------------------------------------------------
(* The callers. *)

SudoLabels == {"prepare", "Connect", "DisConnect", "dialing", "release"}

(* A step that moves p on, within the sudo daemon only if it is there. *)
LEMMA MoveCalls ==
  ASSUME CallerOK, CallsNamed, NEW p \in Callers, pc[p] # "idle",
         NEW l \in Labels \ {"unlist"}, l \in SudoLabels => InSudo(p), Goto(p, l),
         UNCHANGED <<act, job, ns>>, uid' \in [Callers -> Uids]
  PROVE  CallerOK' /\ CallsNamed'
<1>1. CallerOK'
  BY DEF CallerOK, Goto
<1>2. pc' = [pc EXCEPT ![p] = l] /\ pc \in [Callers -> Labels]
  BY DEF CallerOK, Goto
<1>3. \A q \in Callers : InSudo(q)' => InSudo(q)
  BY <1>2 DEF InSudo, SudoLabels
<1>4. \A q \in Callers : pc'[q] # "idle" => pc[q] # "idle"
  BY <1>2
<1>5. \A q \in Callers : pc'[q] = "unlist" => pc[q] = "unlist"
  BY <1>2
<1>6. CallsNamed'
  BY <1>3, <1>4, <1>5 DEF CallsNamed
<1>7. QED BY <1>1, <1>6

LEMMA AnswerCalls ==
  ASSUME CallerOK, CallsNamed, NEW p \in Callers, pc[p] # "idle", NEW r, Answer(p, r),
         UNCHANGED <<act, job, ns, uid>>
  PROVE  CallerOK' /\ CallsNamed'
<1>1. PICK l \in Outside : Goto(p, l)
  BY DEF Answer, CallsNamed
<1>2. l \in Labels \ {"unlist"} /\ l \notin SudoLabels
  BY DEF Outside, Labels, SudoLabels
<1>3. uid' \in [Callers -> Uids]
  BY DEF CallerOK
<1>4. QED BY <1>1, <1>2, <1>3, MoveCalls

LEMMA SendCalls ==
  ASSUME CallerOK, CallsNamed, NEW p \in Callers, pc[p] # "idle",
         NEW op \in {"Connect", "DisConnect"}, NEW n \in Namespaces,
         NEW yes \in Outside, NEW no \in Outside,
         Send(p, op, n, yes, no), UNCHANGED <<job, ns, uid>>
  PROVE  CallerOK' /\ CallsNamed'
<1> DEFINE c == [op |-> op, ns |-> n, yes |-> yes, no |-> no]
<1>1. Outside \subseteq Labels /\ "prepare" \in Labels
  BY DEF Outside, Labels
<1>2. c \in Calls /\ c.ns = n /\ c.op = op /\ c.yes = yes /\ c.no = no
  BY <1>1 DEF Calls
<1> HIDE DEF c
<1>3. /\ act' = [act EXCEPT ![p] = c] /\ pc' = [pc EXCEPT ![p] = "prepare"]
      /\ pc \in [Callers -> Labels] /\ act \in [Callers -> Calls]
  BY DEF Send, Goto, c, CallerOK
<1>4. CallerOK'
  BY <1>1, <1>2, <1>3 DEF CallerOK
<1>5. \A q \in Callers \ {p} : pc'[q] = pc[q] /\ act'[q] = act[q]
  BY <1>3
<1>6. pc'[p] = "prepare" /\ act'[p] = c
  BY <1>3
<1>7. CallsNamed'
  BY <1>2, <1>5, <1>6 DEF CallsNamed, InSudo
<1>8. QED BY <1>4, <1>7

LEMMA LeaveCalls ==
  ASSUME CallerOK, CallsNamed, NEW p \in Callers, pc[p] # "idle", NEW n \in Namespaces,
         Leave(p, n), UNCHANGED <<act, job, uid>>
  PROVE  CallerOK' /\ CallsNamed'
<1>1. /\ ns' = [ns EXCEPT ![p] = n] /\ pc' = [pc EXCEPT ![p] = "unlist"]
      /\ pc \in [Callers -> Labels] /\ ns \in [Callers -> Namespaces \cup {None}]
  BY DEF Leave, Goto, CallerOK
<1>2. CallerOK'
  BY <1>1 DEF CallerOK, Labels
<1>3. /\ \A q \in Callers \ {p} : pc'[q] = pc[q] /\ ns'[q] = ns[q]
      /\ pc'[p] = "unlist" /\ ns'[p] = n
  BY <1>1
<1>4. CallsNamed'
  BY <1>3 DEF CallsNamed, InSudo
<1>5. QED BY <1>2, <1>4

LEMMA NamedInit == Init => NamedInv
<1> SUFFICES ASSUME Init PROVE NamedInv
  OBVIOUS
<1>1. << >> \in Seq(Maps) /\ << >> \in Seq(Jobs) /\ Len(<< >>) = 0
  OBVIOUS
<1>2. ClusterOK
  BY <1>1, Constants DEF Init, ClusterOK
<1>3. WatchOK
  BY <1>2, Constants DEF Init, WatchOK, ClusterOK
<1>4. ChanOK /\ ChanNamed
  BY <1>1, VpnDaemonAssumption DEF Init, ChanOK, ChanNamed
<1>5. CallerOK
  BY Constants DEF Init, CallerOK, Labels, Calls
<1>6. SudoOK /\ HistoryOK /\ BudgetOK
  BY Constants, VpnDaemonAssumption DEF Init, SudoOK, Tunnels, HistoryOK, BudgetOK, NoRead
<1>7. CallsNamed
  BY DEF Init, CallsNamed, InSudo, Outside
<1>8. LinksNamed
  BY DEF Init, LinksNamed, Empty
<1>9. QED BY <1>2, <1>3, <1>4, <1>5, <1>6, <1>7, <1>8, TypeParts DEF NamedInv, Named

(* The steps of the sudo daemon on behalf of a caller. *)
LEMMA SudoNamed ==
  ASSUME NamedInv, NEW p \in Callers, SudoStep(p)
  PROVE  NamedInv'
<1>1. /\ ClusterOK /\ WatchOK /\ ChanOK /\ CallerOK /\ SudoOK /\ BudgetOK /\ HistoryOK
      /\ CallsNamed /\ LinksNamed /\ ChanNamed
  BY TypeParts DEF NamedInv, Named
<1>2. /\ WatchOK' /\ ChanOK' /\ ChanNamed' /\ BudgetOK'
      /\ info' = info
  BY <1>1 DEF SudoStep, SudoPrepare, SudoConnected, SudoConnect, SudoDisConnectRefused,
     SudoDisConnect, SudoRelease, WatchOK, ChanOK, ChanNamed, BudgetOK, watcher, handler
<1>3. InSudo(p) /\ pc[p] # "idle" /\ act[p].ns \in Namespaces /\ act[p] \in Calls
      /\ act[p].op \in {"Connect", "DisConnect"}
  <2>1. InSudo(p) /\ pc[p] # "idle"
    BY DEF SudoStep, SudoPrepare, SudoConnected, SudoConnect, SudoDisConnectRefused,
       SudoDisConnect, SudoRelease, InSudo, At
  <2>2. act[p] \in Calls
    BY <1>1 DEF CallerOK
  <2>3. QED BY <1>1, <2>1, <2>2 DEF CallsNamed, Calls
<1>4. CASE SudoPrepare(p)
  <2>1. UNCHANGED <<connected, lock, tun, cancels, raced>>
    BY <1>4 DEF SudoPrepare
  <2>2. ASSUME NEW u \in Uids, Prepare(act[p].ns, u), uid' = [uid EXCEPT ![p] = u], Goto(p, act[p].op)
        PROVE  ClusterOK' /\ UNCHANGED others /\ CallerOK' /\ CallsNamed' /\ SudoOK'
    <3>1. ClusterOK' /\ UNCHANGED others
      BY <1>1, <1>3, <2>2, PrepareType
    <3>2. uid' \in [Callers -> Uids]
      BY <1>1, <2>2 DEF CallerOK
    <3>3. act[p].op \in Labels \ {"unlist"}
      BY <1>3 DEF Labels
    <3>4. CallerOK' /\ CallsNamed'
      BY <1>1, <1>3, <1>4, <2>2, <3>2, <3>3, MoveCalls DEF SudoPrepare
    <3>5. SudoOK'
      BY <1>1, <2>1, <2>2 DEF SudoOK
    <3>6. QED BY <3>1, <3>4, <3>5
  <2>3. ASSUME Answer(p, FALSE), UNCHANGED <<cluster, uid>>
        PROVE  ClusterOK' /\ UNCHANGED others /\ CallerOK' /\ CallsNamed' /\ SudoOK'
    <3>1. ClusterOK' /\ UNCHANGED others /\ SudoOK'
      BY <1>1, <2>1, <2>3 DEF cluster, others, ClusterOK, SudoOK
    <3>2. CallerOK' /\ CallsNamed'
      BY <1>1, <1>3, <1>4, <2>3, AnswerCalls DEF SudoPrepare
    <3>3. QED BY <3>1, <3>2
  <2>4. ClusterOK' /\ UNCHANGED others /\ CallerOK' /\ CallsNamed' /\ SudoOK'
    BY <1>4, <2>2, <2>3 DEF SudoPrepare
  <2>5. HistoryOK' /\ LinksNamed'
    BY <1>1, <1>2, <2>1, <2>4 DEF HistoryOK, LinksNamed, others
  <2>6. QED BY <1>2, <2>4, <2>5, TypeWhole DEF NamedInv, Named
<1>5. CASE SudoConnected(p) \/ SudoDisConnectRefused(p)
  <2>1. UNCHANGED <<cluster, sudo, act, job, ns, uid>> /\ \E r : Answer(p, r)
    BY <1>5 DEF SudoConnected, SudoDisConnectRefused
  <2>2. ClusterOK' /\ SudoOK' /\ HistoryOK' /\ LinksNamed'
    BY <1>1, <1>2, <2>1 DEF cluster, others, sudo, ClusterOK, SudoOK, HistoryOK, LinksNamed
  <2>3. CallerOK' /\ CallsNamed'
    BY <1>1, <1>3, <2>1, AnswerCalls
  <2>4. QED BY <1>2, <2>2, <2>3, TypeWhole DEF NamedInv, Named
<1>6. CASE SudoConnect(p)
  <2>1. ClusterOK' /\ HistoryOK'
    BY <1>1, <1>6 DEF SudoConnect, cluster, others, ClusterOK, HistoryOK
  <2>2. CallerOK' /\ CallsNamed'
    <3>1. Goto(p, "dialing") /\ UNCHANGED <<act, job, ns, uid>>
      BY <1>6 DEF SudoConnect, caller
    <3>2. "dialing" \in Labels \ {"unlist"} /\ uid' \in [Callers -> Uids]
      BY <1>1, <3>1 DEF Labels, CallerOK
    <3>3. QED BY <1>1, <1>3, <3>1, <3>2, MoveCalls
  <2>3. /\ connected' = [uid |-> uid[p], ns |-> act[p].ns] /\ uid[p] \in Uids
        /\ lock' = lock
    BY <1>1, <1>6 DEF SudoConnect, CallerOK
  <2>4. connected' \in Links /\ LinksNamed'
    BY <1>1, <1>2, <1>3, <2>3 DEF Links, LinksNamed
  <2>5. tun' \in [Slots -> Tunnels] /\ cancels' \subseteq Slots
    <3>1. [st |-> "dial", for |-> p] \in Tunnels
      BY DEF Tunnels
    <3>2. QED BY <1>1, <1>6, <3>1 DEF SudoConnect, SudoOK
  <2>6. SudoOK'
    BY <1>1, <2>3, <2>4, <2>5 DEF SudoOK
  <2>7. QED BY <1>2, <2>1, <2>2, <2>4, <2>6, TypeWhole DEF NamedInv, Named
<1>7. CASE SudoDisConnect(p)
  <2>1. ClusterOK' /\ HistoryOK' /\ LinksNamed'
    BY <1>1, <1>2, <1>7 DEF SudoDisConnect, cluster, others, ClusterOK, HistoryOK, LinksNamed
  <2>2. CallerOK' /\ CallsNamed'
    <3>1. Goto(p, "release") /\ UNCHANGED <<act, job, ns, uid>>
      BY <1>7 DEF SudoDisConnect, caller
    <3>2. "release" \in Labels \ {"unlist"} /\ uid' \in [Callers -> Uids]
      BY <1>1, <3>1 DEF Labels, CallerOK
    <3>3. QED BY <1>1, <1>3, <3>1, <3>2, MoveCalls
  <2>3. SudoOK'
    BY <1>1, <1>7, CancelledType DEF SudoDisConnect, SudoOK
  <2>4. QED BY <1>2, <2>1, <2>2, <2>3, TypeWhole DEF NamedInv, Named
<1>8. CASE SudoRelease(p)
  <2>1. ClusterOK'
    BY <1>1, <1>8, CleanUpType DEF SudoRelease, ClusterOK
  <2>2. HistoryOK' /\ LinksNamed' /\ SudoOK'
    BY <1>1, <1>2, <1>8, Constants DEF SudoRelease, HistoryOK, LinksNamed, SudoOK, others
  <2>3. CallerOK' /\ CallsNamed'
    BY <1>1, <1>3, <1>8, AnswerCalls DEF SudoRelease
  <2>4. QED BY <1>2, <2>1, <2>2, <2>3, TypeWhole DEF NamedInv, Named
<1>9. QED BY <1>4, <1>5, <1>6, <1>7, <1>8 DEF SudoStep

(* A tunnel goroutine that has not come through its first DoConnect has a  *)
(* caller of its own that waits for it; nobody waits for a later one.      *)
Dials(i) == tun[i].st \in {"dial", "fail"}

Waited(i) == Dials(i) /\ tun[i].for # None

Dialing ==
  /\ \A i \in Slots : Waited(i) => pc[tun[i].for] = "dialing"
  /\ \A i, j \in Slots : i # j /\ Waited(i) /\ Waited(j) => tun[i].for # tun[j].for
  /\ \A i \in Slots : tun[i].st = "up" => tun[i].for = None

LEMMA TunnelNamed ==
  ASSUME NamedInv, Dialing, NEW i \in Slots, TunnelStep(i) \/ TunnelBreaks(i)
  PROVE  NamedInv'
<1>1. /\ ClusterOK /\ WatchOK /\ ChanOK /\ CallerOK /\ SudoOK /\ BudgetOK /\ HistoryOK
      /\ CallsNamed /\ LinksNamed /\ ChanNamed
  BY TypeParts DEF NamedInv, Named
<1>2. WatchOK' /\ ChanOK' /\ ChanNamed' /\ HistoryOK' /\ info' = info
  BY <1>1 DEF TunnelStep, TunnelUp, TunnelFails, TunnelReleases, TunnelBreaks, WatchOK, ChanOK,
     ChanNamed, HistoryOK, watcher, handler, cluster, others
<1>3. tun[i] \in Tunnels /\ tun \in [Slots -> Tunnels]
  BY <1>1 DEF SudoOK
<1>4. CASE TunnelUp(i) \/ TunnelFails(i)
  <2>1. Dials(i)
    BY <1>4 DEF TunnelUp, TunnelFails, Dials
  <2>2. tun[i].for # None => tun[i].for \in Callers /\ pc[tun[i].for] # "idle"
    BY <1>3, <2>1 DEF Dialing, Waited, Tunnels
  <2>3. UNCHANGED <<cluster, act, job, ns, uid, connected, lock>>
        /\ \E r : Reply(i, r)
    BY <1>4 DEF TunnelUp, TunnelFails
  <2>4. CallerOK' /\ CallsNamed'
    <3>1. CASE tun[i].for = None
      BY <1>1, <2>3, <3>1 DEF Reply, CallerOK, CallsNamed, InSudo
    <3>2. CASE tun[i].for # None
      BY <1>1, <2>2, <2>3, <3>2, AnswerCalls DEF Reply
    <3>3. QED BY <3>1, <3>2
  <2>5. tun' \in [Slots -> Tunnels] /\ cancels' \subseteq Slots
    <3>1. \A st \in {"off", "up", "release"} : [st |-> st, for |-> None] \in Tunnels
      BY DEF Tunnels
    <3>2. CASE TunnelUp(i)
      BY <1>1, <1>3, <3>1, <3>2 DEF TunnelUp, SudoOK
    <3>3. CASE TunnelFails(i)
      <4>1. Cancelled(tun) \in [Slots -> Tunnels]
        BY <1>1, CancelledType
      <4>2. tun' = [Cancelled(tun) EXCEPT ![i] = [st |-> "release", for |-> None]]
            /\ cancels' = {}
        BY <3>3 DEF TunnelFails
      <4>3. QED BY <3>1, <4>1, <4>2
    <3>4. QED BY <1>4, <3>2, <3>3
  <2>6. SudoOK'
    BY <1>1, <2>3, <2>5 DEF SudoOK
  <2>7. ClusterOK' /\ LinksNamed'
    BY <1>1, <1>2, <2>3 DEF ClusterOK, LinksNamed, cluster
  <2>8. BudgetOK'
    <3>1. budget' = budget \/ Spend("fails")
      BY <1>4 DEF TunnelUp, TunnelFails
    <3>2. CASE budget' = budget
      BY <1>1, <3>2 DEF BudgetOK
    <3>3. QED BY <1>1, <3>1, <3>2, SpendType
  <2>9. QED BY <1>2, <2>4, <2>6, <2>7, <2>8, TypeWhole DEF NamedInv, Named
<1>5. CASE TunnelReleases(i)
  <2>1. ClusterOK'
    BY <1>1, <1>5, CleanUpType DEF TunnelReleases, ClusterOK
  <2>2. CallerOK' /\ BudgetOK'
    BY <1>1, <1>5 DEF TunnelReleases, caller, CallerOK, BudgetOK
  <2>3. CallsNamed'
    BY <1>1, <1>5 DEF TunnelReleases, caller, CallsNamed, InSudo
  <2>4. [tun[i] EXCEPT !.st = "off"] \in Tunnels
    BY <1>3 DEF Tunnels
  <2>5. tun' = [tun EXCEPT ![i] = [tun[i] EXCEPT !.st = "off"]]
    BY <1>5 DEF TunnelReleases
  <2>6. tun' \in [Slots -> Tunnels]
    BY <1>3, <2>4, <2>5
  <2>7. SudoOK' /\ LinksNamed'
    BY <1>1, <1>2, <1>5, <2>6, Constants DEF TunnelReleases, SudoOK, LinksNamed
  <2>8. QED BY <1>2, <2>1, <2>2, <2>3, <2>7, TypeWhole DEF NamedInv, Named
<1>6. CASE TunnelBreaks(i)
  <2>1. ClusterOK' /\ CallerOK' /\ CallsNamed'
    BY <1>1, <1>6 DEF TunnelBreaks, cluster, caller, ClusterOK, CallerOK, CallsNamed, InSudo
  <2>2. [tun[i] EXCEPT !.st = "dial"] \in Tunnels
    BY <1>3 DEF Tunnels
  <2>3. tun' = [tun EXCEPT ![i] = [tun[i] EXCEPT !.st = "dial"]]
    BY <1>6 DEF TunnelBreaks
  <2>4. tun' \in [Slots -> Tunnels]
    BY <1>3, <2>2, <2>3
  <2>5. SudoOK' /\ LinksNamed'
    BY <1>1, <1>2, <1>6, <2>4 DEF TunnelBreaks, SudoOK, LinksNamed
  <2>6. BudgetOK'
    BY <1>1, <1>6, SpendType DEF TunnelBreaks
  <2>7. QED BY <1>2, <2>1, <2>5, <2>6, TypeWhole DEF NamedInv, Named
<1>7. QED BY <1>4, <1>5, <1>6 DEF TunnelStep

(* The steps of a command, and of the user daemon when it leaves. *)
LEMMA CommandNamed ==
  ASSUME NamedInv, NEW p \in Commands, Operate(p) \/ CommandStep(p)
  PROVE  NamedInv'
<1>1. /\ ClusterOK /\ WatchOK /\ ChanOK /\ CallerOK /\ SudoOK /\ BudgetOK /\ HistoryOK
      /\ CallsNamed /\ LinksNamed /\ ChanNamed
  BY TypeParts DEF NamedInv, Named
<1>2. ChanOK' /\ ChanNamed' /\ SudoOK' /\ LinksNamed' /\ raced' = raced
  BY <1>1 DEF Operate, CommandStep, InitAgain, Decide, Stay, List, watcher, handler, sudo, ChanOK,
     ChanNamed, SudoOK, LinksNamed
<1>3. p \in Callers
  BY Constants
<1>4. CASE Operate(p)
  <2>1. PICK k \in {"connect", "reconnect", "disconnect"}, n \in Namespaces, u \in Uids :
          /\ budget.cmds[n] > 0 /\ budget' = [budget EXCEPT !.cmds[n] = @ - 1]
          /\ Prepare(n, u)
          /\ job' = [job EXCEPT ![p] = Job(k, n, Empty)]
          /\ uid' = [uid EXCEPT ![p] = u]
    BY <1>4 DEF Operate
  <2>2. ClusterOK' /\ UNCHANGED others
    BY <1>1, <2>1, PrepareType
  <2>3. BudgetOK'
    BY <1>1, <2>1 DEF BudgetOK
  <2>4. WatchOK' /\ HistoryOK'
    BY <1>1, <1>2, <1>4, <2>2 DEF Operate, watcher, handler, WatchOK, HistoryOK, others
  <2>5. Job(k, n, Empty) \in Jobs /\ Job(k, n, Empty).ns = n
    BY Constants DEF Job, Jobs, Kinds
  <2>6. pc' = [pc EXCEPT ![p] = "init"] /\ act' = act /\ ns' = ns
    BY <1>4 DEF Operate, Goto
  <2>7. CallerOK'
    BY <1>1, <2>1, <2>5, <2>6 DEF CallerOK, Labels
  <2>8. /\ \A q \in Callers \ {p} : pc'[q] = pc[q] /\ job'[q] = job[q]
        /\ pc'[p] = "init" /\ job'[p].ns = n
    BY <1>1, <1>3, <2>1, <2>5, <2>6 DEF CallerOK
  <2>9. CallsNamed'
    BY <1>1, <2>6, <2>8 DEF CallsNamed, InSudo
  <2>10. QED BY <1>2, <2>2, <2>3, <2>4, <2>7, <2>9, TypeWhole DEF NamedInv, Named
<1>5. CASE Decide(p) \/ Stay(p)
  <2>1. job[p].ns \in Namespaces /\ pc[p] = "operate"
    BY <1>1, <1>3, <1>5 DEF Decide, Stay, At, CallsNamed
  <2>2. Watch(job[p].ns) /\ UNCHANGED <<cm, created, others, handler, act, job, uid, budget>>
    BY <1>5 DEF Decide, Stay, caller
  <2>3. ClusterOK' /\ WatchOK'
    BY <1>1, <2>1, <2>2, WatchType DEF ClusterOK, WatchOK, handler
  <2>4. HistoryOK' /\ BudgetOK'
    BY <1>1, <1>2, <2>2 DEF HistoryOK, BudgetOK, others
  <2>5. \/ Leave(p, job[p].ns)
        \/ info.uid # 0 /\ Leave(p, info.ns)
        \/ ns' = ns /\ \E l \in {"list", "idle"} : Goto(p, l)
    BY <1>5 DEF Decide, Stay, caller
  <2>6. CallerOK' /\ CallsNamed'
    <3>1. CASE Leave(p, job[p].ns)
      BY <1>1, <1>3, <2>1, <2>2, <3>1, LeaveCalls
    <3>2. CASE info.uid # 0 /\ Leave(p, info.ns)
      <4>1. info.ns \in Namespaces
        BY <1>1, <3>2 DEF LinksNamed
      <4>2. QED BY <1>1, <1>3, <2>1, <2>2, <3>2, <4>1, LeaveCalls
    <3>3. ASSUME ns' = ns, NEW l \in {"list", "idle"}, Goto(p, l)
          PROVE  CallerOK' /\ CallsNamed'
      <4>1. l \in Labels \ {"unlist"} /\ l \notin SudoLabels
        BY DEF Labels, SudoLabels
      <4>2. uid' \in [Callers -> Uids]
        BY <1>1, <2>2 DEF CallerOK
      <4>3. QED BY <1>1, <1>3, <2>1, <2>2, <3>3, <4>1, <4>2, MoveCalls
    <3>4. QED BY <2>5, <3>1, <3>2, <3>3
  <2>7. QED BY <1>2, <2>3, <2>4, <2>6, TypeWhole DEF NamedInv, Named
<1>6. CASE List(p)
  <2>1. job[p].ns \in Namespaces /\ pc[p] = "list"
    BY <1>1, <1>3, <1>6 DEF List, At, CallsNamed
  <2>2. UNCHANGED <<watcher, job, ns, uid, budget>>
    BY <1>6 DEF List
  <2>3. WatchOK' /\ BudgetOK'
    BY <1>1, <2>2 DEF watcher, handler, WatchOK, BudgetOK
  <2>4. CASE Goto(p, "idle") /\ UNCHANGED <<cluster, act>>
    <3>1. ClusterOK' /\ HistoryOK'
      BY <1>1, <1>2, <2>4 DEF cluster, others, ClusterOK, HistoryOK
    <3>2. "idle" \in Labels \ {"unlist"} /\ "idle" \notin SudoLabels /\ uid' \in [Callers -> Uids]
      BY <1>1, <2>2 DEF Labels, SudoLabels, CallerOK
    <3>3. CallerOK' /\ CallsNamed'
      BY <1>1, <1>3, <2>1, <2>2, <2>4, <3>2, MoveCalls
    <3>4. QED BY <1>2, <2>3, <3>1, <3>3, TypeWhole DEF NamedInv, Named
  <2>5. CASE /\ Insert(job[p].ns)
             /\ Send(p, "Connect", job[p].ns, "idle", "idle")
             /\ UNCHANGED <<created, read>>
    <3>1. ClusterOK' /\ listed' \subseteq Uids /\ causes' = causes
      BY <1>1, <2>1, <2>5, InsertType
    <3>4. HistoryOK'
      BY <1>1, <1>2, <2>5, <3>1 DEF HistoryOK
    <3>5. CallerOK' /\ CallsNamed'
      BY <1>1, <1>3, <2>1, <2>2, <2>5, SendCalls DEF Outside
    <3>6. QED BY <1>2, <2>3, <3>1, <3>4, <3>5, TypeWhole DEF NamedInv, Named
  <2>6. QED BY <1>6, <2>4, <2>5 DEF List
<1>7. CASE InitAgain(p)
  <2>1. job[p].ns \in Namespaces /\ pc[p] = "init"
    BY <1>1, <1>3, <1>7 DEF InitAgain, At, CallsNamed
  <2>2. UNCHANGED <<watcher, act, job, ns, uid, budget>>
    BY <1>7 DEF InitAgain, caller
  <2>3. WatchOK' /\ BudgetOK'
    BY <1>1, <2>2 DEF watcher, handler, WatchOK, BudgetOK
  <2>4. ClusterOK' /\ UNCHANGED others
    <3>1. CASE \E u \in Uids : Prepare(job[p].ns, u)
      BY <1>1, <2>1, <3>1, PrepareType
    <3>2. CASE UNCHANGED cluster
      BY <1>1, <3>2 DEF cluster, ClusterOK
    <3>3. QED BY <1>7, <3>1, <3>2 DEF InitAgain
  <2>5. HistoryOK'
    BY <1>1, <1>2, <2>4 DEF HistoryOK, others
  <2>6. PICK l \in {"operate", "idle"} : Goto(p, l)
    BY <1>7 DEF InitAgain
  <2>7. l \in Labels \ {"unlist"} /\ l \notin SudoLabels /\ uid' \in [Callers -> Uids]
    BY <1>1, <2>2 DEF Labels, SudoLabels, CallerOK
  <2>8. CallerOK' /\ CallsNamed'
    BY <1>1, <1>3, <2>1, <2>2, <2>6, <2>7, MoveCalls
  <2>9. QED BY <1>2, <2>3, <2>4, <2>5, <2>8, TypeWhole DEF NamedInv, Named
<1>8. QED BY <1>4, <1>5, <1>6, <1>7 DEF CommandStep

LEMMA UnlistNamed ==
  ASSUME NamedInv, NEW p \in Callers, Unlist(p)
  PROVE  NamedInv'
<1>1. /\ ClusterOK /\ WatchOK /\ ChanOK /\ CallerOK /\ SudoOK /\ BudgetOK /\ HistoryOK
      /\ CallsNamed /\ LinksNamed /\ ChanNamed
  BY TypeParts DEF NamedInv, Named
<1>2. /\ WatchOK' /\ ChanOK' /\ ChanNamed' /\ SudoOK' /\ LinksNamed' /\ BudgetOK'
      /\ UNCHANGED <<read, raced, created>>
  BY <1>1 DEF Unlist, watcher, handler, sudo, WatchOK, ChanOK, ChanNamed, SudoOK, LinksNamed, BudgetOK
<1>3. ns[p] \in Namespaces /\ pc[p] = "unlist"
  BY <1>1 DEF Unlist, At, CallsNamed
<1>4. ClusterOK' /\ HistoryOK'
  BY <1>1, <1>2, <1>3, DeleteType DEF Unlist, HistoryOK
<1>5. CallerOK' /\ CallsNamed'
  <2>1. PICK yes \in Outside, no \in Outside : Send(p, "DisConnect", ns[p], yes, no)
    BY DEF Unlist, SendLeave, Outside
  <2>2. QED BY <1>1, <1>3, <2>1, SendCalls DEF Unlist
<1>6. QED BY <1>2, <1>4, <1>5, TypeWhole DEF NamedInv, Named

(* The goroutine of the channel. *)
LEMMA WorkerNamed ==
  ASSUME NamedInv, WorkerStep
  PROVE  NamedInv'
<1>1. /\ ClusterOK /\ WatchOK /\ ChanOK /\ CallerOK /\ SudoOK /\ BudgetOK /\ HistoryOK
      /\ CallsNamed /\ LinksNamed /\ ChanNamed
  BY TypeParts DEF NamedInv, Named
<1>2. Worker \in Callers
  BY Constants
<1>3. UNCHANGED <<cluster, watcher, sudo, budget, uid>>
  BY DEF WorkerStep, Take, Check, Switched, Gone
<1>4. ClusterOK' /\ WatchOK' /\ SudoOK' /\ LinksNamed' /\ HistoryOK' /\ BudgetOK'
  BY <1>1, <1>3 DEF cluster, others, watcher, handler, sudo, ClusterOK, WatchOK, SudoOK, LinksNamed, HistoryOK,
     BudgetOK
<1>5. CASE Take
  <2> DEFINE f == Head(chan)
  <2>1. chan \in Seq(Jobs) /\ chan # << >> /\ Len(chan) <= ChanSize /\ Len(chan) \in Nat
    BY <1>1, <1>5 DEF Take, ChanOK
  <2>2. f = chan[1] /\ 1 \in 1..Len(chan) /\ f \in Jobs
    BY <2>1
  <2>3. JobNamed(f)
    BY <1>1, <2>2 DEF ChanNamed
  <2>4. /\ Tail(chan) \in Seq(Jobs) /\ Len(Tail(chan)) = Len(chan) - 1
        /\ \A i \in 1..Len(Tail(chan)) : Tail(chan)[i] = chan[i + 1]
    BY <2>1
  <2>5. chan' = Tail(chan)
    BY <1>5 DEF Take
  <2>6. ChanOK'
    BY <2>1, <2>4, <2>5, VpnDaemonAssumption DEF ChanOK
  <2>7. ChanNamed'
    <3> SUFFICES ASSUME NEW i \in 1..Len(Tail(chan)) PROVE JobNamed(Tail(chan)[i])
      BY <2>5 DEF ChanNamed, JobNamed
    <3>1. i + 1 \in 1..Len(chan)
      BY <2>1, <2>4
    <3>2. QED BY <1>1, <2>4, <3>1 DEF ChanNamed
  <2>8. CallerOK' /\ CallsNamed'
    <3>1. /\ job' = [job EXCEPT ![Worker] = f] /\ act' = act /\ uid' = uid
          /\ \/ ns' = ns /\ \E l \in {"gone", "check"} : Goto(Worker, l)
             \/ f.backup.uid # 0 /\ Leave(Worker, f.backup.ns)
      BY <1>5 DEF Take
    <3>2. job' \in [Callers -> Jobs] /\ job'[Worker].ns \in Namespaces
          /\ \A q \in Callers \ {Worker} : job'[q] = job[q]
      BY <1>1, <1>2, <2>2, <2>3, <3>1 DEF CallerOK, JobNamed
    <3> HIDE DEF f
    <3>3. CASE ns' = ns /\ \E l \in {"gone", "check"} : Goto(Worker, l)
      <4>1. PICK l \in {"gone", "check"} : pc' = [pc EXCEPT ![Worker] = l]
        BY <3>3 DEF Goto
      <4>2. /\ pc' \in [Callers -> Labels] /\ pc'[Worker] \in {"gone", "check"}
            /\ \A q \in Callers \ {Worker} : pc'[q] = pc[q]
        BY <1>1, <1>2, <4>1 DEF CallerOK, Labels
      <4>3. CallerOK'
        BY <1>1, <3>1, <3>2, <3>3, <4>2 DEF CallerOK
      <4>4. CallsNamed'
        BY <1>1, <3>1, <3>2, <3>3, <4>2 DEF CallsNamed, InSudo
      <4>5. QED BY <4>3, <4>4
    <3>4. CASE f.backup.uid # 0 /\ Leave(Worker, f.backup.ns)
      <4>1. f.backup.ns \in Namespaces
        BY <2>3, <3>4 DEF JobNamed
      <4>2. /\ pc' = [pc EXCEPT ![Worker] = "unlist"] /\ ns' = [ns EXCEPT ![Worker] = f.backup.ns]
        BY <3>4 DEF Leave, Goto
      <4>3. /\ pc' \in [Callers -> Labels] /\ pc'[Worker] = "unlist"
            /\ ns' \in [Callers -> Namespaces \cup {None}] /\ ns'[Worker] \in Namespaces
            /\ \A q \in Callers \ {Worker} : pc'[q] = pc[q] /\ ns'[q] = ns[q]
        BY <1>1, <1>2, <4>1, <4>2 DEF CallerOK, Labels
      <4>4. CallerOK'
        BY <1>1, <3>1, <3>2, <4>3 DEF CallerOK
      <4>5. CallsNamed'
        BY <1>1, <3>1, <3>2, <4>3 DEF CallsNamed, InSudo
      <4>6. QED BY <4>4, <4>5
    <3>5. QED BY <3>1, <3>3, <3>4
  <2>9. QED BY <1>4, <2>6, <2>7, <2>8, TypeWhole DEF NamedInv, Named
<1>6. CASE Check \/ Switched \/ Gone
  <2>1. chan' = chan /\ UNCHANGED <<job, ns, uid>>
    BY <1>6 DEF Check, Switched, Gone
  <2>2. ChanOK' /\ ChanNamed'
    BY <1>1, <2>1 DEF ChanOK, ChanNamed
  <2>3. pc[Worker] # "idle" /\ job[Worker].ns \in Namespaces
    BY <1>1, <1>2, <1>6 DEF Check, Switched, Gone, At, CallsNamed
  <2>4. \/ Send(Worker, "Connect", job[Worker].ns, "idle", "idle")
        \/ act' = act /\ Goto(Worker, "idle")
        \/ connected.uid # 0 /\ Send(Worker, "DisConnect", connected.ns, "switched", "idle")
        \/ Send(Worker, "DisConnect", job[Worker].ns, "idle", "idle")
    BY <1>6 DEF Check, Switched, Gone
  <2>5. connected.uid # 0 => connected.ns \in Namespaces
    BY <1>1 DEF LinksNamed, Empty
  <2>6. CallerOK' /\ CallsNamed'
    <3>1. CASE act' = act /\ Goto(Worker, "idle")
      <4>1. "idle" \in Labels \ {"unlist"} /\ "idle" \notin SudoLabels
            /\ uid' \in [Callers -> Uids]
        BY <1>1, <2>1 DEF Labels, SudoLabels, CallerOK
      <4>2. QED BY <1>1, <1>2, <2>1, <2>3, <3>1, <4>1, MoveCalls
    <3>2. ASSUME NEW op \in {"Connect", "DisConnect"}, NEW n \in Namespaces,
                 NEW yes \in {"idle", "switched"}, Send(Worker, op, n, yes, "idle")
          PROVE  CallerOK' /\ CallsNamed'
      <4>1. yes \in Outside /\ "idle" \in Outside
        BY DEF Outside
      <4>2. QED BY <1>1, <1>2, <2>1, <2>3, <3>2, <4>1, SendCalls
    <3>3. QED BY <2>3, <2>4, <2>5, <3>1, <3>2
  <2>7. QED BY <1>4, <2>2, <2>6, TypeWhole DEF NamedInv, Named
<1>7. QED BY <1>5, <1>6 DEF WorkerStep

(* The watchers. *)
LEMMA EnqueueNamed ==
  ASSUME ChanOK, ChanNamed, NEW f \in Jobs, JobNamed(f), Enqueue(f)
  PROVE  ChanOK' /\ ChanNamed'
<1>1. chan \in Seq(Jobs) /\ Len(chan) \in Nat /\ ChanSize \in Nat
  BY VpnDaemonAssumption DEF ChanOK
<1>2. chan' = Append(chan, f) /\ Len(chan) < ChanSize
  BY DEF Enqueue
<1>3. /\ Append(chan, f) \in Seq(Jobs) /\ Len(Append(chan, f)) = Len(chan) + 1
      /\ \A i \in 1..(Len(chan) + 1) :
           Append(chan, f)[i] = IF i <= Len(chan) THEN chan[i] ELSE f
  BY <1>1
<1>4. ChanOK'
  BY <1>1, <1>2, <1>3 DEF ChanOK
<1>5. \A i \in 1..Len(chan') : JobNamed(chan'[i])
  BY <1>1, <1>2, <1>3 DEF ChanNamed
<1>6. QED BY <1>4, <1>5 DEF ChanNamed, JobNamed

LEMMA WatcherNamed ==
  ASSUME NamedInv, NEW n \in Namespaces,
         Handle(n) \/ Resync(n) \/ WatchNamespace(n) \/ OthersDelete(n)
  PROVE  NamedInv'
<1>1. /\ ClusterOK /\ WatchOK /\ ChanOK /\ CallerOK /\ SudoOK /\ BudgetOK /\ HistoryOK
      /\ CallsNamed /\ LinksNamed /\ ChanNamed
  BY TypeParts DEF NamedInv, Named
<1>2. UNCHANGED <<pc, caller, sudo, others>>
  BY DEF Handle, Resync, WatchNamespace, OthersDelete, cluster
<1>3. CallerOK' /\ CallsNamed' /\ SudoOK' /\ HistoryOK'
  BY <1>1, <1>2 DEF caller, sudo, others, CallerOK, CallsNamed, InSudo, SudoOK, HistoryOK
<1>4. ASSUME info' = info, chan' = chan
      PROVE  info' \in Links /\ LinksNamed' /\ ChanOK' /\ ChanNamed'
  BY <1>1, <1>2, <1>4 DEF sudo, WatchOK, LinksNamed, ChanOK, ChanNamed
<1>5. ASSUME NEW h \in Uids, Follow(n, h)
      PROVE  info' \in Links /\ LinksNamed' /\ ChanOK' /\ ChanNamed'
  <2>1. info' \in Links /\ LinksNamed'
    BY <1>1, <1>2, <1>5 DEF Follow, Links, LinksNamed, sudo
  <2>2. Job("follow", n, info) \in Jobs /\ JobNamed(Job("follow", n, info))
    BY <1>1 DEF Job, Jobs, Kinds, JobNamed, WatchOK, LinksNamed
  <2>3. QED BY <1>1, <1>5, <2>1, <2>2, EnqueueNamed DEF Follow
<1>6. ASSUME info' = Empty, Enqueue(Job("leave", n, Empty))
      PROVE  info' \in Links /\ LinksNamed' /\ ChanOK' /\ ChanNamed'
  <2>1. info' \in Links /\ LinksNamed'
    BY <1>1, <1>2, <1>6, Constants DEF LinksNamed, Empty, sudo
  <2>2. Job("leave", n, Empty) \in Jobs /\ JobNamed(Job("leave", n, Empty))
    BY Constants DEF Job, Jobs, Kinds, JobNamed, Empty
  <2>3. QED BY <1>1, <1>6, <2>1, <2>2, EnqueueNamed
<1>7. hUid[n] \in Uids
  BY <1>1 DEF WatchOK
<1>8. ASSUME NEW old, NEW new, OnUpdate(n, old, new)
      PROVE  info' \in Links /\ LinksNamed' /\ ChanOK' /\ ChanNamed' /\ hUid' = hUid
  <2>1. \/ Follow(n, hUid[n])
        \/ info' = Empty /\ Enqueue(Job("leave", n, Empty))
        \/ info' = info /\ chan' = chan
    BY <1>8 DEF OnUpdate
  <2>2. hUid' = hUid
    BY <1>8 DEF OnUpdate
  <2>3. QED BY <1>4, <1>5, <1>6, <1>7, <2>1, <2>2
<1>9. CASE Handle(n)
  <2> DEFINE new == Head(pend[n])
             old == store[n]
  <2>1. pend[n] \in Seq(Maps) /\ pend[n] # << >>
    BY <1>1, <1>9 DEF ClusterOK, Handle
  <2>2. new \in Maps /\ Tail(pend[n]) \in Seq(Maps) /\ new.uid \in Uids
    <3>1. new \in Maps /\ Tail(pend[n]) \in Seq(Maps)
      BY <2>1
    <3>2. QED BY <3>1 DEF Maps
  <2>3. /\ pend' = [pend EXCEPT ![n] = Tail(@)] /\ store' = [store EXCEPT ![n] = new]
        /\ UNCHANGED <<cm, created, watched, checking, budget>>
        /\ missed' \subseteq missed \cup {n}
        /\ \/ OnAdd(n, new) \/ OnDelete(n, old) \/ OnUpdate(n, old, new)
    BY <1>9 DEF Handle
  <2> HIDE DEF new, old
  <2>4. ClusterOK' /\ BudgetOK'
    BY <1>1, <2>2, <2>3 DEF ClusterOK, BudgetOK
  <2>5. /\ store' \in [Namespaces -> Maps] /\ watched' \subseteq Namespaces
        /\ missed' \subseteq Namespaces /\ checking' \in Namespaces \cup {None}
    BY <1>1, <2>2, <2>3 DEF WatchOK
  <2>6. info' \in Links /\ LinksNamed' /\ ChanOK' /\ ChanNamed'
        /\ hUid' \in [Namespaces -> Uids]
    <3>1. CASE OnAdd(n, new)
      <4>1. hUid' = [hUid EXCEPT ![n] = new.uid]
            /\ (Follow(n, new.uid) \/ (info' = info /\ chan' = chan))
        BY <3>1 DEF OnAdd
      <4>2. hUid' \in [Namespaces -> Uids]
        BY <1>1, <2>2, <4>1 DEF WatchOK
      <4>3. QED BY <1>4, <1>5, <2>2, <4>1, <4>2
    <3>2. CASE OnDelete(n, old)
      <4>1. /\ hUid' = hUid
            /\ \/ info' = Empty /\ Enqueue(Job("leave", n, Empty))
               \/ info' = info /\ chan' = chan
        BY <3>2 DEF OnDelete
      <4>2. QED BY <1>1, <1>4, <1>6, <4>1 DEF WatchOK
    <3>3. CASE OnUpdate(n, old, new)
      BY <1>1, <1>8, <3>3 DEF WatchOK
    <3>4. QED BY <2>3, <3>1, <3>2, <3>3
  <2>7. WatchOK'
    BY <2>5, <2>6 DEF WatchOK
  <2>8. QED BY <1>3, <2>4, <2>6, <2>7, TypeWhole DEF NamedInv, Named
<1>10. CASE Resync(n)
  <2>1. OnUpdate(n, store[n], store[n]) /\ UNCHANGED <<cluster, store, watched, missed, checking, budget>>
    BY <1>10 DEF Resync
  <2>2. info' \in Links /\ LinksNamed' /\ ChanOK' /\ ChanNamed' /\ hUid' = hUid
    BY <1>8, <2>1
  <2>3. WatchOK' /\ ClusterOK' /\ BudgetOK'
    BY <1>1, <2>1, <2>2 DEF cluster, others, WatchOK, ClusterOK, BudgetOK
  <2>4. QED BY <1>3, <2>2, <2>3, TypeWhole DEF NamedInv, Named
<1>11. CASE WatchNamespace(n)
  <2>1. Watch(n) /\ UNCHANGED <<cm, created, handler, chan, budget>>
    BY <1>11 DEF WatchNamespace
  <2>2. WatchOK' /\ ClusterOK' /\ BudgetOK'
    BY <1>1, <2>1, WatchType DEF WatchOK, ClusterOK, BudgetOK, handler
  <2>3. QED BY <1>3, <1>4, <2>1, <2>2, TypeWhole DEF NamedInv, Named, handler
<1>12. CASE OthersDelete(n)
  <2>1. Put(n, NoMap) /\ Spend("others") /\ UNCHANGED <<created, watcher, chan>>
    BY <1>12 DEF OthersDelete
  <2>2. ClusterOK'
    BY <1>1, <2>1, PutType, Constants DEF ClusterOK
  <2>3. BudgetOK'
    BY <1>1, <2>1, SpendType
  <2>4. WatchOK' /\ info' = info
    BY <1>1, <2>1 DEF watcher, handler, WatchOK
  <2>5. QED BY <1>3, <1>4, <2>1, <2>2, <2>3, <2>4, TypeWhole DEF NamedInv, Named
<1>13. QED BY <1>9, <1>10, <1>11, <1>12

(* The informers' lists, the health checks and the other devices. *)
LEMMA OthersNamed ==
  ASSUME NamedInv,
         \/ \E n \in Namespaces : Relist(n) \/ CheckReverse(n) \/ OthersRead(n)
         \/ CheckPrepares \/ OthersPatch
  PROVE  NamedInv'
<1>1. /\ ClusterOK /\ WatchOK /\ ChanOK /\ CallerOK /\ SudoOK /\ BudgetOK /\ HistoryOK
      /\ CallsNamed /\ LinksNamed /\ ChanNamed
  BY TypeParts DEF NamedInv, Named
<1>2. UNCHANGED <<pc, caller, sudo, chan, info, store, hUid, watched, missed>>
  BY DEF Relist, CheckReverse, OthersRead, CheckPrepares, OthersPatch, watcher, handler
<1>3. CallerOK' /\ CallsNamed' /\ SudoOK' /\ ChanOK' /\ ChanNamed' /\ LinksNamed' /\ raced' = raced
  BY <1>1, <1>2 DEF caller, sudo, CallerOK, CallsNamed, InSudo, SudoOK, ChanOK, ChanNamed, LinksNamed
<1>4. ASSUME ClusterOK', HistoryOK', BudgetOK', checking' \in Namespaces \cup {None}
      PROVE  NamedInv'
  <2>1. WatchOK'
    BY <1>1, <1>2, <1>4 DEF WatchOK
  <2>2. QED BY <1>3, <1>4, <2>1, TypeWhole DEF NamedInv, Named
<1>5. checking \in Namespaces \cup {None}
  BY <1>1 DEF WatchOK
<1>6. ASSUME NEW n \in Namespaces, Relist(n) PROVE NamedInv'
  <2>1. cm[n] \in Maps
    BY <1>1 DEF ClusterOK
  <2>2. << >> \in Seq(Maps) /\ <<cm[n]>> \in Seq(Maps)
    BY <2>1
  <2>3. pend' \in [Namespaces -> Seq(Maps)] /\ UNCHANGED <<cm, created, read, listed, checking>>
    BY <1>1, <1>6, <2>2 DEF Relist, ClusterOK, watcher, handler
  <2>4. ClusterOK' /\ HistoryOK'
    BY <1>1, <1>3, <1>6, <2>3 DEF Relist, Note, ClusterOK, HistoryOK, Causes
  <2>5. BudgetOK'
    BY <1>1, <1>6, SpendType DEF Relist
  <2>6. QED BY <1>4, <1>5, <2>3, <2>4, <2>5
<1>7. ASSUME NEW n \in Namespaces, CheckReverse(n) PROVE NamedInv'
  <2>1. ClusterOK' /\ HistoryOK' /\ checking' = n
    BY <1>1, <1>3, <1>7 DEF CheckReverse, ClusterOK, HistoryOK, cluster, others
  <2>2. BudgetOK'
    BY <1>1, <1>7, SpendType DEF CheckReverse
  <2>3. QED BY <1>4, <2>1, <2>2
<1>8. ASSUME NEW n \in Namespaces, OthersRead(n) PROVE NamedInv'
  <2>1. cm[n].mine \in BOOLEAN
    BY <1>1 DEF ClusterOK, Maps
  <2>2. ClusterOK' /\ HistoryOK' /\ checking' = checking
    BY <1>1, <1>3, <1>8, <2>1 DEF OthersRead, ClusterOK, HistoryOK, watcher, handler
  <2>3. BudgetOK'
    BY <1>1, <1>8, SpendType DEF OthersRead
  <2>4. QED BY <1>4, <1>5, <2>2, <2>3
<1>9. CASE CheckPrepares
  <2>1. checking \in Namespaces /\ checking' = None /\ budget' = budget
    BY <1>5, <1>9 DEF CheckPrepares
  <2>2. ClusterOK' /\ UNCHANGED others
    <3>1. CASE \E u \in Uids : Prepare(checking, u)
      BY <1>1, <2>1, <3>1, PrepareType
    <3>2. CASE UNCHANGED cluster
      BY <1>1, <3>2 DEF cluster, ClusterOK
    <3>3. QED BY <1>9, <3>1, <3>2 DEF CheckPrepares
  <2>3. HistoryOK' /\ BudgetOK'
    BY <1>1, <1>3, <2>1, <2>2 DEF HistoryOK, BudgetOK, others
  <2>4. QED BY <1>4, <2>1, <2>2, <2>3
<1>10. CASE OthersPatch
  <2>1. read.ns \in Namespaces /\ read' = NoRead /\ UNCHANGED <<created, checking, budget>>
    BY <1>1, <1>10 DEF OthersPatch, HistoryOK, watcher, handler
  <2>2. NoRead \in [ns : Namespaces \cup {None}, mine : BOOLEAN]
    BY DEF NoRead
  <2>3. ClusterOK' /\ listed' \subseteq Uids /\ causes' \subseteq Causes
    <3>1. CASE Insert(read.ns)
      BY <1>1, <2>1, <3>1, InsertType DEF HistoryOK
    <3>2. CASE Delete(read.ns)
      BY <1>1, <2>1, <3>2, DeleteType DEF HistoryOK
    <3>3. QED BY <1>10, <3>1, <3>2 DEF OthersPatch
  <2>4. HistoryOK' /\ BudgetOK'
    BY <1>1, <1>3, <2>1, <2>2, <2>3 DEF HistoryOK, BudgetOK
  <2>5. QED BY <1>4, <1>5, <2>1, <2>3, <2>4
<1>11. QED BY <1>6, <1>7, <1>8, <1>9, <1>10

(* The restarts. *)
LEMMA RestartNamed ==
  ASSUME NamedInv, SudoRestarts \/ UserRestarts
  PROVE  NamedInv'
<1>1. /\ ClusterOK /\ WatchOK /\ ChanOK /\ CallerOK /\ SudoOK /\ BudgetOK /\ HistoryOK
      /\ CallsNamed /\ LinksNamed /\ ChanNamed
  BY TypeParts DEF NamedInv, Named
<1>2. BudgetOK'
  BY <1>1, SpendType DEF SudoRestarts, UserRestarts
<1>3. Outside \subseteq Labels /\ Outside \cap SudoLabels = {} /\ "unlist" \notin Outside
      /\ "idle" \in Outside
  BY DEF Outside, Labels, SudoLabels
<1>4. CASE SudoRestarts
  <2>1. ClusterOK' /\ WatchOK' /\ ChanOK' /\ ChanNamed'
    BY <1>1, <1>4 DEF SudoRestarts, cluster, others, watcher, handler, ClusterOK, WatchOK, ChanOK, ChanNamed
  <2>2. SudoOK' /\ HistoryOK'
    <3>1. [st |-> "off", for |-> None] \in Tunnels
      BY DEF Tunnels
    <3>2. QED BY <1>1, <1>4, <3>1, Constants DEF SudoRestarts, cluster, others, SudoOK, HistoryOK
  <2>3. LinksNamed'
    BY <1>1, <1>4 DEF SudoRestarts, watcher, handler, LinksNamed
  <2>4. /\ UNCHANGED <<act, job, ns, uid>>
        /\ \A p \in Callers : pc'[p] = IF InSudo(p) THEN act[p].no ELSE pc[p]
        /\ pc' = [p \in Callers |-> IF InSudo(p) THEN act[p].no ELSE pc[p]]
    BY <1>4 DEF SudoRestarts, caller
  <2>5. \A p \in Callers : act[p].no \in Outside
    BY <1>1 DEF CallsNamed
  <2>6. CallerOK'
    BY <1>1, <1>3, <2>4, <2>5 DEF CallerOK
  <2>7. \A p \in Callers : /\ ~InSudo(p)'
                           /\ pc'[p] # "idle" => pc[p] # "idle"
                           /\ pc'[p] = "unlist" => pc[p] = "unlist"
    BY <1>3, <2>4, <2>5 DEF InSudo, SudoLabels
  <2>8. CallsNamed'
    BY <1>1, <2>4, <2>7 DEF CallsNamed
  <2>9. QED BY <1>2, <2>1, <2>2, <2>3, <2>6, <2>8, TypeWhole DEF NamedInv, Named
<1>5. CASE UserRestarts
  <2>1. << >> \in Seq(Maps) /\ << >> \in Seq(Jobs) /\ Len(<< >>) = 0
    OBVIOUS
  <2>2. ClusterOK'
    BY <1>1, <1>5, <2>1 DEF UserRestarts, ClusterOK
  <2>3. WatchOK'
    BY <1>5, Constants DEF UserRestarts, WatchOK
  <2>4. ChanOK' /\ ChanNamed'
    <3>1. chan' = << >> /\ ChanSize \in Nat
      BY <1>5, VpnDaemonAssumption DEF UserRestarts
    <3>2. Len(chan') = 0 /\ chan' \in Seq(Jobs)
      BY <2>1, <3>1
    <3>3. ChanOK'
      BY <3>1, <3>2 DEF ChanOK
    <3>4. 1..0 = {}
      OBVIOUS
    <3>5. ChanNamed'
      BY <3>2, <3>4 DEF ChanNamed
    <3>6. QED BY <3>3, <3>5
  <2>5. SudoOK' /\ HistoryOK'
    BY <1>1, <1>5 DEF UserRestarts, Note, Causes, sudo, SudoOK, HistoryOK
  <2>6. LinksNamed'
    BY <1>1, <1>5 DEF UserRestarts, sudo, LinksNamed, Empty
  <2>7. /\ UNCHANGED <<job, ns, uid>>
        /\ act' = [p \in Callers |-> [act[p] EXCEPT !.yes = "idle", !.no = "idle"]]
        /\ pc' = [p \in Callers |-> IF InSudo(p) THEN pc[p] ELSE "idle"]
    BY <1>5 DEF UserRestarts
  <2>8. \A p \in Callers :
          /\ [act[p] EXCEPT !.yes = "idle", !.no = "idle"] \in Calls
          /\ [act[p] EXCEPT !.yes = "idle", !.no = "idle"].ns = act[p].ns
          /\ [act[p] EXCEPT !.yes = "idle", !.no = "idle"].op = act[p].op
          /\ [act[p] EXCEPT !.yes = "idle", !.no = "idle"].yes = "idle"
          /\ [act[p] EXCEPT !.yes = "idle", !.no = "idle"].no = "idle"
    BY <1>1 DEF CallerOK, Calls, Labels
  <2>9. CallerOK'
    BY <1>1, <1>3, <2>7, <2>8 DEF CallerOK
  <2>10. \A p \in Callers : /\ InSudo(p)' => InSudo(p)
                            /\ pc'[p] # "idle" => pc[p] # "idle"
                            /\ pc'[p] # "unlist"
    BY <2>7 DEF InSudo
  <2>11. \A p \in Callers : /\ act'[p].ns = act[p].ns /\ act'[p].op = act[p].op
                            /\ act'[p].yes = "idle" /\ act'[p].no = "idle"
    BY <2>7, <2>8
  <2>12. CallsNamed'
    BY <1>1, <1>3, <2>7, <2>10, <2>11 DEF CallsNamed
  <2>13. QED BY <1>2, <2>2, <2>3, <2>4, <2>5, <2>6, <2>9, <2>12, TypeWhole DEF NamedInv, Named
<1>6. QED BY <1>4, <1>5

LEMMA NamedStep == NamedInv /\ Dialing /\ [Next]_vars => NamedInv'
<1> SUFFICES ASSUME NamedInv, Dialing, [Next]_vars PROVE NamedInv'
  OBVIOUS
<1>1. CASE Next
  BY <1>1, CommandNamed, SudoNamed, UnlistNamed, WorkerNamed, TunnelNamed, WatcherNamed,
     OthersNamed, RestartNamed DEF Next
<1>2. CASE UNCHANGED vars
  <2>1. TypeOK'
    BY <1>2 DEF NamedInv, TypeOK, vars, cluster, others, watcher, handler, caller, sudo
  <2>2. Named'
    BY <1>2 DEF NamedInv, Named, CallsNamed, InSudo, LinksNamed, ChanNamed, JobNamed, vars,
       cluster, others, watcher, handler, caller, sudo
  <2>3. QED BY <2>1, <2>2 DEF NamedInv
<1>3. QED BY <1>1, <1>2

-----------------------------------------------------------------------------
(* The tunnels. *)

(* Who is inside disconnect() on behalf of a call holds the lock; a        *)
(* goroutine that is inside it holds none.  Either has cancelled what ran  *)
(* before, and a connection made since then is a race.                     *)
Releasing ==
  /\ \A p \in Callers : pc[p] = "release" => lock = p /\ (Running = {} \/ raced)
  /\ \A i \in Slots : tun[i].st = "release" => Running = {} \/ raced

(* TunnelIsKnown, with Cardinality(Running) <= 1 unfolded. *)
Known ==
  raced \/ (/\ \A i, j \in Running : i = j
            /\ Running \subseteq cancels
            /\ Running # {} => connected # Empty)

TunnelInv == NamedInv /\ Dialing /\ Releasing /\ Known

LEMMA TunnelInit == Init => TunnelInv
<1> SUFFICES ASSUME Init PROVE TunnelInv
  OBVIOUS
<1>1. Running = {}
  BY DEF Init, Running
<1>2. Dialing
  BY DEF Init, Dialing, Waited, Dials
<1>3. Releasing /\ Known
  BY <1>1 DEF Init, Releasing, Known
<1>4. QED BY <1>2, <1>3, NamedInit DEF TunnelInv

(* A step that leaves the sudo daemon alone. *)
LEMMA OutsideTunnels ==
  ASSUME TunnelInv, UNCHANGED <<connected, lock, tun, cancels, raced>>,
         \A p \in Callers : pc[p] = "dialing" => pc'[p] = "dialing",
         \A p \in Callers : pc'[p] = "release" => pc[p] = "release"
  PROVE  Dialing' /\ Releasing' /\ Known'
<1>1. UNCHANGED <<connected, lock, tun, cancels, raced>>
  OBVIOUS
<1>2. Running' = Running /\ \A i \in Slots : Waited(i)' <=> Waited(i)
  BY <1>1 DEF Running, Dials, Waited
<1>3. Dialing'
  <2>1. \A i \in Slots : Waited(i) => tun[i].for \in Callers
    BY DEF TunnelInv, NamedInv, TypeOK, Waited
  <2>2. QED BY <1>1, <1>2, <2>1 DEF TunnelInv, Dialing
<1>4. Releasing'
  BY <1>1, <1>2 DEF TunnelInv, Releasing
<1>5. Known'
  BY <1>1, <1>2 DEF TunnelInv, Known
<1>6. QED BY <1>3, <1>4, <1>5

(* One caller, which does not wait for a tunnel, goes on, and not into     *)
(* disconnect().                                                           *)
LEMMA MovesTunnels ==
  ASSUME TunnelInv, UNCHANGED <<connected, lock, tun, cancels, raced>>,
         NEW p \in Callers, pc[p] # "dialing", NEW l, l # "release", Goto(p, l)
  PROVE  Dialing' /\ Releasing' /\ Known'
<1>1. pc \in [Callers -> Labels]
  BY DEF TunnelInv, NamedInv, TypeOK
<1>2. QED BY <1>1, OutsideTunnels DEF Goto

LEMMA CancelledStops ==
  ASSUME TunnelInv, ~raced
  PROVE  \A i \in Slots : Cancelled(tun)[i].st \notin {"dial", "up"}
<1>1. tun \in [Slots -> Tunnels]
  BY DEF TunnelInv, NamedInv, TypeOK, Tunnels
<1>2. \A i \in Slots : tun[i].st \in {"dial", "up"} => i \in cancels
  BY DEF TunnelInv, Known, Running
<1>3. \A i \in Slots : [tun[i] EXCEPT !.st = "fail"].st = "fail"
  BY <1>1 DEF Tunnels
<1>4. QED BY <1>2, <1>3 DEF Cancelled

LEMMA SudoTunnels ==
  ASSUME TunnelInv, NEW p \in Callers, SudoStep(p)
  PROVE  Dialing' /\ Releasing' /\ Known'
<1>1. /\ pc \in [Callers -> Labels] /\ tun \in [Slots -> Tunnels] /\ raced \in BOOLEAN
      /\ None \notin Callers
  BY VpnDaemonAssumption DEF TunnelInv, NamedInv, TypeOK, Tunnels, Callers
<1>2. act[p].yes \in Outside /\ act[p].no \in Outside
  BY DEF TunnelInv, NamedInv, Named, CallsNamed
<1>3. ASSUME NEW r, Answer(p, r) PROVE \E l \in Outside : Goto(p, l)
  BY <1>2, <1>3 DEF Answer
<1>4. CASE SudoPrepare(p) \/ SudoConnected(p) \/ SudoDisConnectRefused(p)
  <2>1. pc[p] # "dialing" /\ UNCHANGED <<connected, lock, tun, cancels, raced>>
    BY <1>4 DEF SudoPrepare, SudoConnected, SudoDisConnectRefused, At, sudo
  <2>2. pc[p] = "prepare" => act[p].op \in {"Connect", "DisConnect"}
    <3>1. act[p] \in Calls
      BY DEF TunnelInv, NamedInv, TypeOK, Calls
    <3>2. QED BY <3>1 DEF TunnelInv, NamedInv, Named, CallsNamed, InSudo, Calls
  <2>3. \E l \in Outside \cup {"Connect", "DisConnect"} : Goto(p, l)
    <3>1. CASE \E r : Answer(p, r)
      BY <1>3, <3>1
    <3>2. CASE Goto(p, act[p].op) /\ pc[p] = "prepare"
      BY <2>2, <3>2
    <3>3. QED BY <1>4, <3>1, <3>2 DEF SudoPrepare, SudoConnected, SudoDisConnectRefused, At
  <2>4. QED BY <2>1, <2>3, MovesTunnels DEF Outside
<1>5. CASE SudoConnect(p)
  <2>1. PICK i \in Slots : tun[i].st = "off" /\ tun' = [tun EXCEPT ![i] = [st |-> "dial", for |-> p]]
                           /\ cancels' = cancels \cup {i}
    BY <1>5 DEF SudoConnect
  <2>2. /\ pc[p] = "Connect" /\ lock = None /\ lock' = lock /\ connected = Empty
        /\ raced' = (raced \/ \E j \in Slots : tun[j].st = "release")
        /\ pc'[p] = "dialing" /\ \A q \in Callers \ {p} : pc'[q] = pc[q]
        /\ connected' = [uid |-> uid[p], ns |-> act[p].ns]
    BY <1>1, <1>5 DEF SudoConnect, At, Goto
  <2>3. /\ tun'[i].st = "dial" /\ tun'[i].for = p
        /\ \A j \in Slots \ {i} : tun'[j] = tun[j]
    BY <1>1, <2>1
  <2>4. \A j \in Slots \ {i} : (Waited(j)' <=> Waited(j)) /\ tun'[j].for = tun[j].for
    BY <2>3 DEF Waited, Dials
  <2>5. \A j \in Slots : Waited(j) => tun[j].for \in Callers \ {p} /\ pc[tun[j].for] = "dialing"
    BY <1>1, <2>2 DEF TunnelInv, Dialing, Waited, Tunnels
  <2>6. Dialing'
    <3>1. \A j \in Slots : Waited(j)' => pc'[tun'[j].for] = "dialing"
      BY <2>2, <2>3, <2>4, <2>5
    <3>2. \A j, k \in Slots : j # k /\ Waited(j)' /\ Waited(k)' => tun'[j].for # tun'[k].for
      <4> SUFFICES ASSUME NEW j \in Slots, NEW k \in Slots, j # k, Waited(j)', Waited(k)'
                   PROVE  tun'[j].for # tun'[k].for
        OBVIOUS
      <4>1. CASE j # i /\ k # i
        BY <2>4, <4>1 DEF TunnelInv, Dialing
      <4>2. CASE j = i \/ k = i
        BY <2>3, <2>4, <2>5, <4>2
      <4>3. QED BY <4>1, <4>2
    <3>3. \A j \in Slots : tun'[j].st = "up" => tun'[j].for = None
      BY <2>3 DEF TunnelInv, Dialing
    <3>4. QED BY <3>1, <3>2, <3>3 DEF Dialing
  <2>7. Running' = Running \cup {i}
    BY <2>1, <2>3 DEF Running
  <2>8. Known'
    <3>1. CASE raced'
      BY <3>1 DEF Known
    <3>2. CASE ~raced'
      <4>1. ~raced
        BY <2>2, <3>2
      <4>2. Running = {}
        BY <2>2, <4>1 DEF TunnelInv, Known
      <4>3. connected'.ns \in Namespaces
        BY <2>2 DEF TunnelInv, NamedInv, Named, CallsNamed, InSudo
      <4>4. connected' # Empty
        BY <4>3, Constants DEF Empty
      <4>5. QED BY <2>1, <2>7, <4>2, <4>4 DEF Known
    <3>3. QED BY <3>1, <3>2
  <2>9. Releasing'
    <3>1. \A q \in Callers : pc'[q] # "release"
      BY <1>1, <2>2 DEF TunnelInv, Releasing
    <3>2. \A j \in Slots : tun'[j].st = "release" => raced'
      BY <2>2, <2>3
    <3>3. QED BY <3>1, <3>2 DEF Releasing
  <2>10. QED BY <2>6, <2>8, <2>9
<1>6. CASE SudoDisConnect(p)
  <2>1. /\ pc[p] = "DisConnect" /\ lock = None /\ lock' = p /\ tun' = Cancelled(tun)
        /\ cancels' = {} /\ UNCHANGED <<connected, raced>>
        /\ pc'[p] = "release" /\ \A q \in Callers \ {p} : pc'[q] = pc[q]
    BY <1>1, <1>6 DEF SudoDisConnect, At, Goto
  <2>2. \A i \in Slots :
          /\ Waited(i)' => Waited(i) /\ tun'[i].for = tun[i].for
          /\ tun'[i].st = "release" => tun[i].st = "release"
          /\ tun'[i].st = "up" => tun'[i] = tun[i]
    <3>1. \A i \in Slots : [tun[i] EXCEPT !.st = "fail"].for = tun[i].for
                           /\ [tun[i] EXCEPT !.st = "fail"].st = "fail"
      BY <1>1 DEF Tunnels
    <3>2. QED BY <2>1, <3>1 DEF Waited, Dials, Cancelled
  <2>3. Dialing'
    BY <1>1, <2>1, <2>2 DEF TunnelInv, Dialing, Waited, Tunnels
  <2>4. ~raced => Running' = {}
    BY <2>1, CancelledStops DEF Running
  <2>5. Known'
    BY <1>1, <2>1, <2>4 DEF Known
  <2>6. \A q \in Callers \ {p} : pc'[q] # "release"
    BY <1>1, <2>1 DEF TunnelInv, Releasing
  <2>7. Releasing'
    BY <1>1, <2>1, <2>4, <2>6 DEF Releasing
  <2>8. QED BY <2>3, <2>5, <2>7
<1>7. CASE SudoRelease(p)
  <2>1. /\ pc[p] = "release" /\ connected' = Empty /\ lock' = None
        /\ UNCHANGED <<tun, cancels, raced>>
    BY <1>7 DEF SudoRelease, At
  <2>2. PICK l \in Outside : Goto(p, l)
    BY <1>3, <1>7 DEF SudoRelease
  <2>3. /\ pc'[p] \notin {"release", "dialing"} /\ \A q \in Callers \ {p} : pc'[q] = pc[q]
    BY <1>1, <2>2 DEF Goto, Outside
  <2>4. Running' = Running /\ \A i \in Slots : Waited(i)' <=> Waited(i)
    BY <2>1 DEF Running, Waited, Dials
  <2>5. lock = p /\ (Running = {} \/ raced)
    BY <2>1 DEF TunnelInv, Releasing
  <2>6. Dialing'
    BY <1>1, <2>1, <2>3, <2>4 DEF TunnelInv, Dialing, Waited, Tunnels
  <2>7. \A q \in Callers : pc'[q] # "release"
    BY <2>3, <2>5 DEF TunnelInv, Releasing
  <2>8. Releasing'
    BY <2>1, <2>4, <2>7 DEF TunnelInv, Releasing
  <2>9. Known'
    BY <2>1, <2>4, <2>5 DEF TunnelInv, Known
  <2>10. QED BY <2>6, <2>8, <2>9
<1>8. QED BY <1>4, <1>5, <1>6, <1>7 DEF SudoStep

LEMMA TunnelTunnels ==
  ASSUME TunnelInv, NEW i \in Slots, TunnelStep(i) \/ TunnelBreaks(i)
  PROVE  Dialing' /\ Releasing' /\ Known'
<1>1. /\ pc \in [Callers -> Labels] /\ tun \in [Slots -> Tunnels] /\ raced \in BOOLEAN
  BY DEF TunnelInv, NamedInv, TypeOK, Tunnels
<1>2. raced' = raced /\ lock' = lock
  BY DEF TunnelStep, TunnelUp, TunnelFails, TunnelReleases, TunnelBreaks
<1>3. CASE TunnelUp(i) \/ TunnelFails(i)
  <2> DEFINE p == tun[i].for
  <2>1. Dials(i)
    BY <1>3 DEF TunnelUp, TunnelFails, Dials
  <2>2. \A j \in Slots : Waited(j) => tun[j].for \in Callers /\ pc[tun[j].for] = "dialing"
    BY <1>1 DEF TunnelInv, Dialing, Waited, Tunnels
  <2>3. PICK r : Reply(i, r)
    BY <1>3 DEF TunnelUp, TunnelFails
  <2>4. p # None => p \in Callers /\ act[p].yes \in Outside /\ act[p].no \in Outside
    BY <2>1, <2>2 DEF TunnelInv, NamedInv, Named, CallsNamed, Waited
  <2>5. \A j \in Slots \ {i} : Waited(j) => p # tun[j].for
    BY <2>1 DEF TunnelInv, Dialing, Waited
  <2> HIDE DEF p
  <2>6. /\ \A q \in Callers \ {p} : pc'[q] = pc[q]
        /\ \A q \in Callers : pc'[q] = "release" => pc[q] = "release"
    <3>1. CASE p = None
      BY <2>3, <3>1 DEF Reply, p
    <3>2. CASE p # None
      <4>1. PICK l \in Outside : Goto(p, l)
        BY <2>3, <2>4, <3>2 DEF Reply, Answer, p
      <4>2. QED BY <1>1, <2>4, <3>2, <4>1 DEF Goto, Outside
    <3>3. QED BY <3>1, <3>2
  <2>7. ASSUME \A j \in Slots \ {i} :
                  /\ Waited(j)' => Waited(j) /\ tun'[j].for = tun[j].for
                  /\ tun'[j].st = "up" => tun'[j] = tun[j],
               ~Waited(i)', tun'[i].st = "up" => tun'[i].for = None
        PROVE  Dialing'
    BY <2>2, <2>5, <2>6, <2>7 DEF TunnelInv, Dialing
  <2>8. CASE TunnelUp(i)
    <3>1. /\ tun'[i].st = (IF tun[i].st = "dial" THEN "up" ELSE "off") /\ tun'[i].for = None
          /\ \A j \in Slots \ {i} : tun'[j] = tun[j]
          /\ UNCHANGED <<connected, cancels>>
      BY <1>1, <2>8 DEF TunnelUp
    <3>2. Running' = Running
      BY <2>1, <3>1 DEF Running, Dials
    <3>3. Dialing'
      BY <2>7, <3>1 DEF Waited, Dials
    <3>4. Known'
      BY <1>2, <3>1, <3>2 DEF TunnelInv, Known
    <3>5. Releasing'
      BY <1>2, <2>6, <3>1, <3>2 DEF TunnelInv, Releasing
    <3>6. QED BY <3>3, <3>4, <3>5
  <2>9. CASE TunnelFails(i)
    <3>1. /\ tun' = [Cancelled(tun) EXCEPT ![i] = [st |-> "release", for |-> None]]
          /\ cancels' = {} /\ connected' = connected
      BY <2>9 DEF TunnelFails
    <3>2. Cancelled(tun) = [j \in Slots |-> Cancelled(tun)[j]]
      BY DEF Cancelled
    <3>3. tun'[i].st = "release" /\ \A j \in Slots \ {i} : tun'[j] = Cancelled(tun)[j]
      BY <3>1, <3>2
    <3>4. \A j \in Slots \ {i} :
            /\ Waited(j)' => Waited(j) /\ tun'[j].for = tun[j].for
            /\ tun'[j].st = "release" => tun[j].st = "release"
            /\ tun'[j].st = "up" => tun'[j] = tun[j]
      <4>1. \A j \in Slots : [tun[j] EXCEPT !.st = "fail"].for = tun[j].for
                             /\ [tun[j] EXCEPT !.st = "fail"].st = "fail"
        BY <1>1 DEF Tunnels
      <4>2. SUFFICES ASSUME NEW j \in Slots \ {i}
                     PROVE  /\ Waited(j)' => Waited(j) /\ tun'[j].for = tun[j].for
                            /\ tun'[j].st = "release" => tun[j].st = "release"
                            /\ tun'[j].st = "up" => tun'[j] = tun[j]
        OBVIOUS
      <4>3. tun'[j] = IF j \notin cancels THEN tun[j]
                      ELSE IF tun[j].st = "up" THEN [st |-> "off", for |-> None]
                      ELSE IF tun[j].st = "dial" THEN [tun[j] EXCEPT !.st = "fail"]
                      ELSE tun[j]
        BY <3>3 DEF Cancelled
      <4>4. tun'[j] = tun[j] \/ tun'[j] = [st |-> "off", for |-> None]
            \/ (tun[j].st = "dial" /\ tun'[j] = [tun[j] EXCEPT !.st = "fail"])
        BY <4>3, Zenon
      <4>5. CASE tun'[j] = tun[j]
        BY <4>5 DEF Waited, Dials
      <4>6. CASE tun'[j] = [st |-> "off", for |-> None]
        BY <4>6 DEF Waited, Dials
      <4>7. CASE tun[j].st = "dial" /\ tun'[j] = [tun[j] EXCEPT !.st = "fail"]
        <5>1. tun'[j].for = tun[j].for /\ tun'[j].st = "fail"
          BY <4>1, <4>7
        <5>2. QED BY <4>7, <5>1 DEF Waited, Dials
      <4>8. QED BY <4>4, <4>5, <4>6, <4>7
    <3>5. Dialing'
      BY <2>7, <3>3, <3>4 DEF Waited, Dials
    <3>6. ~raced => Running' = {}
      BY <3>3, CancelledStops DEF Running
    <3>7. Known'
      BY <1>1, <1>2, <3>6 DEF Known
    <3>8. Releasing'
      BY <1>1, <1>2, <2>6, <3>6 DEF TunnelInv, Releasing
    <3>9. QED BY <3>5, <3>7, <3>8
  <2>10. QED BY <1>3, <2>8, <2>9
<1>4. CASE TunnelReleases(i)
  <2>1. /\ tun[i].st = "release" /\ connected' = Empty /\ tun' = [tun EXCEPT ![i].st = "off"]
        /\ UNCHANGED <<pc, cancels>>
    BY <1>4 DEF TunnelReleases
  <2>2. tun'[i].st = "off" /\ \A j \in Slots \ {i} : tun'[j] = tun[j]
    BY <1>1, <2>1 DEF Tunnels
  <2>3. Running' = Running /\ \A j \in Slots : Waited(j)' <=> Waited(j)
    BY <2>1, <2>2 DEF Running, Waited, Dials
  <2>4. Running = {} \/ raced
    BY <2>1 DEF TunnelInv, Releasing
  <2>5. Dialing'
    <3>1. \A j \in Slots : Waited(j) => j # i
      BY <2>1 DEF Waited, Dials
    <3>2. QED BY <2>1, <2>2, <2>3, <3>1 DEF TunnelInv, Dialing
  <2>6. Known' /\ Releasing'
    BY <1>2, <2>1, <2>2, <2>3, <2>4 DEF TunnelInv, Known, Releasing
  <2>7. QED BY <2>5, <2>6
<1>5. CASE TunnelBreaks(i)
  <2>1. /\ tun[i].st = "up" /\ tun' = [tun EXCEPT ![i].st = "dial"]
        /\ UNCHANGED <<pc, connected, cancels>>
    BY <1>5 DEF TunnelBreaks
  <2>2. /\ tun'[i].st = "dial" /\ tun'[i].for = tun[i].for /\ tun[i].for = None
        /\ \A j \in Slots \ {i} : tun'[j] = tun[j]
    BY <1>1, <2>1 DEF Tunnels, TunnelInv, Dialing
  <2>3. Running' = Running /\ ~Waited(i)' /\ \A j \in Slots \ {i} : Waited(j)' <=> Waited(j)
    BY <2>1, <2>2 DEF Running, Waited, Dials
  <2>4. Dialing'
    BY <2>1, <2>2, <2>3 DEF TunnelInv, Dialing
  <2>5. Known' /\ Releasing'
    BY <1>2, <2>1, <2>2, <2>3 DEF TunnelInv, Known, Releasing
  <2>6. QED BY <2>4, <2>5
<1>6. QED BY <1>3, <1>4, <1>5 DEF TunnelStep

LEMMA TunnelInvStep == TunnelInv /\ [Next]_vars => TunnelInv'
<1> SUFFICES ASSUME TunnelInv, [Next]_vars PROVE TunnelInv'
  OBVIOUS
<1>1. NamedInv'
  BY NamedStep DEF TunnelInv
<1>2. pc \in [Callers -> Labels] /\ Worker \in Callers /\ Commands \subseteq Callers
  BY Constants DEF TunnelInv, NamedInv, TypeOK
<1>3. ASSUME NEW p \in Commands, Operate(p) \/ CommandStep(p)
      PROVE  Dialing' /\ Releasing' /\ Known'
  <2>1. UNCHANGED <<connected, lock, tun, cancels, raced>> /\ pc[p] # "dialing"
    BY <1>3 DEF Operate, CommandStep, InitAgain, Decide, Stay, List, sudo, At
  <2>2. \E l \in {"init", "operate", "unlist", "list", "idle", "prepare"} : Goto(p, l)
    BY <1>3 DEF Operate, CommandStep, InitAgain, Decide, Stay, List, Leave, Send
  <2>3. QED BY <1>2, <2>1, <2>2, MovesTunnels
<1>4. ASSUME NEW p \in Callers, Unlist(p) PROVE Dialing' /\ Releasing' /\ Known'
  <2>1. UNCHANGED <<connected, lock, tun, cancels, raced>> /\ pc[p] # "dialing"
        /\ Goto(p, "prepare")
    BY <1>4 DEF Unlist, SendLeave, Send, sudo, At
  <2>2. QED BY <2>1, MovesTunnels
<1>5. ASSUME WorkerStep PROVE Dialing' /\ Releasing' /\ Known'
  <2>1. UNCHANGED <<connected, lock, tun, cancels, raced>> /\ pc[Worker] # "dialing"
    BY <1>5 DEF WorkerStep, Take, Check, Switched, Gone, sudo, At
  <2>2. \E l \in {"gone", "unlist", "check", "idle", "prepare"} : Goto(Worker, l)
    BY <1>5 DEF WorkerStep, Take, Check, Switched, Gone, Leave, Send
  <2>3. QED BY <1>2, <2>1, <2>2, MovesTunnels
<1>6. ASSUME NEW n \in Namespaces, Handle(n) \/ Resync(n) \/ WatchNamespace(n) \/ OthersDelete(n)
      PROVE  Dialing' /\ Releasing' /\ Known'
  BY <1>6, OutsideTunnels DEF Handle, Resync, WatchNamespace, OthersDelete, sudo
<1>o. ASSUME \/ \E n \in Namespaces : Relist(n) \/ CheckReverse(n) \/ OthersRead(n)
             \/ CheckPrepares \/ OthersPatch
      PROVE  Dialing' /\ Releasing' /\ Known'
  BY <1>o, OutsideTunnels DEF Relist, CheckReverse, OthersRead, CheckPrepares, OthersPatch, sudo
<1>7. ASSUME SudoRestarts PROVE Dialing' /\ Releasing' /\ Known'
  <2>1. \A i \in Slots : tun'[i].st = "off"
    BY <1>7 DEF SudoRestarts
  <2>2. \A p \in Callers : act[p].no \in Outside
    BY DEF TunnelInv, NamedInv, Named, CallsNamed
  <2>3. \A p \in Callers : pc'[p] # "release"
    BY <1>7, <2>2 DEF SudoRestarts, InSudo, Outside
  <2>4. Running' = {} /\ \A i \in Slots : ~Waited(i)'
    BY <2>1 DEF Running, Waited, Dials
  <2>5. Dialing' /\ Known'
    BY <2>1, <2>4 DEF Dialing, Known
  <2>6. QED BY <2>1, <2>3, <2>5 DEF Releasing
<1>8. ASSUME UserRestarts PROVE Dialing' /\ Releasing' /\ Known'
  <2>1. UNCHANGED <<connected, lock, tun, cancels, raced>>
    BY <1>8 DEF UserRestarts, sudo
  <2>2. \A p \in Callers : /\ pc[p] = "dialing" => pc'[p] = "dialing"
                           /\ pc'[p] = "release" => pc[p] = "release"
    BY <1>8 DEF UserRestarts, InSudo
  <2>3. QED BY <2>1, <2>2, OutsideTunnels
<1>9. ASSUME UNCHANGED vars PROVE Dialing' /\ Releasing' /\ Known'
  BY <1>9, OutsideTunnels DEF vars, sudo
<1>10. Dialing' /\ Releasing' /\ Known'
  BY <1>3, <1>4, <1>5, <1>6, <1>o, <1>7, <1>8, <1>9, SudoTunnels, TunnelTunnels DEF Next
<1>11. QED BY <1>1, <1>10 DEF TunnelInv

LEMMA TunnelAlways == Spec => []TunnelInv
BY TunnelInit, TunnelInvStep, PTL DEF Spec

(* Whatever the commands, the watchers, the tunnels, the other devices and *)
(* the restarts of either daemon do, every variable keeps its type, and    *)
(* funcChan never holds more than its capacity.                            *)
THEOREM TypeCorrect == Spec => []TypeOK
<1>1. TunnelInv => TypeOK
  BY DEF TunnelInv, NamedInv
<1>2. QED BY <1>1, TunnelAlways, PTL

(* A tunnel that runs is the only one, belongs to the connection of the    *)
(* sudo daemon and can be cancelled by its disconnect(), unless a          *)
(* connection was made while a goroutine whose DoConnect had failed was    *)
(* inside the disconnect() that it calls without the lock.                 *)
THEOREM TunnelsAreKnown == Spec => []TunnelIsKnown
<1>1. ASSUME Known PROVE TunnelIsKnown
  <2>1. CASE raced
    BY <2>1 DEF TunnelIsKnown
  <2>2. CASE ~raced
    <3>1. /\ \A i, j \in Running : i = j
          /\ Running \subseteq cancels
          /\ Running # {} => connected # Empty
      BY <1>1, <2>2 DEF Known
    <3>2. Cardinality(Running) <= 1
      <4>1. CASE Running = {}
        BY <4>1, FS_EmptySet
      <4>2. CASE Running # {}
        <5>1. PICK i \in Running : TRUE
          BY <4>2
        <5>2. Running = {i}
          BY <3>1, <5>1
        <5>3. Cardinality({i}) = 1
          BY FS_Singleton, Zenon
        <5>4. Cardinality(Running) = 1
          BY <5>2, <5>3, Zenon
        <5>5. QED BY <5>4
      <4>3. QED BY <4>1, <4>2
    <3>3. QED BY <3>1, <3>2 DEF TunnelIsKnown
  <2>3. QED BY <2>1, <2>2
<1>2. TunnelInv => TunnelIsKnown
  BY <1>1 DEF TunnelInv
<1>3. QED BY <1>2, TunnelAlways, PTL
=============================================================================
