------------------------- MODULE MetaWatcherProofs --------------------------
(***************************************************************************)
(* Proofs about MetaWatcher, for any names, developers, versions of the    *)
(* secret and restarts of the daemon.                                      *)
(***************************************************************************)
EXTENDS MetaWatcher, TLAPS

LEMMA MetaTypes ==
    /\ NoMarks \in Marks
    /\ Missing \in Metas \cup {Missing}
    /\ \A m \in Metas \cup {Missing} : m.marks \in Marks
    /\ \A marks \in Marks : [state |-> "INSTALLED", marks |-> marks] \in Metas
    /\ [state |-> "UNINSTALLED", marks |-> NoMarks] \in Metas
    /\ \A m \in Metas : [m EXCEPT !.state = "INSTALLED"] \in Metas
BY DEF NoMarks, Marks, Metas, Missing

LEMMA ViewType ==
    ASSUME TypeOK, NEW v \in 0..Len(log)
    PROVE  View(v) \in Metas \cup {Missing}
<1>1. CASE v = 0
  BY <1>1 DEF View
<1>2. CASE v # 0
  <2>1. v \in 1..Len(log)
    BY <1>2 DEF TypeOK
  <2> QED BY <1>2, <2>1 DEF View, TypeOK
<1> QED BY <1>1, <1>2

LEMMA NewestType == ASSUME TypeOK PROVE Newest \in Metas \cup {Missing}
<1>1. Len(log) \in 0..Len(log)
  BY DEF TypeOK
<1> QED BY <1>1, ViewType DEF Newest

-----------------------------------------------------------------------------
(* The events of a change of the marks *)

Holder == Users \cup {NoUser}

LEMMA OneEvent == ASSUME NEW e \in Event PROVE <<e>> \in Seq(Event)
OBVIOUS

LEMMA EndOfType == ASSUME NEW u \in Holder PROVE EndOf(u) \in Seq(Event)
<1>1. CASE u = NoUser
  BY <1>1 DEF EndOf
<1>2. CASE u # NoUser
  <2>1. End(u) \in Event
    BY <1>2 DEF Holder, End, Event
  <2> QED BY <1>2, <2>1, OneEvent DEF EndOf
<1> QED BY <1>1, <1>2

LEMMA StaOfType == ASSUME NEW u \in Holder PROVE StaOf(u) \in Seq(Event)
<1>1. CASE u = NoUser
  BY <1>1 DEF StaOf
<1>2. CASE u # NoUser
  <2>1. Sta(u) \in Event
    BY <1>2 DEF Holder, Sta, Event
  <2> QED BY <1>2, <2>1, OneEvent DEF StaOf
<1> QED BY <1>1, <1>2

LEMMA EventsType ==
    ASSUME NEW from \in Holder, NEW to \in Holder
    PROVE  Events(from, to) \in Seq(Event)
<1>1. << >> \in Seq(Event) /\ EndOf(from) \o StaOf(to) \in Seq(Event)
  BY EndOfType, StaOfType
<1> QED BY <1>1 DEF Events

(* Two leads in a row are one. *)
LEMMA LeadsConcat ==
    ASSUME NEW t, NEW c, NEW d, NEW p \in Seq(Event), NEW q \in Seq(Event),
           Leads(t, p, c), Leads(c, q, d)
    PROVE  Leads(t, p \o q, d)
<1>1. CASE p = << >>
  <2>1. p \o q = q
    BY <1>1
  <2> QED BY <1>1, <2>1 DEF Leads
<1>2. CASE q = << >>
  <2>1. p \o q = p
    BY <1>2
  <2> QED BY <1>2, <2>1 DEF Leads
<1>3. CASE p # << >> /\ q # << >>
  <2> DEFINE r == p \o q
  <2>1. /\ Len(r) = Len(p) + Len(q) /\ Len(p) \in Nat /\ Len(q) \in Nat
        /\ Len(p) > 0 /\ Len(q) > 0
    BY <1>3
  <2>2. r # << >>
    BY <2>1
  <2>3. \A i \in 1..Len(p) : r[i] = p[i]
    OBVIOUS
  <2>4. \A i \in 1..Len(q) : r[Len(p) + i] = q[i]
    OBVIOUS
  <2>5. c = After(p[Len(p)]) /\ d = After(q[Len(q)])
    BY <1>3 DEF Leads
  <2> HIDE DEF r
  <2>6. ASSUME NEW i \in 1..Len(r)
        PROVE  Before(r[i]) = IF i = 1 THEN t ELSE After(r[i - 1])
    <3>1. CASE i \in 1..Len(p)
      <4>1. i # 1 => r[i - 1] = p[i - 1]
        BY <3>1, <2>1, <2>3
      <4> QED BY <4>1, <3>1, <2>3 DEF Leads
    <3>2. CASE i = Len(p) + 1
      <4>1. r[i] = q[1] /\ r[i - 1] = p[Len(p)] /\ i # 1
        BY <3>2, <2>1, <2>3, <2>4
      <4>2. Before(q[1]) = c
        BY <2>1 DEF Leads
      <4> QED BY <4>1, <4>2, <2>5
    <3>3. CASE i > Len(p) + 1
      <4>1. PICK j \in 2..Len(q) : i = Len(p) + j
        <5>1. i - Len(p) \in 2..Len(q) /\ i = Len(p) + (i - Len(p))
          BY <3>3, <2>1
        <5> QED BY <5>1
      <4>2. r[i] = q[j] /\ r[i - 1] = q[j - 1] /\ i # 1 /\ j # 1 /\ j \in 1..Len(q)
        <5>1. j \in 1..Len(q) /\ j - 1 \in 1..Len(q) /\ i - 1 = Len(p) + (j - 1)
          BY <4>1, <2>1
        <5>2. r[Len(p) + j] = q[j] /\ r[Len(p) + (j - 1)] = q[j - 1]
          BY <5>1, <2>4
        <5> QED BY <5>1, <5>2, <4>1, <2>1
      <4>3. Before(q[j]) = After(q[j - 1])
        BY <4>2 DEF Leads
      <4> QED BY <4>2, <4>3
    <3> QED BY <3>1, <3>2, <3>3, <2>1
  <2>7. After(r[Len(r)]) = d
    BY <2>1, <2>4, <2>5
  <2> QED BY <2>2, <2>6, <2>7 DEF Leads, r
<1> QED BY <1>1, <1>2, <1>3

(* Events takes the listeners from the mark before to the mark after. *)
LEMMA EventsLead ==
    ASSUME NEW from \in Holder, NEW to \in Holder
    PROVE  Leads(from, Events(from, to), to)
<1>1. CASE from = to
  <2>1. Events(from, to) = << >>
    BY <1>1 DEF Events
  <2> QED BY <1>1, <2>1 DEF Leads
<1>2. CASE from # to
  <2>1. Leads(from, EndOf(from), NoUser)
    BY DEF Leads, EndOf, End, Before, After
  <2>2. Leads(NoUser, StaOf(to), to)
    BY DEF Leads, StaOf, Sta, Before, After
  <2> QED BY <1>2, <2>1, <2>2, EndOfType, StaOfType, LeadsConcat DEF Events
<1> QED BY <1>1, <1>2

LEMMA EmptyEvents == ASSUME NEW p \in Seq(Event) PROVE p = << >> <=> Len(p) = 0
OBVIOUS

(* A lead goes on when its first event is consumed. *)
LEMMA LeadsTail ==
    ASSUME NEW t, NEW c, NEW p \in Seq(Event), p # << >>, Leads(t, p, c)
    PROVE  Leads(After(Head(p)), Tail(p), c)
<1> DEFINE q == Tail(p)
<1>1. /\ Len(p) \in Nat /\ Len(p) > 0 /\ Len(q) = Len(p) - 1 /\ Head(p) = p[1]
      /\ q \in Seq(Event)
  OBVIOUS
<1>2. \A i \in 1..Len(q) : q[i] = p[i + 1]
  BY <1>1
<1>3. q = << >> <=> Len(p) = 1
  <2> HIDE DEF q
  <2>1. q = << >> <=> Len(q) = 0
    BY <1>1, EmptyEvents
  <2> QED BY <1>1, <2>1
<1> HIDE DEF q
<1>4. ASSUME NEW i \in 1..Len(q)
      PROVE  Before(q[i]) = IF i = 1 THEN After(p[1]) ELSE After(q[i - 1])
  <2>1. i + 1 \in 1..Len(p) /\ i + 1 # 1 /\ (i + 1) - 1 = i
    BY <1>1
  <2>2. Before(p[i + 1]) = After(p[i])
    BY <2>1 DEF Leads
  <2>3. i # 1 => q[i - 1] = p[i]
    BY <1>1, <1>2
  <2> QED BY <2>2, <2>3, <1>2
<1>5. c = After(p[Len(p)])
  BY DEF Leads
<1>6. q # << >> => q[Len(q)] = p[Len(p)]
  BY <1>1, <1>2, <1>3
<1> QED BY <1>1, <1>3, <1>4, <1>5, <1>6 DEF Leads, q
-----------------------------------------------------------------------------
(* Type correctness *)

Writes ==
    [step : {"none", "got", "update", "create", "failed"},
     op : {"none", "initial", "delete"}, shared : BOOLEAN, meta : Metas \cup {Missing}]

LEMMA NoWriteType == NoWrite \in Writes
BY MetaTypes DEF NoWrite, Writes

LEMMA JoinType ==
    ASSUME TypeOK, NEW m \in Metas \cup {Missing}, Join(m)
    PROVE  cache' \in Metas \cup {Missing} /\ pending' \in [Names -> Seq(Event)] /\ own' \in Writes
<1>1. \A n \in Names : cache.marks[n] \in Holder /\ m.marks[n] \in Holder
  BY MetaTypes DEF TypeOK, Marks, Holder
<1>2. ASSUME NEW n \in Names
      PROVE  pending[n] \o Events(cache.marks[n], m.marks[n]) \in Seq(Event)
  <2>1. pending[n] \in Seq(Event) /\ Events(cache.marks[n], m.marks[n]) \in Seq(Event)
    BY <1>1, EventsType DEF TypeOK
  <2> QED BY <2>1
<1>3. pending' \in [Names -> Seq(Event)]
  BY <1>2 DEF Join
<1>4. own' \in Writes
  BY DEF TypeOK, Writes, Join
<1> QED BY <1>3, <1>4 DEF Join

(* A version more leaves the old versions where they are. *)
LEMMA AppendType ==
    ASSUME TypeOK, NEW m \in Metas \cup {Missing}, log' = Append(log, m)
    PROVE  /\ log' \in Seq(Metas \cup {Missing})
           /\ Len(log) \in Nat /\ Len(log') = Len(log) + 1
           /\ \A v \in 0..Len(log) : v \in 0..Len(log')
           /\ pushes \subseteq 1..Len(log')
           /\ Len(log) + 1 \in 1..Len(log')
<1>1. /\ log' \in Seq(Metas \cup {Missing})
      /\ Len(log) \in Nat /\ Len(log') = Len(log) + 1
  BY DEF TypeOK
<1> QED BY <1>1 DEF TypeOK

LEMMA ChangeInPlaceType ==
    ASSUME TypeOK, NEW m \in Metas \cup {Missing}, NEW step \in {"update", "create", "failed"},
           ChangeInPlace(m, step)
    PROVE  TypeOK'
<1>1. own' \in Writes
  BY DEF TypeOK, Writes, ChangeInPlace
<1>2. cache' \in Metas \cup {Missing} /\ edited' \in BOOLEAN
  <2>1. CASE own.shared
    BY <2>1 DEF ChangeInPlace
  <2>2. CASE ~own.shared
    BY <2>2 DEF TypeOK, ChangeInPlace
  <2> QED BY <2>1, <2>2
<1> QED BY <1>1, <1>2 DEF TypeOK, Writes, ChangeInPlace, feed, events

LEMMA InitTypeOK == Init => TypeOK
<1> SUFFICES ASSUME Init PROVE TypeOK
  OBVIOUS
<1>1. own \in Writes
  BY NoWriteType DEF Init
<1>2. log \in Seq(Metas \cup {Missing}) /\ Len(log) = 0
  BY DEF Init
<1>3. restarts \in 0..MaxRestarts
  BY MetaWatcherAssumption DEF Init
<1>4. pending \in [Names -> Seq(Event)]
  BY DEF Init
<1>5. store \in 0..Len(log) /\ taken \in 0..Len(log) /\ pushes \subseteq 1..Len(log)
  BY <1>2 DEF Init
<1> QED BY <1>1, <1>2, <1>3, <1>4, <1>5, MetaTypes DEF Init, TypeOK, Writes

LEMMA NextTypeOK == TypeOK /\ [Next]_vars => TypeOK'
<1> SUFFICES ASSUME TypeOK, [Next]_vars PROVE TypeOK'
  OBVIOUS
<1> USE DEF feed, events, history
<1>1. ASSUME NEW m \in Metas \cup {Missing}, NEW local \in BOOLEAN, Write(m, local)
      PROVE  TypeOK'
  <2>1. log' = Append(log, m)
    BY <1>1 DEF Write
  <2>2. pushes' \subseteq 1..Len(log')
    BY <1>1, <2>1, AppendType DEF Write
  <2> QED BY <1>1, <2>1, <2>2, AppendType DEF Write, TypeOK
<1>2. ASSUME NEW v \in 1..Len(log), UpdateManually(v)
      PROVE  TypeOK'
  <2>1. View(v) \in Metas \cup {Missing}
    BY ViewType DEF TypeOK
  <2>2. cache' \in Metas \cup {Missing} /\ pending' \in [Names -> Seq(Event)] /\ own' \in Writes
    BY <1>2, <2>1, JoinType DEF UpdateManually
  <2> QED BY <1>2, <2>2 DEF UpdateManually, TypeOK, Writes
<1>3. ASSUME NEW v \in 1..Len(log), ListWatch(v)
      PROVE  TypeOK'
  BY <1>3 DEF ListWatch, TypeOK, Seen
<1>4. CASE Prepare
  <2>1. cache' \in Metas \cup {Missing} /\ pending' \in [Names -> Seq(Event)] /\ own' \in Writes
    <3>1. CASE Join(Newest)
      BY <3>1, NewestType, JoinType
    <3>2. CASE UNCHANGED <<cache, pending, own>>
      BY <3>2 DEF TypeOK, Writes
    <3> QED BY <1>4, <3>1, <3>2 DEF Prepare
  <2> QED BY <1>4, <2>1 DEF Prepare, TypeOK, Writes
<1>5. CASE Take
  BY <1>5 DEF Take, TypeOK
<1>6. CASE Process
  <2>1. View(taken) \in Metas \cup {Missing}
    BY ViewType DEF TypeOK
  <2>2. cache' \in Metas \cup {Missing} /\ pending' \in [Names -> Seq(Event)] /\ own' \in Writes
    BY <1>6, <2>1, JoinType DEF Process
  <2>3. taken' \in 0..Len(log')
    <3>1. Len(log) \in Nat /\ taken' = 0 /\ log' = log
      BY <1>6 DEF Process, TypeOK
    <3> QED BY <3>1
  <2> QED BY <1>6, <2>2, <2>3 DEF Process, TypeOK, Writes
<1>7. ASSUME NEW n \in Names, Consume(n)
      PROVE  TypeOK'
  <2>1. pending[n] \in Seq(Event) /\ pending[n] # << >>
    BY <1>7 DEF Consume, TypeOK
  <2>2. Tail(pending[n]) \in Seq(Event) /\ Head(pending[n]) \in Event
    BY <2>1
  <2>3. pending' \in [Names -> Seq(Event)]
    BY <1>7, <2>2 DEF Consume, TypeOK
  <2>4. After(Head(pending[n])) \in Users \cup {NoUser}
    BY <2>2 DEF After, Event
  <2>5. told' \in Marks
    BY <1>7, <2>4 DEF Consume, TypeOK, Marks
  <2> QED BY <1>7, <2>3, <2>5 DEF Consume, TypeOK
<1>8. ASSUME NEW op \in {"initial", "delete"}, GetMeta(op)
      PROVE  TypeOK'
  <2>1. own' \in Writes
    BY <1>8 DEF GetMeta, Writes, TypeOK
  <2> QED BY <1>8, <2>1 DEF GetMeta, TypeOK, Writes
<1>9. CASE OneTimesInitial
  <2>1. Newest # Missing => Newest \in Metas
    BY NewestType
  <2>2. own.meta.marks \in Marks
    BY MetaTypes DEF TypeOK
  <2>3. [state |-> "INSTALLED", marks |-> own.meta.marks] \in Metas
    BY <2>2, MetaTypes
  <2>4. Newest # Missing => [Newest EXCEPT !.state = "INSTALLED"] \in Metas
    BY <2>1, MetaTypes
  <2>5. CASE Newest = Missing
    <3>1. ChangeInPlace([state |-> "INSTALLED", marks |-> own.meta.marks], "create")
      BY <1>9, <2>5 DEF OneTimesInitial
    <3> QED BY <3>1, <2>3, ChangeInPlaceType
  <2>6. CASE Newest # Missing /\ ChangeInPlace([Newest EXCEPT !.state = "INSTALLED"], "update")
    BY <2>6, <2>4, ChangeInPlaceType
  <2>7. CASE Newest # Missing /\ ChangeInPlace(Newest, "failed")
    BY <2>7, <2>1, ChangeInPlaceType
  <2> QED BY <1>9, <2>5, <2>6, <2>7 DEF OneTimesInitial
<1>10. CASE Delete
  <2>1. ChangeInPlace([state |-> "UNINSTALLED", marks |-> NoMarks], "update")
    BY <1>10 DEF Delete
  <2> QED BY <2>1, MetaTypes, ChangeInPlaceType
<1>11. CASE WriteOwn
  <2>1. log' = Append(log, own.meta) /\ own.meta \in Metas \cup {Missing}
    BY <1>11 DEF WriteOwn, TypeOK
  <2>2. pushes' \subseteq 1..Len(log')
    BY <1>11, <2>1, AppendType DEF WriteOwn
  <2>3. own' \in Writes
    BY <1>11, NoWriteType DEF WriteOwn
  <2> QED BY <1>11, <2>1, <2>2, <2>3, AppendType DEF WriteOwn, TypeOK, Writes
<1>12. CASE WriteOwnFails
  <2>1. own' \in Writes
    BY <1>12, NoWriteType DEF WriteOwnFails
  <2> QED BY <1>12, <2>1 DEF WriteOwnFails, TypeOK, Writes
<1>13. CASE Restart
  <2>1. own' \in Writes
    BY <1>13, NoWriteType DEF Restart
  <2>2. restarts' \in 0..MaxRestarts
    BY <1>13, MetaWatcherAssumption DEF Restart, TypeOK
  <2>3. pending' \in [Names -> Seq(Event)]
    BY <1>13 DEF Restart
  <2>4. store' \in 0..Len(log') /\ taken' \in 0..Len(log')
    BY <1>13 DEF Restart, TypeOK
  <2> QED BY <1>13, <2>1, <2>2, <2>3, <2>4, MetaTypes DEF Restart, TypeOK, Writes
<1>14. CASE UNCHANGED vars
  BY <1>14 DEF vars, TypeOK
<1> QED BY <1>1, <1>2, <1>3, <1>4, <1>5, <1>6, <1>7, <1>8, <1>9, <1>10, <1>11, <1>12,
           <1>13, <1>14 DEF Next

(* The state keeps its types: whatever the order of pushes and watch, the  *)
(* cache holds a meta and the queue holds events of users.                 *)
THEOREM TypeCorrect == Spec => []TypeOK
BY InitTypeOK, NextTypeOK, PTL DEF Spec

-----------------------------------------------------------------------------
(* The events tell the listeners the cache *)

LEMMA JoinTells ==
    ASSUME TypeOK, Told, NEW m \in Metas \cup {Missing}, Join(m), told' = told
    PROVE  Told'
<1> SUFFICES ASSUME NEW n \in Names PROVE Leads(told'[n], pending'[n], cache'.marks[n])
  BY DEF Told
<1>1. cache.marks[n] \in Holder /\ m.marks[n] \in Holder /\ pending[n] \in Seq(Event)
  BY MetaTypes DEF TypeOK, Marks, Holder
<1>2. Leads(cache.marks[n], Events(cache.marks[n], m.marks[n]), m.marks[n])
  BY <1>1, EventsLead
<1>3. Leads(told[n], pending[n], cache.marks[n])
  BY DEF Told
<1>4. Events(cache.marks[n], m.marks[n]) \in Seq(Event)
  BY <1>1, EventsType
<1>5. Leads(told[n], pending[n] \o Events(cache.marks[n], m.marks[n]), m.marks[n])
  BY <1>1, <1>2, <1>3, <1>4, LeadsConcat
<1>6. pending'[n] = pending[n] \o Events(cache.marks[n], m.marks[n]) /\ cache' = m
  BY DEF Join
<1> QED BY <1>5, <1>6

LEMMA UnchangedTells ==
    ASSUME Told, UNCHANGED <<told, pending, cache>>
    PROVE  Told'
BY DEF Told

LEMMA ChangeInPlaceTells ==
    ASSUME NEW m, NEW step, ChangeInPlace(m, step), EventsTellCache
    PROVE  EventsTellCache'
<1> SUFFICES ASSUME ~edited' PROVE Told'
  BY DEF EventsTellCache
<1>1. ~edited /\ cache' = cache
  BY DEF ChangeInPlace
<1>2. UNCHANGED <<told, pending, cache>>
  BY <1>1 DEF ChangeInPlace, events
<1> QED BY <1>1, <1>2, UnchangedTells DEF EventsTellCache

LEMMA NothingLeads == Leads(NoUser, << >>, NoUser)
BY DEF Leads

LEMMA EmptyTells ==
    ASSUME told = NoMarks, pending = [n \in Names |-> << >>], cache = Missing
    PROVE  Told
<1>1. Leads(NoUser, << >>, NoUser)
  BY NothingLeads
<1>2. \A n \in Names : told[n] = NoUser /\ pending[n] = << >> /\ cache.marks[n] = NoUser
  BY DEF Missing, NoMarks
<1> QED BY <1>1, <1>2 DEF Told

LEMMA NextTells == TypeOK /\ EventsTellCache /\ [Next]_vars => EventsTellCache'
<1> SUFFICES ASSUME TypeOK, EventsTellCache, [Next]_vars PROVE EventsTellCache'
  OBVIOUS
<1> USE DEF feed, events, history
<1>1. ASSUME UNCHANGED <<edited, told, pending, cache>>
      PROVE  EventsTellCache'
  BY <1>1, UnchangedTells DEF EventsTellCache
<1>2. ASSUME NEW v \in 1..Len(log), UpdateManually(v)
      PROVE  EventsTellCache'
  <2>1. View(v) \in Metas \cup {Missing}
    BY ViewType DEF TypeOK
  <2> QED BY <1>2, <2>1, JoinTells DEF UpdateManually, EventsTellCache
<1>3. CASE Prepare
  <2>1. edited' = edited /\ told' = told
    BY <1>3 DEF Prepare
  <2>2. CASE Join(Newest)
    BY <2>1, <2>2, NewestType, JoinTells DEF EventsTellCache
  <2>3. CASE UNCHANGED <<cache, pending, own>>
    BY <1>1, <2>1, <2>3
  <2> QED BY <1>3, <2>2, <2>3 DEF Prepare
<1>4. CASE Process
  <2>1. View(taken) \in Metas \cup {Missing}
    BY ViewType DEF TypeOK
  <2> QED BY <1>4, <2>1, JoinTells DEF Process, EventsTellCache
<1>5. ASSUME NEW n \in Names, Consume(n)
      PROVE  EventsTellCache'
  <2> SUFFICES ASSUME ~edited', NEW k \in Names
               PROVE  Leads(told'[k], pending'[k], cache'.marks[k])
    BY DEF EventsTellCache, Told
  <2>1. ~edited /\ cache' = cache
    BY <1>5 DEF Consume
  <2>2. Leads(told[k], pending[k], cache.marks[k]) /\ pending[k] \in Seq(Event)
    BY <2>1 DEF EventsTellCache, Told, TypeOK
  <2>3. CASE k = n
    <3>1. pending[n] # << >> /\ told'[n] = After(Head(pending[n])) /\ pending'[n] = Tail(pending[n])
      BY <1>5 DEF Consume, TypeOK, Marks
    <3> QED BY <2>1, <2>2, <2>3, <3>1, LeadsTail
  <2>4. CASE k # n
    <3>1. told'[k] = told[k] /\ pending'[k] = pending[k]
      BY <1>5, <2>4 DEF Consume, TypeOK, Marks
    <3> QED BY <2>1, <2>2, <3>1
  <2> QED BY <2>3, <2>4
<1>6. CASE OneTimesInitial
  BY <1>6, ChangeInPlaceTells DEF OneTimesInitial
<1>7. CASE Delete
  BY <1>7, ChangeInPlaceTells DEF Delete
<1>8. CASE Restart
  <2>1. \A n \in Names : told'[n] = NoUser /\ pending'[n] = << >> /\ cache'.marks[n] = NoUser
    BY <1>8 DEF Restart, Missing, NoMarks
  <2>2. Told'
    BY <2>1, NothingLeads DEF Told
  <2> QED BY <2>2 DEF EventsTellCache
<1>9. ASSUME NEW m \in Metas \cup {Missing}, NEW local \in BOOLEAN, Write(m, local)
      PROVE  EventsTellCache'
  BY <1>1, <1>9 DEF Write
<1>10. ASSUME NEW v \in 1..Len(log), ListWatch(v)
       PROVE  EventsTellCache'
  BY <1>1, <1>10 DEF ListWatch
<1>11. CASE Take
  BY <1>1, <1>11 DEF Take
<1>12. ASSUME NEW op \in {"initial", "delete"}, GetMeta(op)
       PROVE  EventsTellCache'
  BY <1>1, <1>12 DEF GetMeta
<1>13. CASE WriteOwn
  BY <1>1, <1>13 DEF WriteOwn
<1>14. CASE WriteOwnFails
  BY <1>1, <1>14 DEF WriteOwnFails
<1>15. CASE UNCHANGED vars
  BY <1>1, <1>15 DEF vars
<1> QED BY <1>2, <1>3, <1>4, <1>5, <1>6, <1>7, <1>8, <1>9, <1>10, <1>11, <1>12, <1>13,
           <1>14, <1>15 DEF Next

(* Whatever the order in which pushes and the watch bring versions to the  *)
(* cache, and wherever the daemon restarts, the events in the queue of     *)
(* application_secret_event.go lead the listeners to the marks of the      *)
(* cache, as long as no meta of the cache is changed in place.             *)
THEOREM EventsFollowCache == Spec => []EventsTellCache
<1>1. Init => EventsTellCache
  BY EmptyTells DEF Init, EventsTellCache
<1> QED BY <1>1, NextTells, TypeCorrect, PTL DEF Spec
=============================================================================
