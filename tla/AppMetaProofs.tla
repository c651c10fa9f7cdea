---------------------------- MODULE AppMetaProofs ---------------------------
(***************************************************************************)
(* Proofs about AppMeta, for any number of users, workloads, processes,    *)
(* attempts, commands and faults.                                          *)
(***************************************************************************)
EXTENDS AppMeta, TLAPS

(* A field that is not marked is free: the marks of an absent secret. *)
LEMMA NoMarksType == NoMarks \in Marks
BY DEF NoMarks, Marks

LEMMA FirstVersions ==
    /\ Absent \in Version /\ Installed \in Version
    /\ [Absent EXCEPT !.state = "INSTALLING"] \in Version
BY NoMarksType DEF Absent, Installed, Version, States

LEMMA OneVersion ==
    ASSUME NEW x \in Version
    PROVE  <<x>> \in Seq(Version) /\ Len(<<x>>) = 1 /\ <<x>>[1] = x
OBVIOUS

(* What the operations of a copy make of it is again a copy. *)
LEMMA EditTypes ==
    ASSUME NEW m \in Version, NEW k \in Keys, NEW u \in Users
    PROVE  /\ WithStarting(m, k, u) \in Version
           /\ WithStarted(m, k, u) \in Version
           /\ WithoutDev(m, k) \in Version
           /\ Deleted(m) \in Version
           /\ [m EXCEPT !.state = "INSTALLING"] \in Version
           /\ [m EXCEPT !.state = "INSTALLED"] \in Version
BY NoMarksType DEF WithStarting, WithStarted, WithoutDev, Deleted, Version, Marks, States

LEMMA ViewType ==
    ASSUME TypeOK, NEW v \in 0..Len(log)
    PROVE  View(v) \in Version
<1>1. CASE v = 0
  BY <1>1, FirstVersions DEF View
<1>2. CASE v # 0
  <2>1. v \in 1..Len(log)
    BY <1>2 DEF TypeOK
  <2> QED BY <1>2, <2>1 DEF View, TypeOK
<1> QED BY <1>1, <1>2

LEMMA KeyTypes ==
    ASSUME NEW s \in Svcs, NEW u \in Users
    PROVE  ReplaceKey(s) \in Keys /\ DuplicateKey(s, u) \in Keys
BY DEF ReplaceKey, DuplicateKey, Keys

LEMMA LabelTypes ==
    ASSUME NEW l \in Updating
    PROVE  OnOk(l) \in Updating \cup Between /\ OnError(l) \in Updating \cup Between
BY DEF OnOk, OnError, Updating, Between

-----------------------------------------------------------------------------
(* Type correctness *)

LEMMA InitTypeOK == Init => TypeOK
<1> SUFFICES ASSUME Init PROVE TypeOK
  OBVIOUS
<1>1. log \in Seq(Version)
  <2>1. log = << >> \/ log = <<Installed>>
    BY AppMetaAssumption DEF Init
  <2>2. << >> \in Seq(Version)
    OBVIOUS
  <2>3. <<Installed>> \in Seq(Version)
    BY FirstVersions, OneVersion
  <2> QED BY <2>1, <2>2, <2>3
<1>2. 0 \in 0..Len(log) /\ 0 \in 0..(MaxAttempts - 1)
  BY <1>1, AppMetaAssumption
<1>3. meta \in [Clients -> Version]
  BY FirstVersions DEF Init
<1>4. pc \in [Clients -> Updating \cup Between] /\ key \in [Clients -> Keys \cup {NoKey}]
  BY DEF Init, Between
<1>5. /\ base \in [Clients -> 0..Len(log)] /\ src \in [Clients -> 0..Len(log)]
      /\ tries \in [Clients -> 0..(MaxAttempts - 1)]
  BY <1>2 DEF Init
<1>6. cmds \in 0..MaxCommands /\ saves \in 0..MaxSaves /\ faults \in 0..MaxFaults
  BY AppMetaAssumption DEF Init
<1>7. clean \in 0..Len(log)
  BY <1>1 DEF Init
<1> QED BY <1>1, <1>3, <1>4, <1>5, <1>6, <1>7 DEF TypeOK

LEMMA CommandType ==
    ASSUME TypeOK, NEW c \in Clients, NEW v \in 0..Len(log), NEW m \in Version,
           NEW l \in Updating \cup Between, Command(c, v, m, l),
           key' \in [Clients -> Keys \cup {NoKey}]
    PROVE  TypeOK'
<1>1. cmds' \in 0..MaxCommands
  BY AppMetaAssumption DEF TypeOK, Command
<1> QED BY <1>1 DEF TypeOK, Command, Goto

LEMMA BeginType ==
    ASSUME TypeOK, NEW c \in Clients, NEW k \in Keys, NEW m \in Version,
           NEW l \in Updating \cup Between, Begin(c, k, m, l)
    PROVE  TypeOK'
BY DEF TypeOK, Begin, Goto, bounds

LEMMA EditType ==
    ASSUME TypeOK, NEW c \in Clients, NEW m \in Version,
           NEW l \in Updating \cup Between, Edit(c, m, l)
    PROVE  TypeOK'
BY DEF TypeOK, Edit, Goto, bounds

LEMMA FaultType == ASSUME TypeOK, Fault PROVE faults' \in 0..MaxFaults
BY AppMetaAssumption DEF TypeOK, Fault

LEMMA WriteType ==
    ASSUME TypeOK, NEW c \in Clients, Write(c)
    PROVE  /\ log' \in Seq(Version) /\ Len(log') = Len(log) + 1
           /\ src' \in [Clients -> 0..Len(log')] /\ clean' \in 0..Len(log')
           /\ \A i \in 1..Len(log) : log'[i] = log[i]
           /\ log'[Len(log')] = meta[c]
           /\ Current' = meta[c]
<1>1. log \in Seq(Version) /\ meta[c] \in Version
  BY DEF TypeOK
<1>2. log' \in Seq(Version) /\ Len(log') = Len(log) + 1
  BY <1>1 DEF Write
<1>3. \A i \in 1..Len(log) : log'[i] = log[i]
  BY <1>1 DEF Write
<1>4. log'[Len(log')] = meta[c]
  BY <1>1 DEF Write
<1>5. src' \in [Clients -> 0..Len(log')]
  <2>1. 0..Len(log) \subseteq 0..Len(log') /\ Len(log) + 1 \in 0..Len(log')
    BY <1>1, <1>2
  <2>2. src \in [Clients -> 0..Len(log')]
    BY <2>1 DEF TypeOK
  <2> QED BY <2>1, <2>2 DEF Write
<1>6. Current' = meta[c]
  BY <1>1, <1>2, <1>4 DEF Current, View
<1>7. clean' \in 0..Len(log')
  BY <1>1, <1>2 DEF Write, TypeOK
<1> QED BY <1>2, <1>3, <1>4, <1>5, <1>6, <1>7

LEMMA RetryType ==
    ASSUME TypeOK, NEW c \in Clients, pc[c] \in Updating, Retry(c),
           log' \in Seq(Version), Len(log') >= Len(log)
    PROVE  /\ pc' \in [Clients -> Updating \cup Between]
           /\ base' \in [Clients -> 0..Len(log')]
           /\ tries' \in [Clients -> 0..(MaxAttempts - 1)]
<1>1. base' \in [Clients -> 0..Len(log')]
  <2>1. log \in Seq(Version) BY DEF TypeOK
  <2>2. 0..Len(log) \subseteq 0..Len(log') /\ Len(log') \in 0..Len(log')
    BY <2>1
  <2> QED BY <2>2 DEF TypeOK, Retry
<1>2. tries' \in [Clients -> 0..(MaxAttempts - 1)]
  <2>1. tries[c] \in 0..(MaxAttempts - 1) /\ 0 \in 0..(MaxAttempts - 1)
    BY AppMetaAssumption DEF TypeOK
  <2>2. tries[c] + 1 < MaxAttempts => tries[c] + 1 \in 0..(MaxAttempts - 1)
    BY <2>1, AppMetaAssumption
  <2> QED BY <2>1, <2>2 DEF TypeOK, Retry
<1>3. pc' \in [Clients -> Updating \cup Between]
  BY LabelTypes DEF TypeOK, Retry, Goto
<1> QED BY <1>1, <1>2, <1>3

LEMMA NextTypeOK == TypeOK /\ [Next]_vars => TypeOK'
<1> SUFFICES ASSUME TypeOK, [Next]_vars PROVE TypeOK'
  OBVIOUS
<1>1. CASE UNCHANGED vars
  BY <1>1 DEF TypeOK, vars, client, bounds
<1>2. CASE Finished
  BY <1>2 DEF Finished, TypeOK, vars, client, bounds
<1>3. ASSUME NEW c \in Clients, UpdateStep(c) PROVE TypeOK'
  <2>1. CASE UpdateAccepted(c)
    <3>1. Write(c) /\ pc[c] \in Updating
      BY <2>1 DEF UpdateAccepted, Write
    <3>2. base' \in [Clients -> 0..Len(log')]
      <4>1. log \in Seq(Version) BY DEF TypeOK
      <4>2. 0..Len(log) \subseteq 0..Len(log') /\ Len(log) + 1 \in 0..Len(log')
        BY <3>1, <4>1, WriteType
      <4> QED BY <2>1, <4>2 DEF UpdateAccepted, TypeOK
    <3>3. 0 \in 0..(MaxAttempts - 1)
      BY AppMetaAssumption
    <3>4. tries' \in [Clients -> 0..(MaxAttempts - 1)]
      BY <2>1, <3>3 DEF UpdateAccepted, TypeOK
    <3>5. pc' \in [Clients -> Updating \cup Between]
      BY <2>1, <3>1, LabelTypes DEF UpdateAccepted, TypeOK, Goto
    <3> QED BY <2>1, <3>1, <3>2, <3>4, <3>5, WriteType DEF UpdateAccepted, TypeOK, bounds
  <2>2. CASE UpdateLost(c)
    <3>1. Write(c) /\ Retry(c) /\ Fault /\ pc[c] \in Updating
      BY <2>2 DEF UpdateLost, Write
    <3>2. log' \in Seq(Version) /\ Len(log') >= Len(log)
      BY <3>1, WriteType DEF TypeOK
    <3> QED BY <3>1, <3>2, WriteType, RetryType, FaultType DEF Retry, TypeOK
  <2>3. CASE UpdateRefused(c)
    <3>1. Retry(c) /\ pc[c] \in Updating /\ UNCHANGED <<log, src, clean>>
      BY <2>3 DEF UpdateRefused
    <3>2. log' \in Seq(Version) /\ Len(log') >= Len(log)
      BY <3>1 DEF TypeOK
    <3>3. faults' \in 0..MaxFaults
      BY <2>3, FaultType DEF UpdateRefused, TypeOK
    <3> QED BY <3>1, <3>2, <3>3, RetryType DEF Retry, TypeOK
  <2> QED BY <1>3, <2>1, <2>2, <2>3 DEF UpdateStep
<1>4. ASSUME NEW c \in Clients, DevStep(c) PROVE TypeOK'
  <2>0. Owner[c] \in Users /\ meta[c] \in Version /\ key[c] \in Keys \cup {NoKey}
    BY AppMetaAssumption DEF TypeOK
  <2>1. ASSUME NEW s \in Svcs, DevEnd(c, s) PROVE TypeOK'
    <3>1. CurrentKey(meta[c], s, Owner[c]) \in Keys
      BY <2>0, KeyTypes DEF CurrentKey
    <3>2. WithoutDev(meta[c], CurrentKey(meta[c], s, Owner[c])) \in Version
      BY <2>0, <3>1, EditTypes
    <3> QED BY <2>1, <3>1, <3>2, BeginType DEF DevEnd, Updating
  <2>2. ASSUME NEW s \in Svcs, NEW header \in BOOLEAN, StartDevMode(c, s, header)
        PROVE  TypeOK'
    <3>1. PICK k \in {ReplaceKey(s), DuplicateKey(s, Owner[c])} : Begin(c, k, meta[c], "loaded")
      BY <2>2 DEF StartDevMode
    <3>2. k \in Keys
      BY <2>0, KeyTypes
    <3> QED BY <2>0, <3>1, <3>2, BeginType DEF Between
  <2>9. ASSUME NEW v \in 0..Len(log), NewApplication(c, v) PROVE TypeOK'
    BY <2>9, ViewType, CommandType DEF NewApplication, Between, TypeOK
  <2>10. CASE SaveFields(c)
    <3>1. saves' \in 0..MaxSaves
      BY <2>10, AppMetaAssumption DEF SaveFields, TypeOK
    <3> QED BY <2>10, <3>1 DEF SaveFields, TypeOK, Goto, Updating
  <2>3. CASE ReloadSvcCfg(c)
    BY <2>0, <2>3, EditType DEF ReloadSvcCfg, Updating
  <2>4. CASE SvcDevStarting(c)
    <3>1. WithStarting(meta[c], key[c], Owner[c]) \in Version
      BY <2>0, NoMarksType DEF WithStarting, Version, Marks
    <3> QED BY <2>0, <2>4, <3>1, EditType DEF SvcDevStarting, Updating, Between
  <2>5. CASE SvcDevStartComplete(c)
    <3>1. WithStarted(meta[c], key[c], Owner[c]) \in Version
      BY <2>0, NoMarksType DEF WithStarted, Version, Marks
    <3> QED BY <2>0, <2>5, <3>1, EditType DEF SvcDevStartComplete, Updating, Between
  <2>6. WithoutDev(meta[c], key[c]) \in Version
    BY <2>0, NoMarksType DEF WithoutDev, Version, Marks
  <2>7. CASE ReplaceImageFails(c)
    BY <2>6, <2>7, EditType DEF ReplaceImageFails, Updating
  <2>8. CASE RollBackDevStart(c)
    BY <2>6, <2>8, EditType DEF RollBackDevStart, Updating
  <2> QED BY <1>4, <2>1, <2>2, <2>3, <2>4, <2>5, <2>7, <2>8, <2>9, <2>10 DEF DevStep, EndDevMode, DevReset
<1>5. ASSUME NEW c \in Clients, InstallStep(c) PROVE TypeOK'
  <2>0. meta[c] \in Version /\ log \in Seq(Version)
    BY DEF TypeOK
  <2>1. ASSUME NEW m \in Version
        PROVE  /\ Deleted(m) \in Version
               /\ [m EXCEPT !.state = "INSTALLING"] \in Version
               /\ [m EXCEPT !.state = "INSTALLED"] \in Version
    BY NoMarksType DEF Deleted, Version, States
  <2>2. ASSUME NEW v \in 0..Len(log), Uninstall(c, v) PROVE TypeOK'
    BY <2>1, <2>2, ViewType, CommandType DEF Uninstall, Updating, TypeOK
  <2>3. ASSUME NEW v \in 0..Len(log), BuildApplication(c, v) PROVE TypeOK'
    BY <2>3, ViewType, CommandType DEF BuildApplication, Between, TypeOK
  <2>4. CASE Initial(c)
    <3>1. Len(log) \in 0..Len(log)
      BY <2>0
    <3>2. [Current EXCEPT !.state = "INSTALLING"] \in Version
      BY <2>1, <3>1, ViewType DEF Current
    <3> QED BY <2>4, <3>1, <3>2 DEF Initial, TypeOK, Goto, Updating, Between, bounds
  <2>5. CASE CreateSecret(c)
    <3>1. CASE log = << >>
      <4>1. /\ log' \in Seq(Version) /\ 0..Len(log) \subseteq 0..Len(log')
            /\ 1 \in 0..Len(log')
        <5>1. log' = <<[Absent EXCEPT !.state = "INSTALLING"]>>
          BY <2>5, <3>1 DEF CreateSecret
        <5>2. log' \in Seq(Version) /\ Len(log') = 1
          BY <5>1, FirstVersions, OneVersion
        <5> QED BY <3>1, <5>2
      <4> QED BY <2>5, <3>1, <4>1, FirstVersions
              DEF CreateSecret, TypeOK, Goto, Between, bounds
    <3>2. CASE log # << >>
      BY <2>5, <3>2 DEF CreateSecret, TypeOK, Goto, Between, bounds
    <3> QED BY <3>1, <3>2
  <2>6. CASE SaveConfig(c)
    BY <2>0, <2>6, EditType DEF SaveConfig, Updating
  <2>7. CASE SaveManifest(c)
    BY <2>0, <2>7, EditType DEF SaveManifest, Updating
  <2>8. CASE InstallSucceeds(c)
    BY <2>0, <2>1, <2>8, EditType DEF InstallSucceeds, Updating
  <2>9. CASE InstallFails(c)
    BY <2>0, <2>1, <2>9, EditType DEF InstallFails, Updating
  <2> QED BY <1>5, <2>2, <2>3, <2>4, <2>5, <2>6, <2>7, <2>8, <2>9 DEF InstallStep
<1>6. ASSUME NEW c \in Clients, Exit(c) PROVE TypeOK'
  <2>1. 0 \in 0..(MaxAttempts - 1)
    BY AppMetaAssumption
  <2> QED BY <1>6, <2>1 DEF Exit, TypeOK, Goto, Between, bounds
<1> QED BY <1>1, <1>2, <1>3, <1>4, <1>5, <1>6 DEF Next

(* Every variable of AppMeta keeps its type: in particular no process ever *)
(* names a version that the server has not made.                           *)
THEOREM TypeCorrect == Spec => []TypeOK
BY InitTypeOK, NextTypeOK, PTL DEF Spec

-----------------------------------------------------------------------------
(* The inductive invariant *)

LEMMA FirstVersionsSound ==
    /\ Sound(Absent) /\ Sound(Installed)
    /\ Sound([Absent EXCEPT !.state = "INSTALLING"])
BY DEF Sound, Coherent, CleanIfUninstalled, Absent, Installed, NoMarks

(* Ending a dev mode and changing the state of the application keep a copy *)
(* sound ...                                                               *)
LEMMA EndSound ==
    ASSUME NEW m \in Version, Sound(m), NEW k \in Keys
    PROVE  Sound(WithoutDev(m, k))
<1>1. Coherent(WithoutDev(m, k))
  BY DEF Sound, Coherent, WithoutDev, Version, Marks
<1>2. CleanIfUninstalled(WithoutDev(m, k))
  BY DEF Sound, CleanIfUninstalled, WithoutDev, Version, Marks, NoMarks
<1> QED BY <1>1, <1>2 DEF Sound

LEMMA StateSound ==
    ASSUME NEW m \in Version, Sound(m)
    PROVE  /\ Sound(Deleted(m))
           /\ Sound([m EXCEPT !.state = "INSTALLING"])
           /\ Sound([m EXCEPT !.state = "INSTALLED"])
<1>1. Sound(Deleted(m))
  BY DEF Sound, Coherent, CleanIfUninstalled, Deleted, Version, NoMarks
<1>2. Sound([m EXCEPT !.state = "INSTALLING"]) /\ Sound([m EXCEPT !.state = "INSTALLED"])
  BY DEF Sound, Coherent, CleanIfUninstalled, Version
<1> QED BY <1>1, <1>2

(* ... and so do the marks of a user who may hold the key of an installed  *)
(* application.                                                            *)
LEMMA StartSound ==
    ASSUME NEW m \in Version, Sound(m), NEW k \in Keys, NEW u \in DM!MayHold(k) \cap Users,
           m.state = "INSTALLED", m.started[k] = NoUser
    PROVE  Sound(WithStarting(m, k, u)) /\ Sound(WithStarted(m, k, u))
<1>1. Coherent(WithStarting(m, k, u)) /\ Coherent(WithStarted(m, k, u))
  BY DEF Sound, Coherent, WithStarting, WithStarted, Version, Marks
<1>2. CleanIfUninstalled(WithStarting(m, k, u)) /\ CleanIfUninstalled(WithStarted(m, k, u))
  BY DEF CleanIfUninstalled, WithStarting, WithStarted, Version
<1> QED BY <1>1, <1>2 DEF Sound

LEMMA ViewSound ==
    ASSUME IInv, NEW v \in 0..Len(log)
    PROVE  Sound(View(v))
<1>1. CASE v = 0
  BY <1>1, FirstVersionsSound DEF View
<1>2. CASE v # 0
  <2>1. v \in 1..Len(log)
    BY <1>2 DEF IInv, TypeOK
  <2> QED BY <1>2, <2>1 DEF View, IInv
<1> QED BY <1>1, <1>2

(* A step of c leaves the other processes where they were, and no version  *)
(* of the secret ever changes.                                             *)
OnlyMoves(c) ==
    \A d \in Clients \ {c} :
        pc'[d] = pc[d] /\ key'[d] = key[d] /\ meta'[d] = meta[d] /\ src'[d] = src[d]

LogKept == Len(log') >= Len(log) /\ \A i \in 1..Len(log) : log'[i] = log[i]

LEMMA ViewKept ==
    ASSUME TypeOK, LogKept, NEW d \in Clients, src'[d] = src[d]
    PROVE  View(src[d])' = View(src[d])
<1>1. src[d] \in 0..Len(log) /\ log \in Seq(Version)
  BY DEF TypeOK
<1>2. CASE src[d] = 0
  BY <1>2 DEF View
<1>3. CASE src[d] # 0
  <2>1. src[d] \in 1..Len(log)
    BY <1>1, <1>3
  <2> QED BY <1>3, <2>1 DEF View, LogKept
<1> QED BY <1>2, <1>3

LEMMA StepOfOne ==
    ASSUME IInv, TypeOK', NEW c \in Clients, OnlyMoves(c), LogKept,
           \A v \in 1..Len(log') : Sound(log'[v]), Sound(meta'[c]), InStep(c)'
    PROVE  IInv'
<1>1. ASSUME NEW d \in Clients \ {c} PROVE Sound(meta'[d]) /\ InStep(d)'
  <2>1. pc'[d] = pc[d] /\ key'[d] = key[d] /\ meta'[d] = meta[d] /\ src'[d] = src[d]
    BY DEF OnlyMoves
  <2>2. View(src[d])' = View(src[d])
    BY <2>1, ViewKept DEF IInv
  <2>3. InStep(d) /\ Sound(meta[d])
    BY DEF IInv
  <2> QED BY <2>1, <2>2, <2>3 DEF InStep
<1> QED BY <1>1 DEF IInv

(* Loading, editing in memory and failing add no version. *)
LEMMA StepWithoutWrite ==
    ASSUME IInv, TypeOK', NEW c \in Clients, OnlyMoves(c), log' = log,
           Sound(meta'[c]), InStep(c)'
    PROVE  IInv'
<1>1. LogKept
  BY DEF LogKept, IInv, TypeOK
<1>2. \A v \in 1..Len(log') : Sound(log'[v])
  BY DEF IInv
<1> QED BY <1>1, <1>2, StepOfOne

LEMMA CommandMoves ==
    ASSUME TypeOK, NEW c \in Clients, NEW v, NEW m, NEW l, Command(c, v, m, l),
           key' = key \/ \E k \in Keys : key' = [key EXCEPT ![c] = k]
    PROVE  /\ OnlyMoves(c) /\ log' = log
           /\ meta'[c] = m /\ src'[c] = v /\ pc'[c] = l
           /\ View(src[c])' = View(v)
<1>1. OnlyMoves(c)
  BY DEF OnlyMoves, Command, Goto, TypeOK
<1>2. log' = log /\ meta'[c] = m /\ src'[c] = v /\ pc'[c] = l
  BY DEF Command, Goto, TypeOK
<1> QED BY <1>1, <1>2 DEF View

LEMMA BeginMoves ==
    ASSUME TypeOK, NEW c \in Clients, NEW k, NEW m, NEW l, Begin(c, k, m, l)
    PROVE  /\ OnlyMoves(c) /\ log' = log
           /\ meta'[c] = m /\ pc'[c] = l /\ src'[c] = src[c] /\ key'[c] = k
           /\ View(src[c])' = View(src[c])
<1>1. OnlyMoves(c)
  BY DEF OnlyMoves, Begin, Goto, TypeOK
<1>2. log' = log /\ meta'[c] = m /\ pc'[c] = l /\ src'[c] = src[c] /\ key'[c] = k
  BY DEF Begin, Goto, TypeOK
<1> QED BY <1>1, <1>2 DEF View

LEMMA EditMoves ==
    ASSUME TypeOK, NEW c \in Clients, NEW m, NEW l, Edit(c, m, l)
    PROVE  /\ OnlyMoves(c) /\ log' = log
           /\ meta'[c] = m /\ pc'[c] = l /\ src'[c] = src[c] /\ key'[c] = key[c]
           /\ View(src[c])' = View(src[c])
<1>1. OnlyMoves(c)
  BY DEF OnlyMoves, Edit, Goto, TypeOK
<1>2. log' = log /\ meta'[c] = m /\ pc'[c] = l /\ src'[c] = src[c] /\ key'[c] = key[c]
  BY DEF Edit, Goto, TypeOK
<1> QED BY <1>1, <1>2 DEF View

LEMMA MayHoldOwn ==
    ASSUME NEW s \in Svcs, NEW u \in Users
    PROVE  u \in DM!MayHold(ReplaceKey(s)) /\ u \in DM!MayHold(DuplicateKey(s, u))
BY AppMetaAssumption DEF DM!MayHold, ReplaceKey, DuplicateKey

LEMMA DevStepIInv ==
    ASSUME IInv, TypeOK', NEW c \in Clients, DevStep(c)
    PROVE  IInv'
<1>0. /\ TypeOK /\ Owner[c] \in Users /\ meta[c] \in Version /\ Sound(meta[c]) /\ InStep(c)
      /\ src[c] \in 0..Len(log)
  BY AppMetaAssumption DEF IInv, TypeOK
<1>1. ASSUME NEW s \in Svcs, DevEnd(c, s) PROVE IInv'
  <2> DEFINE k == CurrentKey(meta[c], s, Owner[c])
  <2>1. k \in Keys /\ View(src[c]) \in Version
    BY <1>0, KeyTypes, ViewType DEF CurrentKey
  <2>2. Sound(WithoutDev(meta[c], k))
    BY <1>0, <2>1, EndSound
  <2>3. Begin(c, k, WithoutDev(meta[c], k), "end") /\ pc[c] = "app"
    BY <1>1 DEF DevEnd, Begin
  <2> HIDE DEF k
  <2>4. SameMarks(WithoutDev(meta[c], k), WithoutDev(View(src[c]), k))
    <3>1. SameMarks(meta[c], View(src[c]))
      BY <1>0, <2>3 DEF InStep
    <3> QED BY <1>0, <2>1, <3>1 DEF SameMarks, WithoutDev, Version
  <2>5. InStep(c)'
    BY <1>0, <2>1, <2>3, <2>4, BeginMoves DEF InStep
  <2> QED BY <1>0, <2>2, <2>3, <2>5, BeginMoves, StepWithoutWrite
<1>2. ASSUME NEW s \in Svcs, NEW header \in BOOLEAN, StartDevMode(c, s, header)
      PROVE  IInv'
  <2>1. PICK k \in {ReplaceKey(s), DuplicateKey(s, Owner[c])} : Begin(c, k, meta[c], "loaded")
    BY <1>2 DEF StartDevMode
  <2>2. k \in Keys /\ Owner[c] \in DM!MayHold(k)
    BY <1>0, KeyTypes, MayHoldOwn
  <2>3. meta[c].state = "INSTALLED" /\ pc[c] = "app"
    BY <1>2, <2>1 DEF StartDevMode, Begin
  <2>4. SameMarks(meta[c], View(src[c]))
    BY <1>0, <2>3 DEF InStep
  <2>5. InStep(c)'
    BY <1>0, <2>1, <2>2, <2>3, <2>4, BeginMoves DEF InStep
  <2> QED BY <1>0, <2>1, <2>5, BeginMoves, StepWithoutWrite
<1>9. ASSUME NEW v \in 0..Len(log), NewApplication(c, v) PROVE IInv'
  <2>1. Command(c, v, View(v), "app") /\ key' = key
    BY <1>9 DEF NewApplication
  <2>2. /\ OnlyMoves(c) /\ log' = log /\ meta'[c] = View(v) /\ pc'[c] = "app"
        /\ View(src[c])' = View(v)
    BY <1>0, <2>1, CommandMoves
  <2>3. InStep(c)'
    BY <2>2 DEF InStep, SameMarks
  <2> QED BY <2>2, <2>3, ViewSound, StepWithoutWrite
<1>10. CASE SaveFields(c)
  <2>1. OnlyMoves(c) /\ log' = log /\ meta' = meta /\ src' = src /\ pc'[c] = "save" /\ pc[c] = "app"
    BY <1>0, <1>10 DEF SaveFields, OnlyMoves, Goto, TypeOK
  <2>2. InStep(c)'
    BY <1>0, <2>1 DEF InStep, View
  <2> QED BY <1>0, <2>1, <2>2, StepWithoutWrite
<1>3. CASE ReloadSvcCfg(c)
  <2>1. pc[c] = "loaded" /\ Edit(c, meta[c], "reload")
    BY <1>3 DEF ReloadSvcCfg
  <2>2. InStep(c)'
    BY <1>0, <2>1, EditMoves DEF InStep
  <2> QED BY <1>0, <2>1, <2>2, EditMoves, StepWithoutWrite
<1>4. CASE SvcDevStarting(c)
  <2>1. /\ key[c] \in Keys /\ Owner[c] \in DM!MayHold(key[c]) /\ meta[c].state = "INSTALLED"
        /\ SameMarks(meta[c], View(src[c]))
    BY <1>0, <1>4 DEF SvcDevStarting, InStep
  <2>2. CASE Developing(meta[c], key[c])
    <3>1. Edit(c, meta[c], "idle")
      BY <1>4, <2>2 DEF SvcDevStarting
    <3>2. InStep(c)'
      BY <1>0, <3>1, EditMoves DEF InStep
    <3> QED BY <1>0, <3>1, <3>2, EditMoves, StepWithoutWrite
  <2>3. CASE ~Developing(meta[c], key[c])
    <3>1. Edit(c, WithStarting(meta[c], key[c], Owner[c]), "starting")
      BY <1>4, <2>3 DEF SvcDevStarting
    <3>2. Sound(WithStarting(meta[c], key[c], Owner[c]))
      BY <1>0, <2>1, <2>3, StartSound DEF Developing
    <3>3. /\ ~Developing(View(src[c]), key[c])
          /\ SameMarks(WithStarting(meta[c], key[c], Owner[c]),
                       WithStarting(View(src[c]), key[c], Owner[c]))
          /\ WithStarting(meta[c], key[c], Owner[c]).starting[key[c]] = Owner[c]
          /\ WithStarting(meta[c], key[c], Owner[c]).state = "INSTALLED"
      <4>1. View(src[c]) \in Version
        BY <1>0, ViewType
      <4> QED BY <1>0, <2>1, <2>3, <4>1
              DEF Developing, SameMarks, WithStarting, Version, Marks
    <3>4. InStep(c)'
      BY <1>0, <2>1, <3>1, <3>3, EditMoves DEF InStep
    <3> QED BY <1>0, <3>1, <3>2, <3>4, EditMoves, StepWithoutWrite
  <2> QED BY <2>2, <2>3
<1>5. CASE SvcDevStartComplete(c)
  <2>1. /\ key[c] \in Keys /\ Owner[c] \in DM!MayHold(key[c]) /\ meta[c].state = "INSTALLED"
        /\ SameMarks(meta[c], View(src[c])) /\ meta[c].starting[key[c]] = Owner[c]
    BY <1>0, <1>5 DEF SvcDevStartComplete, InStep
  <2>2. meta[c].started[key[c]] = NoUser
    BY <1>0, <2>1, AppMetaAssumption DEF Sound, Coherent
  <2>3. Edit(c, WithStarted(meta[c], key[c], Owner[c]), "complete")
    BY <1>5, <2>2 DEF SvcDevStartComplete
  <2>4. Sound(WithStarted(meta[c], key[c], Owner[c]))
    BY <1>0, <2>1, <2>2, StartSound
  <2>5. /\ View(src[c]).starting[key[c]] = Owner[c] /\ View(src[c]).started[key[c]] = NoUser
        /\ SameMarks(WithStarted(meta[c], key[c], Owner[c]),
                     WithStarted(View(src[c]), key[c], Owner[c]))
        /\ WithStarted(meta[c], key[c], Owner[c]).state = "INSTALLED"
    <3>1. View(src[c]) \in Version
      BY <1>0, ViewType
    <3> QED BY <1>0, <2>1, <2>2, <3>1 DEF SameMarks, WithStarted, Version, Marks
  <2>6. InStep(c)'
    BY <1>0, <2>1, <2>3, <2>5, EditMoves DEF InStep
  <2> QED BY <1>0, <2>3, <2>4, <2>6, EditMoves, StepWithoutWrite
<1>6. ASSUME key[c] \in Keys, NEW l \in {"devend", "rollback"},
             Edit(c, WithoutDev(meta[c], key[c]), l),
             SameMarks(WithoutDev(meta[c], key[c]), WithoutDev(View(src[c]), key[c]))
      PROVE  IInv'
  <2>1. Sound(WithoutDev(meta[c], key[c]))
    BY <1>0, <1>6, EndSound
  <2>2. InStep(c)'
    BY <1>0, <1>6, EditMoves DEF InStep
  <2> QED BY <1>0, <1>6, <2>1, <2>2, EditMoves, StepWithoutWrite
<1>7. CASE ReplaceImageFails(c)
  <2>1. key[c] \in Keys /\ SameMarks(meta[c], View(src[c]))
    BY <1>0, <1>7 DEF ReplaceImageFails, InStep
  <2>2. SameMarks(WithoutDev(meta[c], key[c]), WithoutDev(View(src[c]), key[c]))
    <3>1. View(src[c]) \in Version
      BY <1>0, ViewType
    <3> QED BY <1>0, <2>1, <3>1 DEF SameMarks, WithoutDev, Version
  <2> QED BY <1>6, <1>7, <2>1, <2>2 DEF ReplaceImageFails
<1>8. CASE RollBackDevStart(c)
  <2>1. /\ key[c] \in Keys
        /\ SameMarks(WithoutDev(meta[c], key[c]), WithoutDev(View(src[c]), key[c]))
    BY <1>0, <1>8 DEF RollBackDevStart, InStep
  <2> QED BY <1>6, <1>8, <2>1 DEF RollBackDevStart
<1> QED BY <1>1, <1>2, <1>3, <1>4, <1>5, <1>7, <1>8, <1>9, <1>10 DEF DevStep, EndDevMode, DevReset

LEMMA InstallStepIInv ==
    ASSUME IInv, TypeOK', NEW c \in Clients, InstallStep(c)
    PROVE  IInv'
<1>0. /\ TypeOK /\ meta[c] \in Version /\ Sound(meta[c]) /\ InStep(c)
      /\ log \in Seq(Version) /\ Len(log) \in 0..Len(log)
  BY DEF IInv, TypeOK
<1>1. ASSUME NEW v \in 0..Len(log), Uninstall(c, v) PROVE IInv'
  <2>1. View(v) \in Version /\ Sound(Deleted(View(v)))
    BY <1>0, ViewType, ViewSound, StateSound
  <2>2. Command(c, v, Deleted(View(v)), "delete") /\ key' = key
    BY <1>1 DEF Uninstall
  <2>3. /\ OnlyMoves(c) /\ log' = log /\ meta'[c] = Deleted(View(v)) /\ pc'[c] = "delete"
    BY <1>0, <2>2, CommandMoves
  <2>4. Deleted(View(v)).starting = NoMarks /\ Deleted(View(v)).started = NoMarks
    BY <2>1 DEF Deleted, Version
  <2>5. InStep(c)'
    BY <2>3, <2>4 DEF InStep
  <2> QED BY <2>1, <2>3, <2>5, StepWithoutWrite
<1>2. ASSUME NEW v \in 0..Len(log), BuildApplication(c, v) PROVE IInv'
  <2>1. Command(c, v, View(v), "initial") /\ key' = key
    BY <1>2 DEF BuildApplication
  <2>2. OnlyMoves(c) /\ log' = log /\ meta'[c] = View(v) /\ pc'[c] = "initial"
    BY <1>0, <2>1, CommandMoves
  <2>3. InStep(c)'
    BY <2>2 DEF InStep
  <2> QED BY <2>2, <2>3, ViewSound, StepWithoutWrite
<1>3. CASE Initial(c)
  <2>1. OnlyMoves(c) /\ log' = log
    BY <1>0, <1>3 DEF Initial, OnlyMoves, Goto, TypeOK
  <2>2. CASE log = << >>
    <3>1. pc'[c] = "create" /\ meta' = meta
      BY <1>0, <1>3, <2>2 DEF Initial, Goto, TypeOK
    <3>2. InStep(c)'
      BY <3>1 DEF InStep
    <3> QED BY <1>0, <2>1, <3>1, <3>2, StepWithoutWrite
  <2>3. CASE log # << >>
    <3>1. /\ pc'[c] = "init" /\ meta'[c] = [Current EXCEPT !.state = "INSTALLING"]
          /\ src'[c] = Len(log)
      BY <1>0, <1>3, <2>3 DEF Initial, Goto, TypeOK
    <3>2. Current \in Version /\ Sound(Current)
      BY <1>0, ViewType, ViewSound DEF Current
    <3>3. Sound(meta'[c])
      BY <3>1, <3>2, StateSound
    <3>4. View(src[c])' = Current
      BY <2>1, <3>1 DEF Current, View
    <3>5. SameMarks(meta'[c], Current)
      BY <3>1, <3>2 DEF SameMarks, Version
    <3>6. InStep(c)'
      BY <3>1, <3>4, <3>5 DEF InStep
    <3> QED BY <2>1, <3>3, <3>6, StepWithoutWrite
  <2> QED BY <2>2, <2>3
<1>4. CASE CreateSecret(c)
  <2>1. OnlyMoves(c)
    BY <1>0, <1>4 DEF CreateSecret, OnlyMoves, Goto, TypeOK
  <2>2. CASE log = << >>
    <3> DEFINE first == [Absent EXCEPT !.state = "INSTALLING"]
    <3>1. first \in Version /\ Sound(first)
      BY FirstVersions, FirstVersionsSound
    <3>2. /\ log' = <<first>> /\ meta'[c] = first /\ src'[c] = 1
          /\ pc'[c] = "building"
      BY <1>0, <1>4, <2>2 DEF CreateSecret, Goto, TypeOK
    <3> HIDE DEF first
    <3>3. Len(log') = 1 /\ log'[1] = first
      BY <3>1, <3>2, OneVersion
    <3>4. LogKept
      BY <1>0, <2>2, <3>3 DEF LogKept
    <3>5. \A v \in 1..Len(log') : Sound(log'[v])
      BY <3>1, <3>3
    <3>6. View(src[c])' = first
      BY <3>2, <3>3 DEF View
    <3>7. InStep(c)'
      BY <3>2, <3>6 DEF InStep, SameMarks
    <3> QED BY <2>1, <3>1, <3>2, <3>4, <3>5, <3>7, StepOfOne
  <2>3. CASE log # << >>
    <3>1. log' = log /\ meta' = meta /\ pc'[c] = "idle"
      BY <1>0, <1>4, <2>3 DEF CreateSecret, Goto, TypeOK
    <3>2. InStep(c)'
      BY <3>1 DEF InStep
    <3> QED BY <1>0, <2>1, <3>1, <3>2, StepWithoutWrite
  <2> QED BY <2>2, <2>3
<1>5. CASE SaveConfig(c)
  <2>1. InStep(c)'
    BY <1>0, <1>5, EditMoves DEF SaveConfig, InStep
  <2> QED BY <1>0, <1>5, <2>1, EditMoves, StepWithoutWrite DEF SaveConfig
<1>6. CASE SaveManifest(c)
  <2>1. InStep(c)'
    BY <1>0, <1>6, EditMoves DEF SaveManifest, InStep
  <2> QED BY <1>0, <1>6, <2>1, EditMoves, StepWithoutWrite DEF SaveManifest
<1>7. CASE InstallSucceeds(c)
  <2>1. /\ pc[c] \in {"installing", "applied"}
        /\ Edit(c, [meta[c] EXCEPT !.state = "INSTALLED"], "installed")
    BY <1>7 DEF InstallSucceeds
  <2>2. SameMarks([meta[c] EXCEPT !.state = "INSTALLED"], View(src[c]))
    BY <1>0, <2>1 DEF InStep, SameMarks, Version
  <2>3. InStep(c)'
    BY <1>0, <2>1, <2>2, EditMoves DEF InStep
  <2> QED BY <1>0, <2>1, <2>3, StateSound, EditMoves, StepWithoutWrite
<1>8. CASE InstallFails(c)
  <2>1. Edit(c, Deleted(meta[c]), "undo")
    BY <1>8 DEF InstallFails
  <2>2. Deleted(meta[c]).starting = NoMarks /\ Deleted(meta[c]).started = NoMarks
    BY <1>0 DEF Deleted, Version
  <2>3. InStep(c)'
    BY <1>0, <2>1, <2>2, EditMoves DEF InStep
  <2> QED BY <1>0, <2>1, <2>3, StateSound, EditMoves, StepWithoutWrite
<1> QED BY <1>1, <1>2, <1>3, <1>4, <1>5, <1>6, <1>7, <1>8 DEF InstallStep

(* After a write the fields of c are those of the newest version. *)
LEMMA WriteInStep ==
    ASSUME IInv, NEW c \in Clients, Write(c), meta' = meta, key' = key
    PROVE  /\ LogKept
           /\ \A v \in 1..Len(log') : Sound(log'[v])
           /\ View(src[c])' = meta[c]
           /\ \A d \in Clients \ {c} : src'[d] = src[d]
           /\ src'[c] > 0
<1>1. /\ TypeOK /\ log \in Seq(Version) /\ Sound(meta[c])
      /\ Len(log') = Len(log) + 1 /\ log'[Len(log')] = meta[c]
      /\ \A i \in 1..Len(log) : log'[i] = log[i]
  BY WriteType DEF IInv, TypeOK
<1>2. LogKept
  BY <1>1 DEF LogKept
<1>3. ASSUME NEW v \in 1..Len(log') PROVE Sound(log'[v])
  <2>1. CASE v = Len(log')
    BY <1>1, <2>1
  <2>2. CASE v # Len(log')
    <3>1. v \in 1..Len(log)
      BY <1>1, <2>2
    <3> QED BY <1>1, <3>1 DEF IInv
  <2> QED BY <2>1, <2>2
<1>4. src'[c] = Len(log') /\ Len(log') > 0 /\ \A d \in Clients \ {c} : src'[d] = src[d]
  BY <1>1 DEF Write, TypeOK
<1>5. View(src[c])' = meta[c]
  BY <1>1, <1>4 DEF View
<1> QED BY <1>2, <1>3, <1>4, <1>5

LEMMA UpdateStepIInv ==
    ASSUME IInv, TypeOK', NEW c \in Clients, UpdateStep(c)
    PROVE  IInv'
<1>0. /\ TypeOK /\ meta[c] \in Version /\ Sound(meta[c]) /\ InStep(c)
      /\ src[c] \in 0..Len(log)
  BY DEF IInv, TypeOK
<1>1. CASE UpdateAccepted(c)
  <2>1. Write(c) /\ meta' = meta /\ key' = key /\ pc[c] \in Updating
    BY <1>1 DEF UpdateAccepted, Write
  <2>2. /\ LogKept /\ View(src[c])' = meta[c] /\ src'[c] > 0
        /\ \A v \in 1..Len(log') : Sound(log'[v])
        /\ \A d \in Clients \ {c} : src'[d] = src[d]
    BY <2>1, WriteInStep
  <2>3. pc'[c] = OnOk(pc[c]) /\ OnlyMoves(c)
    BY <1>0, <1>1, <2>2 DEF UpdateAccepted, Goto, OnlyMoves, TypeOK
  <2>4. InStep(c)'
    BY <1>0, <2>1, <2>2, <2>3 DEF InStep, SameMarks, OnOk, Updating
  <2> QED BY <1>0, <2>1, <2>2, <2>3, <2>4, StepOfOne
<1>2. ASSUME Retry(c), pc[c] \in Updating
      PROVE  /\ pc'[c] \in {pc[c], OnError(pc[c])}
             /\ meta' = meta /\ key' = key
             /\ \A d \in Clients \ {c} : pc'[d] = pc[d]
  BY <1>0, <1>2 DEF Retry, Goto, TypeOK
<1>3. CASE UpdateLost(c)
  <2>1. Write(c) /\ Retry(c) /\ pc[c] \in Updating
    BY <1>3 DEF UpdateLost, Write
  <2>2. /\ LogKept /\ View(src[c])' = meta[c] /\ src'[c] > 0
        /\ \A v \in 1..Len(log') : Sound(log'[v])
        /\ \A d \in Clients \ {c} : src'[d] = src[d]
    BY <1>2, <2>1, WriteInStep
  <2>3. OnlyMoves(c)
    BY <1>2, <2>1, <2>2 DEF OnlyMoves
  <2>4. InStep(c)'
    BY <1>0, <1>2, <2>1, <2>2 DEF InStep, SameMarks, OnError, Updating
  <2> QED BY <1>0, <1>2, <2>1, <2>2, <2>3, <2>4, StepOfOne
<1>4. CASE UpdateRefused(c)
  <2>1. Retry(c) /\ pc[c] \in Updating /\ log' = log /\ src' = src
    BY <1>4 DEF UpdateRefused
  <2>2. OnlyMoves(c)
    BY <1>2, <2>1 DEF OnlyMoves
  <2>3. View(src[c])' = View(src[c])
    BY <2>1 DEF View
  <2>4. View(src[c]) \in Version
    BY <1>0, ViewType
  <2>5. pc[c] = "complete" =>
          SameMarks(WithoutDev(meta[c], key[c]), WithoutDev(View(src[c]), key[c]))
    BY <1>0, <2>4 DEF InStep, SameMarks, WithStarted, WithoutDev, Version, Marks
  <2>6. InStep(c)'
    BY <1>0, <1>2, <2>1, <2>3, <2>5 DEF InStep, OnError, Updating
  <2> QED BY <1>0, <1>2, <2>1, <2>2, <2>6, StepWithoutWrite
<1> QED BY <1>1, <1>3, <1>4 DEF UpdateStep

LEMMA InitIInv == Init => IInv
<1> SUFFICES ASSUME Init PROVE IInv
  OBVIOUS
<1>1. TypeOK
  BY InitTypeOK
<1>2. ASSUME NEW v \in 1..Len(log) PROVE Sound(log[v])
  <2>1. log = << >> \/ log = <<Installed>>
    BY AppMetaAssumption DEF Init
  <2>2. CASE log = << >>
    BY <1>2, <2>2
  <2>3. CASE log = <<Installed>>
    <3>1. Len(log) = 1 /\ log[1] = Installed
      BY <2>3, FirstVersions, OneVersion
    <3> QED BY <1>2, <3>1, FirstVersionsSound
  <2> QED BY <2>1, <2>2, <2>3
<1>3. ASSUME NEW c \in Clients PROVE Sound(meta[c]) /\ InStep(c)
  BY FirstVersionsSound DEF Init, InStep
<1> QED BY <1>1, <1>2, <1>3 DEF IInv

LEMMA NextIInv == IInv /\ [Next]_vars => IInv'
<1> SUFFICES ASSUME IInv, [Next]_vars PROVE IInv'
  OBVIOUS
<1>0. TypeOK'
  BY NextTypeOK DEF IInv
<1>1. ASSUME UNCHANGED vars PROVE IInv'
  BY <1>0, <1>1 DEF IInv, InStep, View, vars, client
<1>2. CASE Finished
  BY <1>1, <1>2 DEF Finished
<1>3. ASSUME NEW c \in Clients, Exit(c) PROVE IInv'
  <2>1. OnlyMoves(c) /\ log' = log /\ meta' = meta /\ pc'[c] = "idle"
    BY <1>3 DEF Exit, OnlyMoves, Goto, IInv, TypeOK
  <2>2. InStep(c)'
    BY <2>1 DEF InStep
  <2>3. Sound(meta'[c])
    BY <2>1 DEF IInv
  <2> QED BY <1>0, <2>1, <2>2, <2>3, StepWithoutWrite
<1> QED BY <1>0, <1>1, <1>2, <1>3, UpdateStepIInv, DevStepIInv, InstallStepIInv DEF Next

(* Whatever the processes do, every version and every copy stays sound and *)
(* every process knows how its copy differs from the version it is from.   *)
THEOREM Invariance == Spec => []IInv
BY InitIInv, NextIInv, PTL DEF Spec

(* A dev-mode key is never both starting and started, and a duplicate only *)
(* carries its own user's identifier, even under blind overwrites.         *)
THEOREM MarksStayCoherent == Spec => []MarksCoherent
<1>1. IInv => MarksCoherent
  BY DEF IInv, Sound, Coherent, MarksCoherent
<1> QED BY <1>1, Invariance, PTL

(* No version of an uninstalled application carries a dev-mode mark. *)
THEOREM UninstalledIsClean == Spec => []UninstalledHasNoMarks
<1>1. IInv => UninstalledHasNoMarks
  BY DEF IInv, Sound, CleanIfUninstalled, UninstalledHasNoMarks
<1> QED BY <1>1, Invariance, PTL

(* enterDevMode patches a workload only once a version of the secret has   *)
(* carried its starting mark.                                              *)
THEOREM PatchIsMarked == Spec => []MarkedBeforePatch
<1>1. IInv => MarkedBeforePatch
  BY DEF IInv, InStep, SameMarks, View, MarkedBeforePatch
<1> QED BY <1>1, Invariance, PTL

-----------------------------------------------------------------------------
(* The secret as a register *)

(* A write by a process in step with the newest version is one operation   *)
(* of the register, or leaves the marks alone.                             *)
LEMMA WriteIsAtomic ==
    ASSUME IInv, NEW c \in Clients, Write(c), src[c] = Len(log)
    PROVE  [DM!Next]_(DM!vars)
<1> DEFINE m == meta[c]
           n == Current
           k == key[c]
           u == Owner[c]
<1>1. Current' = m
  BY WriteType DEF IInv
<1>2. n \in Version /\ m \in Version /\ InStep(c) /\ View(src[c]) = n /\ pc[c] \in Updating
  <2>1. Len(log) \in 0..Len(log)
    BY DEF IInv, TypeOK
  <2> QED BY <2>1, ViewType DEF IInv, TypeOK, Current, Write
<1>3. ASSUME SameMarks(m, n) PROVE UNCHANGED DM!vars
  BY <1>1, <1>3 DEF SameMarks, DM!vars
<1>4. ASSUME k \in Keys, SameMarks(m, WithoutDev(n, k)) PROVE DM!Next
  <2>1. DM!End(k)
    BY <1>1, <1>2, <1>4 DEF SameMarks, WithoutDev, DM!End, Version, Marks
  <2> QED BY <1>4, <2>1 DEF DM!Next, DM!Keys, Keys
<1>5. ASSUME k \in Keys, u \in DM!MayHold(k), ~Developing(n, k),
             SameMarks(m, WithStarting(n, k, u))
      PROVE  DM!Next
  <2>1. DM!Start(k, u)
    BY <1>1, <1>2, <1>5
       DEF SameMarks, WithStarting, Developing, DM!Start, DM!Holder, Version, Marks
  <2> QED BY <1>5, <2>1 DEF DM!Next, DM!Keys, Keys
<1>6. ASSUME k \in Keys, u \in DM!MayHold(k), n.starting[k] = u, n.started[k] = NoUser,
             SameMarks(m, WithStarted(n, k, u))
      PROVE  DM!Next
  <2>1. DM!Complete(k, u)
    BY <1>1, <1>2, <1>6 DEF SameMarks, WithStarted, DM!Complete, Version, Marks
  <2> QED BY <1>6, <2>1 DEF DM!Next, DM!Keys, Keys
<1>7. ASSUME m.starting = NoMarks, m.started = NoMarks PROVE DM!Next
  BY <1>1, <1>7 DEF DM!Next, DM!Clear, DM!NoMarks, NoMarks, DM!Keys, Keys
<1> HIDE DEF m, n, k, u
<1>8. \/ SameMarks(m, n)
      \/ k \in Keys /\ SameMarks(m, WithoutDev(n, k))
      \/ /\ k \in Keys /\ u \in DM!MayHold(k) /\ ~Developing(n, k)
         /\ SameMarks(m, WithStarting(n, k, u))
      \/ /\ k \in Keys /\ u \in DM!MayHold(k) /\ n.starting[k] = u /\ n.started[k] = NoUser
         /\ SameMarks(m, WithStarted(n, k, u))
      \/ m.starting = NoMarks /\ m.started = NoMarks
  BY <1>2 DEF InStep, Updating, m, n, k, u
<1> QED BY <1>3, <1>4, <1>5, <1>6, <1>7, <1>8

LEMMA StepIsAtomic ==
    ASSUME IInv, [Next]_vars, \A c \in Clients : ~Blind(c)
    PROVE  [DM!Next]_(DM!vars)
<1>1. ASSUME log' = log PROVE UNCHANGED DM!vars
  BY <1>1 DEF DM!vars, Current, View
<1>2. ASSUME NEW c \in Clients, Write(c) PROVE [DM!Next]_(DM!vars)
  <2>1. src'[c] = Len(log') /\ log' # log
    BY <1>2, WriteType DEF IInv, TypeOK, Write
  <2>2. src[c] = Len(log)
    BY <2>1 DEF Blind
  <2> QED BY <1>2, <2>2, WriteIsAtomic
<1>3. ASSUME NEW c \in Clients, CreateSecret(c), log' # log PROVE UNCHANGED DM!vars
  <2> DEFINE first == [Absent EXCEPT !.state = "INSTALLING"]
  <2>1. log = << >> /\ log' = <<first>>
    BY <1>3 DEF CreateSecret
  <2>2. first \in Version /\ first.starting = NoMarks /\ first.started = NoMarks
    BY FirstVersions DEF Absent
  <2> HIDE DEF first
  <2>3. Len(log') = 1 /\ log'[1] = first
    BY <2>1, <2>2, OneVersion
  <2>4. Current = Absent /\ Current' = first
    BY <2>1, <2>3 DEF Current, View
  <2> QED BY <2>2, <2>4 DEF DM!vars, Absent
<1>4. ASSUME NEW c \in Clients, UpdateStep(c) PROVE log' = log \/ Write(c)
  BY <1>4 DEF UpdateStep, UpdateAccepted, UpdateLost, UpdateRefused
<1>5. ASSUME NEW c \in Clients, DevStep(c) PROVE log' = log
  BY <1>5 DEF DevStep, NewApplication, SaveFields, EndDevMode, DevReset, DevEnd, StartDevMode,
              ReloadSvcCfg, SvcDevStarting, SvcDevStartComplete, ReplaceImageFails,
              RollBackDevStart, Command, Begin, Edit
<1>6. ASSUME NEW c \in Clients, InstallStep(c) PROVE log' = log \/ CreateSecret(c)
  BY <1>6 DEF InstallStep, Uninstall, BuildApplication, Initial, SaveConfig, SaveManifest,
              InstallSucceeds, InstallFails, Command, Edit
<1>7. ASSUME Finished \/ UNCHANGED vars \/ \E c \in Clients : Exit(c) PROVE log' = log
  BY <1>7 DEF Finished, Exit, vars
<1> QED BY <1>1, <1>2, <1>3, <1>4, <1>5, <1>6, <1>7 DEF Next

(* In every interleaving, with any faults and crashes: a write that        *)
(* overwrites no version its process has not seen is an atomic operation   *)
(* of DevMarks.  Mutual exclusion of dev modes is lost only by the writes  *)
(* Update() repeats with stale fields after a conflict.                    *)
THEOREM CleanWritesAreAtomic == Spec => CleanWriteIsAtomic
<1>1. IInv /\ [Next]_vars =>
        [(\A c \in Clients : ~Blind(c)) => [DM!Next]_(DM!vars)]_vars
  BY StepIsAtomic
<1> QED BY <1>1, Invariance, PTL DEF Spec, CleanWriteIsAtomic

LEMMA InitMarks == Init => Register!Init
<1> SUFFICES ASSUME Init PROVE Register!Init
  OBVIOUS
<1>1. log = << >> \/ log = <<Installed>>
  BY AppMetaAssumption DEF Init
<1>2. View(clean) = Absent \/ View(clean) = Installed
  <2>1. CASE log = << >>
    BY <2>1 DEF Init, View
  <2>2. CASE log = <<Installed>>
    <3>1. Len(log) = 1 /\ log[1] = Installed
      BY <2>2, FirstVersions, OneVersion
    <3> QED BY <3>1 DEF Init, View
  <2> QED BY <1>1, <2>1, <2>2
<1> QED BY <1>2 DEF Register!Init, Register!NoMarks, NoMarks, Register!Keys, Keys, Absent, Installed

(* A step that adds no clean version leaves the last clean one alone. *)
LEMMA CleanKept ==
    ASSUME TypeOK, LogKept, clean' = clean
    PROVE  UNCHANGED Register!vars
<1>1. clean \in 0..Len(log) /\ log \in Seq(Version)
  BY DEF TypeOK
<1>2. View(clean)' = View(clean)
  <2>1. CASE clean = 0
    BY <2>1 DEF View
  <2>2. CASE clean # 0
    <3>1. clean \in 1..Len(log)
      BY <1>1, <2>2
    <3> QED BY <2>2, <3>1 DEF View, LogKept
  <2> QED BY <2>1, <2>2
<1> QED BY <1>2 DEF Register!vars

(* The newest version is the last clean one, before and after the step. *)
LEMMA CleanAdvances ==
    ASSUME IInv, [Next]_vars, clean = Len(log), clean' = Len(log'), \A c \in Clients : ~Blind(c)
    PROVE  [Register!Next]_(Register!vars)
<1>1. [DM!Next]_(DM!vars)
  BY StepIsAtomic
<1>2. View(clean) = Current /\ View(clean)' = Current'
  BY DEF Current, View
<1>3. ASSUME UNCHANGED DM!vars PROVE UNCHANGED Register!vars
  BY <1>2, <1>3 DEF DM!vars, Register!vars
<1>4. ASSUME DM!Clear PROVE Register!Next
  BY <1>2, <1>4 DEF DM!Clear, DM!NoMarks, DM!Keys, Register!Clear, Register!NoMarks,
                    Register!Keys, Register!Next
<1>5. ASSUME NEW k \in DM!Keys, DM!End(k) PROVE Register!Next
  <2>1. k \in Register!Keys /\ Register!End(k)
    BY <1>2, <1>5 DEF DM!Keys, Register!Keys, DM!End, Register!End
  <2> QED BY <2>1 DEF Register!Next
<1>6. ASSUME NEW k \in DM!Keys, NEW u \in DM!MayHold(k), DM!Start(k, u) \/ DM!Complete(k, u)
      PROVE  Register!Next
  <2>1. k \in Register!Keys /\ u \in Register!MayHold(k)
    BY DEF DM!Keys, Register!Keys, DM!MayHold, Register!MayHold
  <2>2. Register!Start(k, u) \/ Register!Complete(k, u)
    BY <1>2, <1>6 DEF DM!Start, Register!Start, DM!Complete, Register!Complete,
                      DM!Holder, Register!Holder
  <2> QED BY <2>1, <2>2 DEF Register!Next
<1> QED BY <1>1, <1>3, <1>4, <1>5, <1>6 DEF DM!Next

LEMMA RegisterStep ==
    ASSUME IInv, [Next]_vars
    PROVE  [Register!Next]_(Register!vars)
<1>0. TypeOK /\ log \in Seq(Version) /\ clean \in 0..Len(log)
  BY DEF IInv, TypeOK
<1>1. ASSUME log' = log, clean' = clean PROVE UNCHANGED Register!vars
  BY <1>1 DEF Register!vars, View
<1>2. ASSUME NEW c \in Clients, Write(c) PROVE [Register!Next]_(Register!vars)
  <2>1. Len(log') = Len(log) + 1 /\ LogKept
    BY <1>0, <1>2, WriteType DEF LogKept
  <2>2. CASE clean = Len(log) /\ src[c] = Len(log)
    <3>1. clean' = Len(log')
      BY <1>2, <2>1, <2>2 DEF Write
    <3>2. \A d \in Clients : ~Blind(d)
      <4> SUFFICES ASSUME NEW d \in Clients, src'[d] = Len(log') PROVE src[d] = Len(log)
        BY DEF Blind
      <4>1. CASE d = c
        BY <2>2, <4>1
      <4>2. CASE d # c
        <5>1. src'[d] = src[d] /\ src[d] \in 0..Len(log)
          BY <1>0, <1>2, <4>2 DEF Write, TypeOK
        <5> QED BY <1>0, <2>1, <5>1
      <4> QED BY <4>1, <4>2
    <3> QED BY <2>2, <3>1, <3>2, CleanAdvances
  <2>3. CASE ~(clean = Len(log) /\ src[c] = Len(log))
    <3>1. clean' = clean
      BY <1>2, <2>3 DEF Write
    <3> QED BY <1>0, <2>1, <3>1, CleanKept
  <2> QED BY <2>2, <2>3
<1>3. ASSUME NEW c \in Clients, CreateSecret(c) PROVE [Register!Next]_(Register!vars)
  <2> DEFINE first == [Absent EXCEPT !.state = "INSTALLING"]
  <2>1. CASE log = << >>
    <3>1. log' = <<first>> /\ clean' = 1 /\ clean = 0
      BY <1>0, <1>3, <2>1 DEF CreateSecret
    <3>2. first \in Version /\ first.starting = NoMarks /\ first.started = NoMarks
      BY FirstVersions DEF Absent
    <3> HIDE DEF first
    <3>3. log'[1] = first
      BY <3>1, <3>2, OneVersion
    <3>4. View(clean) = Absent /\ View(clean)' = first
      BY <3>1, <3>3 DEF View
    <3> QED BY <3>2, <3>4 DEF Register!vars, Absent
  <2>2. CASE log # << >>
    BY <1>1, <1>3, <2>2 DEF CreateSecret
  <2> QED BY <2>1, <2>2
<1>4. ASSUME NEW c \in Clients, UpdateStep(c) PROVE (log' = log /\ clean' = clean) \/ Write(c)
  BY <1>4 DEF UpdateStep, UpdateAccepted, UpdateLost, UpdateRefused
<1>5. ASSUME NEW c \in Clients, DevStep(c) PROVE log' = log /\ clean' = clean
  BY <1>5 DEF DevStep, NewApplication, SaveFields, EndDevMode, DevReset, DevEnd, StartDevMode,
              ReloadSvcCfg, SvcDevStarting, SvcDevStartComplete, ReplaceImageFails,
              RollBackDevStart, Command, Begin, Edit
<1>6. ASSUME NEW c \in Clients, InstallStep(c)
      PROVE  (log' = log /\ clean' = clean) \/ CreateSecret(c)
  BY <1>6 DEF InstallStep, Uninstall, BuildApplication, Initial, SaveConfig, SaveManifest,
              InstallSucceeds, InstallFails, Command, Edit
<1>7. ASSUME Finished \/ UNCHANGED vars \/ \E c \in Clients : Exit(c)
      PROVE  log' = log /\ clean' = clean
  BY <1>7 DEF Finished, Exit, vars
<1> QED BY <1>1, <1>2, <1>3, <1>4, <1>5, <1>6, <1>7 DEF Next

(* Up to the first blind write the secret is the register: its versions    *)
(* are those of SvcDevStarting, SvcDevStartComplete, SvcDevEnd and Delete  *)
(* done one at a time, in every interleaving, with any faults and crashes. *)
THEOREM Refinement == Spec => ImplementsDevMarks
<1>1. IInv /\ [Next]_vars => [Register!Next]_(Register!vars)
  BY RegisterStep
<1> QED BY <1>1, InitMarks, Invariance, PTL DEF Spec, ImplementsDevMarks, Register!Spec

(* So up to then a key that is held passes to another user only after it   *)
(* was free: what ErrAlreadyDev of SvcDevStarting promises.                *)
THEOREM HeldIsNotTaken == Spec => Register!HandOver
<1> DEFINE starting == View(clean).starting
           started == View(clean).started
           Kept == \A k \in Register!Keys :
                      Register!Holder(k) = NoUser \/ Register!Holder(k)' \in {Register!Holder(k), NoUser}
<1>1. IInv /\ [Next]_vars => [Kept]_(Register!vars)
  <2> SUFFICES ASSUME IInv, [Next]_vars, ~UNCHANGED Register!vars, NEW k \in Register!Keys,
                      Register!Holder(k) # NoUser
               PROVE  Register!Holder(k)' \in {Register!Holder(k), NoUser}
    OBVIOUS
  <2>1. Register!Next
    BY RegisterStep
  <2>3. k \in Keys
    BY DEF Register!Keys, Keys
  <2>4. /\ Register!Holder(k) = IF started[k] # NoUser THEN started[k] ELSE starting[k]
        /\ Register!Holder(k)' = IF started'[k] # NoUser THEN started'[k] ELSE starting'[k]
    BY DEF Register!Holder
  <2>5. starting \in Marks /\ started \in Marks
    <3>1. View(clean) \in Version
      BY ViewType DEF IInv, TypeOK
    <3> QED BY <3>1 DEF Version
  <2>6. CASE Register!Clear
    <3>1. starting' = NoMarks /\ started' = NoMarks
      BY <2>6 DEF Register!Clear, Register!NoMarks, Register!Keys, NoMarks, Keys
    <3> HIDE DEF starting, started
    <3> QED BY <2>3, <2>4, <3>1 DEF NoMarks
  <2>7. ASSUME NEW j \in Register!Keys, Register!End(j)
        PROVE  Register!Holder(k)' \in {Register!Holder(k), NoUser}
    <3>1. starting' = [starting EXCEPT ![j] = NoUser] /\ started' = [started EXCEPT ![j] = NoUser]
      BY <2>7 DEF Register!End
    <3> HIDE DEF starting, started
    <3> QED BY <2>3, <2>4, <2>5, <3>1 DEF Marks
  <2>8. ASSUME NEW j \in Register!Keys, NEW u, Register!Start(j, u)
        PROVE  Register!Holder(k)' \in {Register!Holder(k), NoUser}
    <3>1. /\ (IF started[j] # NoUser THEN started[j] ELSE starting[j]) = NoUser
          /\ starting' = [starting EXCEPT ![j] = u] /\ started' = started
      BY <2>8 DEF Register!Start, Register!Holder
    <3> HIDE DEF starting, started
    <3> QED BY <2>3, <2>4, <2>5, <3>1 DEF Marks
  <2>9. ASSUME NEW j \in Register!Keys, NEW u, Register!Complete(j, u)
        PROVE  Register!Holder(k)' \in {Register!Holder(k), NoUser}
    <3>1. /\ starting[j] = u /\ started[j] = NoUser
          /\ starting' = [starting EXCEPT ![j] = NoUser] /\ started' = [started EXCEPT ![j] = u]
      BY <2>9 DEF Register!Complete
    <3> HIDE DEF starting, started
    <3> QED BY <2>3, <2>4, <2>5, <3>1 DEF Marks
  <2> QED BY <2>1, <2>6, <2>7, <2>8, <2>9 DEF Register!Next
<1> QED BY <1>1, Invariance, PTL DEF Spec, Register!HandOver
=============================================================================
