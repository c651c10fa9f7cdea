-------------------------- MODULE PortForwardProofs -------------------------
(***************************************************************************)
(* Proofs about PortForward, for any ports, goroutines and commands and    *)
(* any number of them, of errors, of missing pods and of restarts.         *)
(***************************************************************************)
EXTENDS PortForward, TLAPS

-----------------------------------------------------------------------------
(* The records of a port-forward. *)

LEMMA SeqFacts ==
  ASSUME NEW s \in Seq(Statuses), NEW v \in Statuses
  PROVE  /\ s # << >> => Tail(s) \in Seq(Statuses)
         /\ s # << >> => <<v>> \o Tail(s) \in Seq(Statuses)
         /\ Append(s, v) \in Seq(Statuses)
<1>1. s # << >> => Tail(s) \in Seq(Statuses)
  OBVIOUS
<1>2. Append(s, v) \in Seq(Statuses)
  OBVIOUS
<1>3. <<v>> \in Seq(Statuses)
  OBVIOUS
<1>4. s # << >> => <<v>> \o Tail(s) \in Seq(Statuses)
  BY <1>1, <1>3
<1>5. QED BY <1>1, <1>2, <1>4

LEMMA NonEmpty == \A s : Len(s) # 0 => s # << >>
<1>1. Len(<< >>) = 0
  OBVIOUS
<1>2. QED BY <1>1, Zenon

LEMMA ForgetType ==
  ASSUME TypeOK, NEW k \in Ports, Forget(k)
  PROVE  db' \in [Ports -> Seq(Statuses)]
<1>1. "New" \in Statuses
  BY DEF Statuses
<1>2. db[k] \in Seq(Statuses)
  BY DEF TypeOK
<1>3. (IF db[k] = << >> THEN db[k] ELSE Tail(db[k])) \in Seq(Statuses)
  BY <1>1, <1>2, SeqFacts
<1>4. QED BY <1>3 DEF TypeOK, Forget

LEMMA UpdateType ==
  ASSUME TypeOK, NEW k \in Ports, NEW v \in Statuses, UpdateStatus(k, v)
  PROVE  db' \in [Ports -> Seq(Statuses)]
<1>1. db[k] \in Seq(Statuses)
  BY DEF TypeOK
<1>2. (IF db[k] = << >> THEN db[k] ELSE <<v>> \o Tail(db[k])) \in Seq(Statuses)
  BY <1>1, SeqFacts
<1>3. QED BY <1>2 DEF TypeOK, UpdateStatus

-----------------------------------------------------------------------------
(* Types. *)

(* The type invariant, in the parts that an action may disturb. *)
StoredOK == db \in [Ports -> Seq(Statuses)] /\ marker \in BOOLEAN /\ scanned \in BOOLEAN

ThreadsOK ==
  /\ pfList \in [Ports -> Runs \cup {None}]
  /\ run \in [Runs -> States] /\ key \in [Runs -> Ports \cup {None}]
  /\ \A r \in Runs :
        run[r] # "off" \/ r \in listening \cup waiting \cup dials \cup fired => key[r] \in Ports
  /\ cancelled \subseteq Runs /\ listening \subseteq Runs /\ waiting \subseteq Runs
  /\ dials \subseteq Runs /\ fired \subseteq Runs /\ stopCh \subseteq Runs
  /\ \A r \in waiting : run[r] \notin {"serve", "new pod", "failed", "socat", "sleep"}

ControlOK ==
  /\ pc \in [Callers -> Labels] /\ job \in [Callers -> Jobs]
  /\ \A p \in Callers : pc[p] \notin {"idle", "scan", "recover"} => job[p] # NoJob

HistoryOK ==
  /\ todo \in [Ports -> Nat] /\ crossed \subseteq Ports /\ owed \subseteq Ports
  /\ silent \subseteq Runs /\ late \in BOOLEAN

LEMMA TypeParts == TypeOK <=> StoredOK /\ ThreadsOK /\ ControlOK /\ HistoryOK
BY DEF TypeOK, StoredOK, ThreadsOK, ControlOK, HistoryOK

LEMMA TypeWhole == StoredOK' /\ ThreadsOK' /\ ControlOK' /\ HistoryOK' => TypeOK'
BY DEF TypeOK, StoredOK, ThreadsOK, ControlOK, HistoryOK

(* A command that is under way has a port-forward. *)
LEMMA PortOfJob ==
  ASSUME TypeOK, NEW p \in Callers, pc[p] \notin {"idle", "scan", "recover"}
  PROVE  Port(p) \in Ports /\ job[p].kind \in {"start", "stop", "redo", "recover"}
BY DEF TypeOK, Jobs, NoJob, Port

LEMMA TypeInit == Init => TypeOK
<1> SUFFICES ASSUME Init PROVE TypeOK
  OBVIOUS
<1>1. StoredOK
  <2>1. << >> \in Seq(Statuses)
    OBVIOUS
  <2>2. QED BY <2>1, PortForwardAssumption DEF Init, StoredOK
<1>2. ThreadsOK
  BY DEF Init, ThreadsOK, States
<1>3. ControlOK
  BY DEF Init, ControlOK, Labels, Jobs, NoJob
<1>4. HistoryOK
  BY DEF Init, HistoryOK
<1>5. QED BY <1>1, <1>2, <1>3, <1>4, TypeParts

LEMMA CommandType ==
  ASSUME TypeOK, NEW p \in Commands, NEW k \in Ports, Command(p, k)
  PROVE  TypeOK'
<1>1. StoredOK' /\ ThreadsOK'
  BY TypeParts DEF Command, StoredOK, ThreadsOK, stored, threads
<1>2. HistoryOK'
  BY TypeParts DEF Command, HistoryOK
<1>3. ControlOK'
  <2>1. PICK kind \in {"start", "stop", "redo"} :
          /\ job' = [job EXCEPT ![p] = [kind |-> kind, key |-> k]]
          /\ pc' = [pc EXCEPT ![p] = IF kind = "start" THEN "start" ELSE "stop"]
    BY DEF Command, Goto
  <2>2. [kind |-> kind, key |-> k] \in Jobs /\ [kind |-> kind, key |-> k] # NoJob
    BY PortForwardAssumption DEF Jobs, NoJob
  <2>3. QED BY <2>1, <2>2, TypeParts DEF ControlOK, Labels, Callers
<1>4. QED BY <1>1, <1>2, <1>3, TypeWhole

(* The steps of a caller that only move it on, or write the file. *)
LEMMA MoveType ==
  ASSUME TypeOK, NEW p \in Callers, NEW l \in Labels,
         l \notin {"idle", "scan", "recover"} => job[p] # NoJob,
         Goto(p, l), marker' \in BOOLEAN,
         UNCHANGED <<db, pfList, threads, job, todo, history>>, scanned' \in BOOLEAN
  PROVE  TypeOK'
BY DEF TypeOK, Goto, threads, history

(* The steps that cancel a goroutine, or take it from pfList. *)
LEMMA CancelType ==
  ASSUME TypeOK, NEW p \in Callers, NEW l \in Labels, job[p] # NoJob, Port(p) \in Ports,
         Cancel(p, l)
  PROVE  TypeOK'
<1>1. pfList[Port(p)] \in Runs
  BY DEF TypeOK, Cancel
<1>2. StoredOK' /\ ThreadsOK' /\ HistoryOK'
  BY <1>1, TypeParts DEF Cancel, StoredOK, ThreadsOK, HistoryOK, stored, history
<1>3. ControlOK'
  BY TypeParts DEF Cancel, ControlOK, Goto
<1>4. QED BY <1>2, <1>3, TypeWhole

LEMMA DelistType ==
  ASSUME TypeOK, NEW p \in Callers, NEW l \in Labels, NEW here, job[p] # NoJob,
         Port(p) \in Ports, Delist(p, here, l)
  PROVE  TypeOK'
<1>1. StoredOK' /\ ThreadsOK' /\ HistoryOK'
  BY TypeParts DEF Delist, StoredOK, ThreadsOK, HistoryOK, stored, history, threads
<1>2. ControlOK'
  BY TypeParts DEF Delist, ControlOK, Goto
<1>3. QED BY <1>1, <1>2, TypeWhole

LEMMA StopType ==
  ASSUME TypeOK, NEW p \in Callers, Stop(p)
  PROVE  TypeOK'
<1>1. pc[p] \notin {"idle", "scan", "recover"}
  BY DEF Stop, StopRunning, Unlist, StopStored, Delist, At
<1>2. Port(p) \in Ports /\ job[p] # NoJob
  BY <1>1, PortOfJob DEF TypeOK
<1>3. AfterStop(p) \in Labels
  BY DEF AfterStop, Labels
<1>4. CASE StopRunning(p)
  BY <1>2, <1>4, CancelType DEF StopRunning, Labels
<1>5. CASE Unlist(p)
  BY <1>2, <1>3, <1>5, DelistType DEF Unlist
<1>6. CASE StopStored(p)
  <2>1. db' \in [Ports -> Seq(Statuses)]
    BY <1>2, <1>6, ForgetType DEF StopStored
  <2>2. StoredOK' /\ ThreadsOK' /\ HistoryOK'
    BY <2>1, <1>6, TypeParts DEF StopStored, StoredOK, ThreadsOK, HistoryOK, history, threads
  <2>3. ControlOK'
    BY <1>2, <1>3, <1>6, TypeParts DEF StopStored, ControlOK, Goto
  <2>4. QED BY <2>2, <2>3, TypeWhole
<1>7. QED BY <1>4, <1>5, <1>6 DEF Stop

LEMMA GoPicks ==
  ASSUME NEW p \in Callers, Go(p)
  PROVE  \E r \in Runs :
           /\ run[r] = "off" /\ r \notin listening \cup waiting \cup dials \cup fired
           /\ run' = [run EXCEPT ![r] = "dial"] /\ key' = [key EXCEPT ![r] = Port(p)]
           /\ cancelled' = cancelled \ {r} /\ stopCh' = stopCh \ {r}
           /\ waiting' = waiting \cup {r} /\ silent' = silent \ {r}
           /\ pfList' = [pfList EXCEPT ![Port(p)] = r]
<1> DEFINE r == CHOOSE i \in Unused : TRUE
<1>1. r \in Unused
  BY DEF Go
<1>2. /\ run' = [run EXCEPT ![r] = "dial"] /\ key' = [key EXCEPT ![r] = Port(p)]
      /\ cancelled' = cancelled \ {r} /\ stopCh' = stopCh \ {r}
      /\ waiting' = waiting \cup {r} /\ silent' = silent \ {r}
      /\ pfList' = [pfList EXCEPT ![Port(p)] = r]
  BY DEF Go
<1> HIDE DEF r
<1>3. QED BY <1>1, <1>2 DEF Unused

LEMMA StartType ==
  ASSUME TypeOK, NEW p \in Callers, Start(p)
  PROVE  TypeOK'
<1>1. pc[p] \notin {"idle", "scan", "recover"}
  BY DEF Start, RedoPod, StopFirst, UnlistFirst, StartUnlisted, PortUnavailable, PortIsFree,
         RecordPortForward, CheckIfPortForwardExists, GetCurrentPod, AddPortForwardToDB, Go,
         Delist, At
<1>2. Port(p) \in Ports /\ job[p] # NoJob
  BY <1>1, PortOfJob DEF TypeOK
<1>3. Done(p) => \E l \in Labels : Goto(p, l)
  BY DEF Done, Labels
<1>4. marker \in BOOLEAN /\ scanned \in BOOLEAN
  BY DEF TypeOK
<1>5. CASE RedoPod(p) \/ StartUnlisted(p) \/ PortUnavailable(p) \/ PortIsFree(p)
           \/ CheckIfPortForwardExists(p) \/ GetCurrentPod(p)
  <2>1. \E l \in Labels : Goto(p, l)
    BY <1>3, <1>5 DEF RedoPod, StartUnlisted, PortUnavailable, PortIsFree,
       CheckIfPortForwardExists, GetCurrentPod, Labels
  <2>2. UNCHANGED <<db, marker, scanned, pfList, threads, job, todo, history>>
    BY <1>5 DEF RedoPod, StartUnlisted, PortUnavailable, PortIsFree,
       CheckIfPortForwardExists, GetCurrentPod, stored
  <2>3. QED BY <1>2, <1>4, <2>1, <2>2, MoveType
<1>6. CASE RecordPortForward(p)
  <2>1. PICK l \in Labels : Goto(p, l)
    BY <1>6 DEF RecordPortForward, Labels
  <2>2. QED BY <1>2, <1>4, <1>6, <2>1, MoveType DEF RecordPortForward
<1>7. CASE StopFirst(p)
  BY <1>2, <1>7, CancelType DEF StopFirst, Labels
<1>8. CASE UnlistFirst(p)
  BY <1>2, <1>8, DelistType DEF UnlistFirst, Labels
<1>9. CASE AddPortForwardToDB(p)
  <2>1. "New" \in Statuses /\ db[Port(p)] \in Seq(Statuses)
    BY <1>2 DEF Statuses, TypeOK
  <2>2. Append(db[Port(p)], "New") \in Seq(Statuses)
    BY <2>1, SeqFacts
  <2>3. StoredOK'
    BY <2>2, <1>2, <1>9, TypeParts DEF AddPortForwardToDB, StoredOK
  <2>4. ThreadsOK' /\ HistoryOK'
    BY <1>2, <1>9, TypeParts DEF AddPortForwardToDB, ThreadsOK, HistoryOK, threads
  <2>5. ControlOK'
    BY <1>2, <1>9, TypeParts DEF AddPortForwardToDB, ControlOK, Goto, Labels
  <2>6. QED BY <2>3, <2>4, <2>5, TypeWhole
<1>10. CASE Go(p)
  <2>1. StoredOK' /\ HistoryOK'
    BY <1>10, GoPicks, TypeParts DEF Go, StoredOK, HistoryOK, stored
  <2>2. ThreadsOK'
    <3>1. PICK r \in Runs :
            /\ run[r] = "off" /\ r \notin listening \cup waiting \cup dials \cup fired
            /\ run' = [run EXCEPT ![r] = "dial"] /\ key' = [key EXCEPT ![r] = Port(p)]
            /\ cancelled' = cancelled \ {r} /\ stopCh' = stopCh \ {r}
            /\ waiting' = waiting \cup {r}
            /\ pfList' = [pfList EXCEPT ![Port(p)] = r]
      BY <1>10, GoPicks
    <3>2. listening' = listening /\ fired' = fired /\ dials' = dials
      BY <1>10 DEF Go
    <3>3. ThreadsOK /\ "dial" \in States
      BY TypeParts DEF States
    <3>4. QED BY <1>2, <3>1, <3>2, <3>3 DEF ThreadsOK
  <2>3. ControlOK'
    <3>1. PICK l \in Labels : Goto(p, l)
      BY <1>3, <1>10 DEF Go
    <3>2. QED BY <1>2, <1>10, <3>1, TypeParts DEF Go, ControlOK, Goto
  <2>4. QED BY <2>1, <2>2, <2>3, TypeWhole
<1>11. QED BY <1>5, <1>6, <1>7, <1>8, <1>9, <1>10 DEF Start

LEMMA ForwardType ==
  ASSUME TypeOK, NEW r \in Runs, Forward(r) \/ Beside(r)
  PROVE  TypeOK'
<1>1. ControlOK'
  BY TypeParts DEF Forward, Ready, Fails, Reconnecting, Again, NoSocat, Stopped, IsPortForwarding,
     DeletePortForwardFromDB, Marked, Report, WriteListen, Beside, WaitTimeout, LateReady, LateFails, ListenerCloses, ControlOK,
     control
<1>2. key[r] \in Ports
  BY DEF TypeOK, Forward, Ready, Fails, Reconnecting, Again, NoSocat, Stopped, IsPortForwarding,
     DeletePortForwardFromDB, Marked, Report, WriteListen, Beside, WaitTimeout, LateReady, LateFails, ListenerCloses
<1>3. HistoryOK'
  BY <1>2, TypeParts DEF Forward, Ready, Fails, Reconnecting, Again, NoSocat, Stopped, IsPortForwarding,
     DeletePortForwardFromDB, Marked, Report, WriteListen, Beside, WaitTimeout, LateReady, LateFails, ListenerCloses, HistoryOK,
     control, history
<1>4. StoredOK'
  <2>1. {"LISTEN", "RECONNECTING", "Socat not found"} \subseteq Statuses
    BY DEF Statuses
  <2>2. CASE UNCHANGED db
    BY <2>2, TypeParts DEF Forward, Ready, Fails, Reconnecting, Again, NoSocat, Stopped,
       IsPortForwarding, DeletePortForwardFromDB, Marked, Report, WriteListen, Beside, WaitTimeout, LateReady,
       LateFails, ListenerCloses, StoredOK, stored
  <2>3. CASE Reconnecting(r) \/ NoSocat(r) \/ WriteListen(r)
    <3>1. \E v \in Statuses : UpdateStatus(key[r], v)
      BY <2>1, <2>3 DEF Reconnecting, NoSocat, WriteListen
    <3>2. marker' = marker /\ scanned' = scanned /\ key[r] \in Ports
      BY <2>3, <1>2 DEF Reconnecting, NoSocat, WriteListen, TypeOK
    <3>3. QED BY <3>1, <3>2, UpdateType, TypeParts DEF StoredOK
  <2>4. CASE DeletePortForwardFromDB(r)
    <3>1. key[r] \in Ports
      BY <2>4 DEF DeletePortForwardFromDB, TypeOK
    <3>2. QED BY <3>1, <2>4, ForgetType, TypeParts DEF DeletePortForwardFromDB, StoredOK
  <2>5. QED
    BY <2>2, <2>3, <2>4 DEF Forward, Ready, Fails, Again, Stopped, IsPortForwarding, Marked,
       Report, Beside, WaitTimeout, LateReady, LateFails, ListenerCloses, stored
<1>5. ThreadsOK'
  <2>1. ThreadsOK
    BY TypeParts
  <2>2. CASE Ready(r)
    BY <2>1, <2>2, <1>2 DEF Ready, Become, ThreadsOK, States
  <2>3. CASE Fails(r)
    BY <2>1, <2>3, <1>2 DEF Fails, Become, ThreadsOK, States
  <2>4. CASE Reconnecting(r)
    BY <2>1, <2>4, <1>2 DEF Reconnecting, Become, ThreadsOK, States
  <2>5. CASE Again(r)
    BY <2>1, <2>5, <1>2 DEF Again, Become, ThreadsOK, States
  <2>6. CASE NoSocat(r)
    BY <2>1, <2>6, <1>2 DEF NoSocat, Become, ThreadsOK, States
  <2>7. CASE Stopped(r)
    BY <2>1, <2>7, <1>2 DEF Stopped, Become, ThreadsOK, States
  <2>8. CASE DeletePortForwardFromDB(r)
    BY <2>1, <2>8, <1>2 DEF DeletePortForwardFromDB, Become, ThreadsOK, States
  <2>9. CASE IsPortForwarding(r)
    BY <2>1, <2>9, <1>2 DEF IsPortForwarding, Become, ThreadsOK, States
  <2>10. CASE Marked(r)
    BY <2>1, <2>10, <1>2 DEF Marked, Become, ThreadsOK, States
  <2>11. CASE Report(r)
    <3>1. key[r] \in Ports
      BY <2>11 DEF Report, TypeOK
    <3>2. pfList[key[r]] \in Runs \cup {None}
      BY <3>1, <2>1 DEF ThreadsOK
    <3>3. stopCh' \subseteq Runs
      BY <3>2, <2>1, <2>11 DEF Report, ThreadsOK
    <3>4. /\ run[r] = "report" /\ run' = [run EXCEPT ![r] = "off"]
          /\ UNCHANGED <<pfList, key, cancelled, listening, waiting, dials, fired>>
      BY <2>11 DEF Report, Become
    <3>5. QED BY <3>3, <3>4, <2>1 DEF ThreadsOK, States
  <2>12. CASE WriteListen(r)
    BY <2>1, <2>12 DEF WriteListen, ThreadsOK
  <2>13. CASE WaitTimeout(r)
    BY <2>1, <2>13 DEF WaitTimeout, ThreadsOK
  <2>14. CASE ListenerCloses(r)
    BY <2>1, <2>14 DEF ListenerCloses, ThreadsOK
  <2>15. CASE LateReady(r)
    BY <2>1, <2>15, <1>2 DEF LateReady, ThreadsOK
  <2>16. CASE LateFails(r)
    BY <2>1, <2>16 DEF LateFails, ThreadsOK
  <2>17. QED
    BY <2>2, <2>3, <2>4, <2>5, <2>6, <2>7, <2>8, <2>9, <2>10, <2>11, <2>12, <2>13, <2>14, <2>15,
       <2>16
    DEF Forward, Beside
<1>6. QED BY <1>1, <1>3, <1>4, <1>5, TypeWhole

LEMMA DaemonType ==
  ASSUME TypeOK, Restart \/ Scan \/ Recovered \/ \E k \in Ports : RecoverNext(k)
  PROVE  TypeOK'
<1>1. Recovery \in Callers
  BY DEF Callers
<1>2. CASE Restart
  BY <1>2 DEF Restart, TypeOK, States, Labels, stored, history
<1>3. CASE Scan
  <2>1. StoredOK' /\ ThreadsOK'
    <3>1. db' = db /\ marker' = marker /\ scanned' \in BOOLEAN
      BY <1>3 DEF Scan
    <3>2. StoredOK'
      BY <3>1, TypeParts DEF StoredOK
    <3>3. ThreadsOK'
      BY <1>3, TypeParts DEF Scan, ThreadsOK, threads
    <3>4. QED BY <3>2, <3>3
  <2>2. \A k \in Ports : Len(db[k]) \in Nat
    <3>1. db \in [Ports -> Seq(Statuses)]
      BY DEF TypeOK
    <3>2. QED BY <3>1
  <2>3. HistoryOK'
    BY <1>3, <2>2, TypeParts DEF Scan, HistoryOK, history
  <2>4. ControlOK'
    BY <1>1, <1>3, TypeParts DEF Scan, ControlOK, Goto, Labels
  <2>5. QED BY <2>1, <2>3, <2>4, TypeWhole
<1>4. CASE Recovered
  BY <1>1, <1>4, MoveType DEF Recovered, Labels
<1>5. ASSUME NEW k \in Ports, RecoverNext(k) PROVE TypeOK'
  <2>1. StoredOK' /\ ThreadsOK'
    BY <1>5, TypeParts DEF RecoverNext, StoredOK, ThreadsOK, stored, threads
  <2>2. HistoryOK'
    BY <1>5, TypeParts DEF RecoverNext, HistoryOK
  <2>3. ControlOK'
    <3>1. /\ [kind |-> "recover", key |-> k] \in Jobs
          /\ [kind |-> "recover", key |-> k] # NoJob
      BY <1>5, PortForwardAssumption DEF Jobs, NoJob
    <3>2. QED BY <1>1, <1>5, <3>1, TypeParts DEF RecoverNext, ControlOK, Goto, Labels
  <2>4. QED BY <2>1, <2>2, <2>3, TypeWhole
<1>6. QED BY <1>2, <1>3, <1>4, <1>5

LEMMA TypeStep == TypeOK /\ [Next]_vars => TypeOK'
<1> SUFFICES ASSUME TypeOK, [Next]_vars PROVE TypeOK'
  OBVIOUS
<1>1. CASE Next
  BY <1>1, CommandType, StopType, StartType, ForwardType, DaemonType DEF Next
<1>2. CASE UNCHANGED vars
  BY <1>2 DEF vars, TypeOK, stored, threads, control, history
<1>3. QED BY <1>1, <1>2

(* Whatever the commands, the goroutines and the restarts do, every        *)
(* variable of the daemon's port-forward manager and of what it has stored *)
(* keeps its type; a goroutine that is listed, waits or holds a port has a *)
(* port-forward.                                                           *)
THEOREM TypeCorrect == Spec => []TypeOK
BY TypeInit, TypeStep, PTL DEF Spec

-----------------------------------------------------------------------------
(* What the file and the records have to do with each other. *)

RecoveryLabels == {"start", "unlist first", "listen", "mark", "get pod", "go"}

(* The recovery only starts, and nobody else recovers. *)
RecoveryOK ==
  /\ pc[Recovery] \in RecoveryLabels \cup {"idle", "scan", "recover"}
  /\ pc[Recovery] \in RecoveryLabels => job[Recovery].kind = "recover"
  /\ \A p \in Commands : pc[p] \notin {"scan", "recover"} /\ job[p].kind # "recover"

(* A command that has written the file, and may add its record, finds it   *)
(* there; a goroutine that is about to remove it found no record.          *)
Written ==
  /\ \A p \in Commands : pc[p] \in {"check", "get pod", "add"} => marker \/ late
  /\ \A r \in Runs : run[r] = "remove" => Records = {} \/ late

LEMMA UpdateRecords ==
  ASSUME TypeOK, NEW k \in Ports, NEW v \in Statuses, UpdateStatus(k, v)
  PROVE  /\ Records' = Records
         /\ \A j \in Ports \ {k} : db'[j] = db[j]
         /\ k \in Records => db'[k][1] = v
<1>1. db[k] \in Seq(Statuses) /\ db \in [Ports -> Seq(Statuses)]
  BY DEF TypeOK
<1>2. \A j \in Ports \ {k} : db'[j] = db[j]
  BY <1>1 DEF UpdateStatus
<1>3. CASE db[k] = << >>
  <2>1. db'[k] = << >>
    BY <1>1, <1>3 DEF UpdateStatus
  <2>2. QED BY <1>2, <1>3, <2>1 DEF Records
<1>4. CASE db[k] # << >>
  <2>1. db'[k] = <<v>> \o Tail(db[k])
    BY <1>1, <1>4 DEF UpdateStatus
  <2>2. Tail(db[k]) \in Seq(Statuses)
    BY <1>1, <1>4
  <2>3. Len(<<v>> \o Tail(db[k])) = 1 + Len(Tail(db[k])) /\ (<<v>> \o Tail(db[k]))[1] = v
    BY <2>2
  <2>4. Len(<<v>> \o Tail(db[k])) # 0
    BY <2>2, <2>3
  <2>5. db'[k] # << >>
    BY <2>1, <2>4
  <2>6. QED BY <1>2, <1>4, <2>1, <2>3, <2>5 DEF Records
<1>5. QED BY <1>3, <1>4

LEMMA ForgetRecords ==
  ASSUME TypeOK, NEW k \in Ports, Forget(k)
  PROVE  /\ Records' \subseteq Records
         /\ \A j \in Ports \ {k} : db'[j] = db[j]
<1>1. db \in [Ports -> Seq(Statuses)]
  BY DEF TypeOK
<1>2. \A j \in Ports \ {k} : db'[j] = db[j]
  BY <1>1 DEF Forget
<1>3. db[k] = << >> => db'[k] = << >>
  BY <1>1 DEF Forget
<1>4. QED BY <1>2, <1>3 DEF Records

LEMMA AddRecords ==
  ASSUME TypeOK, NEW p \in Callers, Port(p) \in Ports, AddPortForwardToDB(p)
  PROVE  /\ Records' = Records \cup {Port(p)}
         /\ \A j \in Ports \ {Port(p)} : db'[j] = db[j]
         /\ db'[Port(p)][1] = IF Port(p) \in Records THEN db[Port(p)][1] ELSE "New"
<1> DEFINE k == Port(p)
<1>1. db[k] \in Seq(Statuses) /\ db \in [Ports -> Seq(Statuses)]
  BY DEF TypeOK
<1>2. db' = [db EXCEPT ![k] = Append(@, "New")]
  BY DEF AddPortForwardToDB
<1>3. db'[k] = Append(db[k], "New") /\ \A j \in Ports \ {k} : db'[j] = db[j]
  BY <1>1, <1>2
<1>4. Len(Append(db[k], "New")) = Len(db[k]) + 1
  BY <1>1
<1>5. Len(db[k]) \in Nat /\ (db[k] = << >> <=> Len(db[k]) = 0)
  BY <1>1
<1>6. Append(db[k], "New") # << >>
  <2>1. Len(Append(db[k], "New")) # 0
    BY <1>4, <1>5
  <2>2. QED BY <2>1, NonEmpty
<1>7. Append(db[k], "New")[1] = IF db[k] # << >> THEN db[k][1] ELSE "New"
  <2>1. Append(db[k], "New") \in Seq(Statuses \cup {"New"})
    BY <1>1
  <2>2. \A i \in 1..(Len(db[k]) + 1) :
          Append(db[k], "New")[i] = IF i <= Len(db[k]) THEN db[k][i] ELSE "New"
    BY <1>1
  <2>3. QED BY <1>5, <2>2
<1> HIDE DEF k
<1>8. Records' = Records \cup {k}
  BY <1>3, <1>6 DEF Records, k
<1>9. QED BY <1>3, <1>7, <1>8 DEF Records, k

(* The steps of a caller. *)
LEMMA CallerMoves ==
  ASSUME TypeOK, RecoveryOK, NEW p \in Callers, Stop(p) \/ Start(p)
  PROVE  /\ pc[p] \notin {"idle", "scan", "recover"} /\ job' = job /\ crossed' = crossed
         /\ owed \subseteq owed' /\ Port(p) \in Ports
         /\ pc' = [pc EXCEPT ![p] = pc'[p]]
         /\ RecoveryOK'
<1>1. pc[p] \notin {"idle", "scan", "recover"}
  BY DEF Stop, StopRunning, Unlist, StopStored, Start, RedoPod, StopFirst, UnlistFirst,
         StartUnlisted, PortUnavailable, PortIsFree, RecordPortForward, CheckIfPortForwardExists,
         GetCurrentPod, AddPortForwardToDB, Go, Delist, At
<1>2. job' = job /\ crossed' = crossed /\ owed \subseteq owed'
  BY DEF Stop, StopRunning, Unlist, StopStored, Start, RedoPod, StopFirst, UnlistFirst,
         StartUnlisted, PortUnavailable, PortIsFree, RecordPortForward, CheckIfPortForwardExists,
         GetCurrentPod, AddPortForwardToDB, Go, Delist, Cancel, history
<1> DEFINE Goes(l) == /\ p = Recovery => l \in RecoveryLabels \cup {"recover"}
                      /\ p # Recovery => l \notin {"scan", "recover"}
<1>3. \A l : Goto(p, l) /\ Goes(l) =>
        pc' = [pc EXCEPT ![p] = pc'[p]] /\ Goes(pc'[p])
  BY DEF Goto, TypeOK
<1>4. pc' = [pc EXCEPT ![p] = pc'[p]] /\ Goes(pc'[p])
  <2>1. p = Recovery => job[p].kind = "recover" /\ pc[p] \in RecoveryLabels
    BY <1>1 DEF RecoveryOK
  <2>2. /\ p = Recovery => /\ pc[p] \notin {"stop", "unlist", "pod", "check", "add"}
                           /\ job[p].kind # "redo"
        /\ Goes("unlist first") /\ Goes("listen") /\ Goes("mark") /\ Goes("get pod") /\ Goes("go")
        /\ Goes(IF p = Recovery THEN "recover" ELSE "idle")
        /\ p # Recovery => \A l \in Labels \ {"scan", "recover"} : Goes(l)
    BY <2>1 DEF RecoveryLabels
  <2> HIDE DEF Goes
  <2>3. CASE Stop(p)
    <3>1. p # Recovery
      BY <2>2, <2>3 DEF Stop, StopRunning, Unlist, StopStored, Delist, At
    <3>2. Goto(p, "unlist") \/ Goto(p, AfterStop(p))
      BY <2>3 DEF Stop, StopRunning, Unlist, StopStored, Delist, Cancel
    <3>3. {"unlist", AfterStop(p)} \subseteq Labels \ {"scan", "recover"}
      BY DEF AfterStop, Labels
    <3>4. QED BY <1>3, <2>2, <3>1, <3>2, <3>3
  <2>4. CASE StopFirst(p) \/ UnlistFirst(p) \/ StartUnlisted(p) \/ PortIsFree(p)
    <3>1. Goto(p, "unlist first") \/ Goto(p, "listen") \/ Goto(p, "mark")
      BY <2>4 DEF StopFirst, UnlistFirst, StartUnlisted, PortIsFree, Delist, Cancel
    <3>2. QED BY <1>3, <2>2, <3>1
  <2>5. CASE PortUnavailable(p) \/ Go(p)
    <3>1. Goto(p, IF p = Recovery THEN "recover" ELSE "idle")
      BY <2>5 DEF PortUnavailable, Go, Done
    <3>2. QED BY <1>3, <2>2, <3>1
  <2>6. CASE RecordPortForward(p)
    <3>1. Goto(p, "get pod") \/ (p # Recovery /\ Goto(p, "check"))
      BY <2>6, <2>1 DEF RecordPortForward
    <3>2. QED BY <1>3, <2>2, <3>1 DEF Labels
  <2>7. CASE RedoPod(p) \/ CheckIfPortForwardExists(p) \/ AddPortForwardToDB(p)
    <3>1. p # Recovery
      BY <2>2, <2>7 DEF RedoPod, CheckIfPortForwardExists, AddPortForwardToDB, At
    <3>2. \E l \in {"start", "idle", "get pod", "go"} : Goto(p, l)
      BY <2>7, <3>1 DEF RedoPod, CheckIfPortForwardExists, AddPortForwardToDB, Done
    <3>3. {"start", "idle", "get pod", "go"} \subseteq Labels \ {"scan", "recover"}
      BY DEF Labels
    <3>4. QED BY <1>3, <2>2, <3>1, <3>2, <3>3
  <2>8. CASE GetCurrentPod(p)
    <3>1. \/ Goto(p, "go") \/ (p # Recovery /\ Goto(p, "add"))
          \/ Goto(p, IF p = Recovery THEN "recover" ELSE "idle")
      BY <2>8, <2>1 DEF GetCurrentPod, Done
    <3>2. QED BY <1>3, <2>2, <3>1 DEF Labels
  <2>9. QED BY <2>3, <2>4, <2>5, <2>6, <2>7, <2>8 DEF Start
<1>5. RecoveryOK'
  <2>1. pc \in [Callers -> Labels]
    BY DEF TypeOK
  <2>2. /\ \A q \in Callers \ {p} : pc'[q] = pc[q]
    BY <1>4, <2>1
  <2>3. job[Recovery].kind = "recover" \/ p # Recovery
    BY <1>1 DEF RecoveryOK
  <2>4. QED BY <1>2, <1>4, <2>2, <2>3, PortForwardAssumption DEF RecoveryOK, Callers
<1>6. Port(p) \in Ports
  BY <1>1, PortOfJob
<1>7. QED BY <1>1, <1>2, <1>4, <1>5, <1>6

(* The steps of a goroutine. *)
Over == {"off", "recheck", "remove", "write", "report"}

LEMMA GoroutineMoves ==
  ASSUME TypeOK, NEW r \in Runs, Forward(r) \/ Beside(r)
  PROVE  /\ UNCHANGED <<pc, job, todo, crossed, owed, key, cancelled>>
         /\ run' = [run EXCEPT ![r] = run'[r]]
         /\ run[r] = "off" => run'[r] = "off"
         /\ run[r] \in Over => run'[r] \in Over
         /\ run'[r] \in ({"forget"} \cup Over) \ {"off"} =>
              r \in cancelled \/ run[r] \in ({"forget"} \cup Over) \ {"off"}
<1>1. UNCHANGED <<pc, job, todo, crossed, owed, key, cancelled>>
  BY DEF Forward, Ready, Fails, Reconnecting, Again, NoSocat, Stopped, IsPortForwarding,
     DeletePortForwardFromDB, Marked, Report, WriteListen, Beside, WaitTimeout, LateReady, LateFails, ListenerCloses, control,
     history
<1>2. run \in [Runs -> States]
  BY DEF TypeOK
<1>3. CASE Beside(r)
  BY <1>1, <1>2, <1>3 DEF WriteListen, Beside, WaitTimeout, LateReady, LateFails, ListenerCloses
<1>4. CASE Forward(r)
  <2> DEFINE Becomes(l) == /\ run[r] # "off"
                           /\ run[r] \in Over => l \in Over
                           /\ l \in ({"forget"} \cup Over) \ {"off"} =>
                                r \in cancelled \/ run[r] \in ({"forget"} \cup Over) \ {"off"}
  <2>1. \A l : Become(r, l) /\ Becomes(l) =>
          run' = [run EXCEPT ![r] = run'[r]] /\ Becomes(run'[r])
    BY <1>2 DEF Become
  <2>2. CASE Ready(r) \/ Again(r) \/ Reconnecting(r)
    <3>1. \E l \in {"serve", "dial", "sleep"} : Become(r, l) /\ Becomes(l)
      BY <2>2 DEF Ready, Again, Reconnecting, Over
    <3>2. QED BY <1>1, <2>1, <3>1
  <2>3. CASE Fails(r)
    <3>1. \E l \in {"new pod", "failed", "socat"} : Become(r, l) /\ Becomes(l)
      BY <2>3 DEF Fails, Over
    <3>2. QED BY <1>1, <2>1, <3>1
  <2>4. CASE NoSocat(r) \/ Stopped(r) \/ Report(r)
    <3>1. \E l \in {"off", "forget"} : Become(r, l) /\ Becomes(l)
      BY <2>4 DEF NoSocat, Stopped, Report, Over
    <3>2. QED BY <1>1, <2>1, <3>1
  <2>5. CASE DeletePortForwardFromDB(r) \/ IsPortForwarding(r) \/ Marked(r)
    <3>1. \E l \in {"recheck", "remove", "write", "report"} : Become(r, l) /\ Becomes(l)
      BY <2>5 DEF DeletePortForwardFromDB, IsPortForwarding, Marked, Over
    <3>2. QED BY <1>1, <2>1, <3>1
  <2>6. QED BY <1>4, <2>2, <2>3, <2>4, <2>5 DEF Forward
<1>5. QED BY <1>3, <1>4

LEMMA RecoveryStep ==
  ASSUME TypeOK, RecoveryOK, [Next]_vars
  PROVE  RecoveryOK'
<1>1. pc \in [Callers -> Labels] /\ job \in [Callers -> Jobs] /\ Recovery \in Callers
      /\ Commands \subseteq Callers /\ Recovery \notin Commands
  BY PortForwardAssumption DEF TypeOK, Callers
<1>2. ASSUME NEW p \in Commands, NEW k \in Ports, Command(p, k) PROVE RecoveryOK'
  <2>1. PICK kind \in {"start", "stop", "redo"} :
          /\ job' = [job EXCEPT ![p] = [kind |-> kind, key |-> k]]
          /\ pc' = [pc EXCEPT ![p] = IF kind = "start" THEN "start" ELSE "stop"]
    BY <1>2 DEF Command, Goto
  <2>2. /\ job'[p].kind = kind /\ pc'[p] \in {"start", "stop"}
        /\ \A q \in Callers \ {p} : pc'[q] = pc[q] /\ job'[q] = job[q]
    BY <1>1, <2>1
  <2>3. QED BY <1>1, <2>2 DEF RecoveryOK
<1>3. ASSUME NEW p \in Callers, Stop(p) \/ Start(p) PROVE RecoveryOK'
  BY <1>3, CallerMoves
<1>4. ASSUME NEW r \in Runs, Forward(r) \/ Beside(r)
      PROVE  RecoveryOK'
  BY <1>4, GoroutineMoves DEF RecoveryOK
<1>5. CASE Restart
  BY <1>1, <1>5 DEF Restart, RecoveryOK, RecoveryLabels
<1>6. CASE Scan \/ Recovered
  <2>1. job' = job /\ pc'[Recovery] \in {"recover", "idle"}
        /\ \A q \in Commands : pc'[q] = pc[q]
    BY <1>1, <1>6 DEF Scan, Recovered, Goto
  <2>2. QED BY <2>1 DEF RecoveryOK, RecoveryLabels
<1>7. ASSUME NEW k \in Ports, RecoverNext(k) PROVE RecoveryOK'
  <2>1. pc'[Recovery] = "start" /\ job'[Recovery].kind = "recover"
        /\ \A q \in Commands : pc'[q] = pc[q] /\ job'[q] = job[q]
    BY <1>1, <1>7 DEF RecoverNext, Goto
  <2>2. QED BY <2>1 DEF RecoveryOK, RecoveryLabels
<1>8. CASE UNCHANGED vars
  BY <1>8 DEF vars, control, RecoveryOK
<1>9. QED BY <1>2, <1>3, <1>4, <1>5, <1>6, <1>7, <1>8 DEF Next

MarkInv == TypeOK /\ RecoveryOK /\ Written /\ Recoverable

LEMMA MarkInit == Init => MarkInv
<1> SUFFICES ASSUME Init PROVE MarkInv
  OBVIOUS
<1>1. TypeOK
  BY TypeInit
<1>2. RecoveryOK
  <2>1. /\ pc[Recovery] \in {"idle", "scan"}
        /\ \A p \in Commands : pc[p] = "idle" /\ job[p] = NoJob
    BY PortForwardAssumption DEF Init, Callers
  <2>2. NoJob.kind = "none"
    BY DEF NoJob
  <2>3. \A p \in Commands : pc[p] \notin {"scan", "recover"} /\ job[p].kind # "recover"
    BY <2>1, <2>2
  <2>4. QED BY <2>1, <2>3 DEF RecoveryOK, RecoveryLabels
<1>3. Records = {}
  BY DEF Init, Records
<1>4. Written /\ Recoverable
  BY <1>3 DEF Init, Written, Recoverable, Callers
<1>5. QED BY <1>1, <1>2, <1>4 DEF MarkInv

LEMMA MarkStep == MarkInv /\ [Next]_vars => MarkInv'
<1> SUFFICES ASSUME MarkInv, [Next]_vars PROVE MarkInv'
  OBVIOUS
<1> USE DEF MarkInv
<1>1. TypeOK' /\ RecoveryOK'
  BY TypeStep, RecoveryStep
<1>2. pc \in [Callers -> Labels] /\ Commands \subseteq Callers /\ Recovery \notin Commands
      /\ run \in [Runs -> States] /\ late \in BOOLEAN /\ marker \in BOOLEAN
  BY PortForwardAssumption DEF TypeOK, Callers
<1>3. ASSUME NEW p \in Commands, NEW k \in Ports, Command(p, k)
      PROVE  Written' /\ Recoverable'
  <2>1. UNCHANGED <<db, marker, run, late>> /\ pc'[p] \in {"start", "stop"}
        /\ \A q \in Callers \ {p} : pc'[q] = pc[q]
    BY <1>2, <1>3 DEF Command, stored, threads, Goto
  <2>2. QED BY <1>2, <2>1 DEF Written, Recoverable, Records
<1>4. ASSUME NEW p \in Callers, Stop(p) \/ Start(p)
      PROVE  Written' /\ Recoverable'
  <2>1. /\ pc[p] \notin {"idle", "scan", "recover"} /\ Port(p) \in Ports
        /\ \A q \in Callers \ {p} : pc'[q] = pc[q]
    BY <1>2, <1>4, CallerMoves
  <2>2. CASE RecordPortForward(p)
    BY <2>2, <1>2 DEF RecordPortForward, Written, Recoverable, Records, threads, history
  <2>3. CASE AddPortForwardToDB(p)
    <3>1. p \in Commands
      BY <2>3 DEF AddPortForwardToDB, At, RecoveryOK, RecoveryLabels, Callers
    <3>2. marker \/ late
      BY <3>1, <2>3 DEF AddPortForwardToDB, At, Written
    <3>3. late' = (late \/ \E r \in Runs : run[r] = "remove") /\ run' = run /\ marker' = marker
      BY <2>3 DEF AddPortForwardToDB, threads
    <3>4. QED BY <3>2, <3>3 DEF Written, Recoverable
  <2>4. CASE StopStored(p)
    <3>1. UNCHANGED <<marker, run, late>> /\ Records' \subseteq Records
      BY <2>1, <2>4, ForgetRecords DEF StopStored, threads, history
    <3>2. pc'[p] \in {"pod", "idle"}
      BY <2>4, <1>2 DEF StopStored, AfterStop, Goto
    <3>3. QED BY <1>2, <2>1, <3>1, <3>2 DEF Written, Recoverable
  <2>5. CASE ~(RecordPortForward(p) \/ AddPortForwardToDB(p) \/ StopStored(p))
    <3>1. UNCHANGED <<db, marker, late>> /\ \A r \in Runs : run'[r] = "remove" => run[r] = "remove"
      BY <2>5, <1>2, <1>4 DEF Stop, StopRunning, Unlist, Start, RedoPod, StopFirst, UnlistFirst,
         StartUnlisted, PortUnavailable, PortIsFree, CheckIfPortForwardExists,
         GetCurrentPod, Go, Delist, Cancel, stored, history, threads
    <3>2. pc'[p] \in {"check", "get pod", "add"} /\ p \in Commands
            => pc[p] \in {"check", "get pod", "add"}
      BY <2>5, <1>2, <1>4 DEF Stop, StopRunning, Unlist, Start, RedoPod, StopFirst, UnlistFirst,
         StartUnlisted, PortUnavailable, PortIsFree, CheckIfPortForwardExists,
         GetCurrentPod, Go, Delist, Cancel, AfterStop, Done, Goto, At
    <3>3. QED BY <1>2, <2>1, <3>1, <3>2 DEF Written, Recoverable, Records
  <2>6. QED BY <2>2, <2>3, <2>4, <2>5
<1>5. ASSUME NEW r \in Runs, Forward(r) \/ Beside(r)
      PROVE  Written' /\ Recoverable'
  <2>1. pc' = pc /\ run' = [run EXCEPT ![r] = run'[r]]
    BY <1>5, GoroutineMoves
  <2>2. CASE IsPortForwarding(r)
    <3>1. UNCHANGED <<db, marker, late>> /\ (run'[r] = "remove" => Records = {})
      BY <2>2, <1>2 DEF IsPortForwarding, Become, stored, history
    <3>2. QED BY <1>2, <2>1, <3>1 DEF Written, Recoverable, Records
  <2>3. CASE Marked(r)
    <3>1. /\ db' = db /\ run'[r] = "report" /\ marker' = (run[r] = "write")
          /\ run[r] \in {"remove", "write"}
          /\ late' = (late \/ (run[r] = "remove" /\
                               \E p \in Commands : pc[p] \in {"check", "get pod", "add"}))
      BY <2>3, <1>2 DEF Marked, Become
    <3>2. QED BY <1>2, <2>1, <3>1 DEF Written, Recoverable, Records
  <2>4. CASE ~(IsPortForwarding(r) \/ Marked(r))
    <3>1. /\ UNCHANGED <<marker, late>>
          /\ run'[r] # "remove" \/ run' = run
      BY <2>4, <1>2, <1>5 DEF Forward, Ready, Fails, Reconnecting, Again, NoSocat, Stopped,
         DeletePortForwardFromDB, Report, WriteListen, Beside, WaitTimeout, LateReady, LateFails, ListenerCloses, Become,
         stored, history
    <3>2. Records' \subseteq Records
      <4>1. CASE DeletePortForwardFromDB(r)
        <5>1. key[r] \in Ports
          BY <4>1 DEF DeletePortForwardFromDB, TypeOK
        <5>2. QED BY <4>1, <5>1, ForgetRecords DEF DeletePortForwardFromDB
      <4>2. CASE Reconnecting(r) \/ NoSocat(r) \/ WriteListen(r)
        <5>1. key[r] \in Ports
          BY <4>2 DEF Reconnecting, NoSocat, WriteListen, TypeOK
        <5>2. \E v \in Statuses : UpdateStatus(key[r], v)
          BY <4>2 DEF Reconnecting, NoSocat, WriteListen, Statuses
        <5>3. QED BY <5>1, <5>2, UpdateRecords
      <4>3. CASE db' = db
        BY <4>3 DEF Records
      <4>4. QED BY <4>1, <4>2, <4>3, <2>4, <1>5 DEF Forward, Ready, Fails, Again, Stopped,
            Report, Beside, WaitTimeout, LateReady, LateFails, ListenerCloses, stored
    <3>3. marker' = marker /\ late' = late
      BY <2>4, <1>5 DEF Forward, Ready, Fails, Reconnecting, Again, NoSocat, Stopped,
         DeletePortForwardFromDB, Report, WriteListen, Beside, WaitTimeout, LateReady, LateFails, ListenerCloses,
         stored, history
    <3>4. \A q \in Runs : run'[q] = "remove" => run[q] = "remove"
      BY <1>2, <2>1, <3>1
    <3>5. QED BY <2>1, <3>2, <3>3, <3>4 DEF Written, Recoverable
  <2>5. QED BY <2>2, <2>3, <2>4
<1>6. ASSUME db' = db, late' = late, marker' = marker \/ marker' = TRUE,
             \A q \in Commands : pc'[q] = pc[q] \/ pc'[q] = "idle",
             \A r \in Runs : run'[r] = run[r] \/ run'[r] = "off"
      PROVE  Written' /\ Recoverable'
  <2>1. Records' = Records
    BY <1>6 DEF Records
  <2>2. late' \in BOOLEAN /\ marker' \in BOOLEAN
    BY <1>1 DEF TypeOK
  <2>3. Recoverable'
    BY <1>2, <1>6, <2>1, <2>2 DEF Recoverable
  <2>4. (\A p \in Commands : pc[p] \in {"check", "get pod", "add"} => marker \/ late)'
    <3>1. marker \/ late => marker' \/ late'
      BY <1>6, Zenon
    <3>2. \A p \in Commands : pc'[p] \in {"check", "get pod", "add"} => marker \/ late
      BY <1>6 DEF Written
    <3>3. QED BY <3>1, <3>2
  <2>5. (\A r \in Runs : run[r] = "remove" => Records = {} \/ late)'
    <3>1. \A r \in Runs : run'[r] = "remove" => Records = {} \/ late
      BY <1>6 DEF Written
    <3>2. QED BY <1>6, <2>1, <3>1
  <2>6. QED BY <2>3, <2>4, <2>5 DEF Written
<1>7. CASE Restart
  <2>1. db' = db /\ late' = late /\ marker' = marker
    BY <1>7 DEF Restart, stored, history
  <2>2. /\ \A q \in Commands : pc'[q] = pc[q] \/ pc'[q] = "idle"
        /\ \A r \in Runs : run'[r] = run[r] \/ run'[r] = "off"
    BY <1>2, <1>7 DEF Restart
  <2>3. QED BY <1>1, <1>6, <2>1, <2>2, Zenon
<1>8. CASE Scan \/ Recovered \/ \E k \in Ports : RecoverNext(k)
  <2>1. db' = db /\ late' = late /\ (marker' = marker \/ marker' = TRUE) /\ run' = run
    BY <1>8 DEF Scan, Recovered, RecoverNext, stored, threads, history
  <2>2. \A q \in Commands : pc'[q] = pc[q]
    BY <1>2, <1>8 DEF Scan, Recovered, RecoverNext, Goto
  <2>3. QED BY <1>1, <1>6, <2>1, <2>2, Zenon
<1>9. CASE UNCHANGED vars
  <2>1. UNCHANGED <<db, late, marker, pc, run>>
    BY <1>9 DEF vars, stored, control, threads, history
  <2>2. QED BY <1>1, <1>6, <2>1, Zenon
<1>10. QED BY <1>1, <1>3, <1>4, <1>5, <1>6, <1>7, <1>8, <1>9 DEF Next

(* What is recorded is recovered: recordPortForward keeps the file that    *)
(* RecoverAllPortForward looks for while the profile has a record, except  *)
(* for a start that wrote the file and added its record around the check   *)
(* and the removal of a goroutine that ends.                               *)
THEOREM RecordsAreRecovered == Spec => []Recoverable
<1>1. MarkInv => Recoverable
  BY DEF MarkInv
<1>2. QED BY <1>1, MarkInit, MarkStep, PTL DEF Spec

-----------------------------------------------------------------------------
(* What pfList and the records have to do with the goroutines. *)

Exempt == crossed \cup owed

(* A command that has found no goroutine for its port-forward, or has      *)
(* cancelled the one it found.                                             *)
Started ==
  {"unlist", "unlist first", "listen", "mark", "check", "get pod", "add", "go"}

(* A goroutine with its record to delete. *)
Owes(r) == run[r] \notin Over

(* Only one caller at a time is about a port-forward ... *)
Solo ==
  \A p, q \in Callers :
    p # q /\ pc[p] # "idle" /\ pc[q] # "idle" /\ Port(p) = Port(q) => Port(p) \in crossed

(* ... so that what it has found still holds when it goes on. *)
Quiet ==
  \A p \in Callers, r \in Runs :
    pc[p] \in Started /\ Running(r) /\ key[r] = Port(p) => Port(p) \in Exempt

(* Only a goroutine that is cancelled deletes its record. *)
Ending == \A r \in Runs : run[r] \in ({"forget"} \cup Over) \ {"off"} => r \in cancelled

OneOwes ==
  \A r, s \in Runs : r # s /\ Owes(r) /\ Owes(s) /\ key[r] = key[s] => key[r] \in Exempt

(* A goroutine that is about to begin has its record, and is alone. *)
Begins ==
  \A p \in Callers :
    pc[p] = "go" /\ Port(p) \notin Exempt =>
      Port(p) \in Records /\ \A r \in Runs : Owes(r) => key[r] # Port(p)

RecoversDead ==
  pc[Recovery] \in RecoveryLabels /\ Port(Recovery) \notin Exempt =>
    /\ Port(Recovery) \in Records
    /\ \A r \in Runs : run[r] # "off" => key[r] # Port(Recovery)

LinkInv ==
  /\ TypeOK /\ RecoveryOK /\ Solo /\ Quiet /\ Ending /\ OneOwes /\ Begins /\ RecoversDead
  /\ CanBeStopped /\ RecordIsKept

LEMMA LinkInit == Init => LinkInv
<1> SUFFICES ASSUME Init PROVE LinkInv
  OBVIOUS
<1>1. TypeOK /\ RecoveryOK
  BY TypeInit, MarkInit DEF MarkInv
<1>2. /\ \A p \in Callers : pc[p] = "idle" \/ (p = Recovery /\ pc[p] = "scan")
      /\ \A r \in Runs : run[r] = "off"
      /\ Recovery \in Callers
  BY DEF Init, Callers
<1>3. Solo /\ Quiet /\ Begins
  BY <1>2 DEF Solo, Quiet, Begins, Started
<1>4. Ending /\ OneOwes /\ RecoversDead /\ CanBeStopped /\ RecordIsKept
  BY <1>2 DEF Ending, OneOwes, Owes, Over, RecoversDead, RecoveryLabels, CanBeStopped,
     RecordIsKept, Running
<1>5. QED BY <1>1, <1>3, <1>4 DEF LinkInv

LEMMA SoloStep ==
  ASSUME TypeOK, RecoveryOK, Solo, [Next]_vars
  PROVE  Solo'
<1>1. pc \in [Callers -> Labels] /\ job \in [Callers -> Jobs] /\ Recovery \in Callers
      /\ Commands \subseteq Callers
  BY DEF TypeOK, Callers
<1>2. ASSUME NEW p \in Commands, NEW k \in Ports, Command(p, k) PROVE Solo'
  <2>1. /\ Busy(k) # {} => k \in crossed'
        /\ crossed \subseteq crossed'
        /\ job'[p].key = k
        /\ \A q \in Callers \ {p} : pc'[q] = pc[q] /\ job'[q] = job[q]
    BY <1>1, <1>2 DEF Command, Goto
  <2>2. \A q \in Callers \ {p} : pc[q] # "idle" /\ job[q].key = k => k \in crossed'
    BY <2>1 DEF Busy, Port
  <2>3. QED BY <1>1, <2>1, <2>2 DEF Solo, Port
<1>3. ASSUME NEW p \in Callers, pc[p] # "idle", pc' = [pc EXCEPT ![p] = pc'[p]], job' = job,
             crossed' = crossed
      PROVE  Solo'
  BY <1>1, <1>3 DEF Solo, Port
<1>4. ASSUME NEW p \in Callers, Stop(p) \/ Start(p) PROVE Solo'
  BY <1>3, <1>4, CallerMoves
<1>5. ASSUME NEW r \in Runs, Forward(r) \/ Beside(r)
      PROVE  Solo'
  BY <1>5, GoroutineMoves DEF Solo, Port
<1>6. CASE Restart
  BY <1>1, <1>6 DEF Restart, Solo
<1>7. CASE Scan \/ Recovered
  <2>1. pc[Recovery] # "idle" /\ pc' = [pc EXCEPT ![Recovery] = pc'[Recovery]] /\ job' = job
        /\ crossed' = crossed
    BY <1>1, <1>7 DEF Scan, Recovered, At, Goto, history
  <2>2. QED BY <1>1, <1>3, <2>1
<1>8. ASSUME NEW k \in Ports, RecoverNext(k) PROVE Solo'
  <2>1. /\ Busy(k) \ {Recovery} # {} => k \in crossed'
        /\ crossed \subseteq crossed'
        /\ job'[Recovery].key = k
        /\ \A q \in Callers \ {Recovery} : pc'[q] = pc[q] /\ job'[q] = job[q]
    BY <1>1, <1>8 DEF RecoverNext, Goto
  <2>2. \A q \in Callers \ {Recovery} : pc[q] # "idle" /\ job[q].key = k => k \in crossed'
    BY <2>1 DEF Busy, Port
  <2>3. QED BY <1>1, <2>1, <2>2 DEF Solo, Port
<1>9. CASE UNCHANGED vars
  BY <1>9 DEF vars, control, history, Solo, Port
<1>10. QED BY <1>2, <1>4, <1>5, <1>6, <1>7, <1>8, <1>9 DEF Next

(* A goroutine that nobody has cancelled still has its record to delete. *)
LEMMA RunningOwes ==
  ASSUME Ending, NEW r \in Runs, Running(r)
  PROVE  Owes(r)
BY DEF Ending, Running, Owes, Over

(* The steps of a goroutine keep what pfList and the records say. *)
LEMMA GoroutineLinks ==
  ASSUME LinkInv, NEW r \in Runs,
         Forward(r) \/ Beside(r)
  PROVE  /\ Quiet' /\ Ending' /\ OneOwes' /\ Begins' /\ RecoversDead'
         /\ CanBeStopped' /\ RecordIsKept'
<1> USE DEF LinkInv
<1>1. /\ UNCHANGED <<pc, job, crossed, owed, key, cancelled>>
      /\ run' = [run EXCEPT ![r] = run'[r]]
      /\ run[r] = "off" => run'[r] = "off"
      /\ run[r] \in Over => run'[r] \in Over
      /\ run'[r] \in ({"forget"} \cup Over) \ {"off"} =>
           r \in cancelled \/ run[r] \in ({"forget"} \cup Over) \ {"off"}
  BY GoroutineMoves
<1>2. run \in [Runs -> States]
  BY DEF TypeOK
<1>3. /\ \A s \in Runs : run'[s] # "off" => run[s] # "off"
      /\ \A s \in Runs : Owes(s)' => Owes(s)
      /\ \A s \in Runs : Running(s)' => Running(s)
      /\ \A s \in Runs \ {r} : run'[s] = run[s]
  BY <1>1, <1>2 DEF Owes, Running
<1>4. Exempt' = Exempt /\ \A p \in Callers : Port(p)' = Port(p)
  BY <1>1 DEF Exempt, Port
<1>5. Quiet'
  BY <1>1, <1>3, <1>4 DEF Quiet
<1>6. Ending'
  BY <1>1, <1>3 DEF Ending
<1>7. OneOwes'
  BY <1>1, <1>3, <1>4 DEF OneOwes
<1>8. \A k \in Records \ Records' : k = key[r] /\ run[r] = "forget"
  <2>1. CASE DeletePortForwardFromDB(r)
    <3>1. key[r] \in Ports /\ run[r] = "forget"
      BY <2>1 DEF DeletePortForwardFromDB, TypeOK
    <3>2. QED BY <2>1, <3>1, ForgetRecords DEF DeletePortForwardFromDB, Records
  <2>2. CASE Reconnecting(r) \/ NoSocat(r) \/ WriteListen(r)
    <3>1. key[r] \in Ports
      BY <2>2 DEF Reconnecting, NoSocat, WriteListen, TypeOK
    <3>2. \E v \in Statuses : UpdateStatus(key[r], v)
      BY <2>2 DEF Reconnecting, NoSocat, WriteListen, Statuses
    <3>3. QED BY <3>1, <3>2, UpdateRecords
  <2>3. CASE db' = db
    BY <2>3 DEF Records
  <2>4. QED BY <2>1, <2>2, <2>3 DEF Forward, Ready, Fails, Again, Stopped, IsPortForwarding, Marked,
        Report, Beside, WaitTimeout, LateReady, LateFails, ListenerCloses, stored
<1>9. run[r] = "forget" => Owes(r) /\ ~Running(r) /\ run[r] # "off"
  BY DEF Owes, Over, Ending, Running
<1>10. Begins'
  BY <1>1, <1>3, <1>4, <1>8, <1>9 DEF Begins
<1>11. RecoversDead'
  <2>1. Recovery \in Callers
    BY DEF Callers
  <2>2. QED BY <2>1, <1>1, <1>3, <1>4, <1>8, <1>9 DEF RecoversDead
<1>12. RecordIsKept'
  <2> SUFFICES ASSUME NEW s \in Runs, Running(s)', key[s] \notin Exempt
               PROVE  key[s] \in Records'
    BY <1>1, <1>4 DEF RecordIsKept, Exempt
  <2>1. Running(s) /\ Owes(s)
    BY <1>3, RunningOwes
  <2>2. key[s] \in Records
    BY <2>1 DEF RecordIsKept, Exempt
  <2>3. run[r] = "forget" => key[s] # key[r]
    BY <2>1, <1>9 DEF OneOwes
  <2>4. QED BY <2>2, <2>3, <1>8
<1>13. CanBeStopped'
  <2> SUFFICES ASSUME NEW s \in Runs, Running(s)', key[s] \notin Exempt
               PROVE  pfList'[key[s]] = s
    BY <1>1, <1>4 DEF CanBeStopped, Exempt
  <2>1. Running(s) /\ Owes(s) /\ pfList[key[s]] = s
    BY <1>3, RunningOwes DEF CanBeStopped, Exempt
  <2>2. CASE NoSocat(r)
    <3>1. run'[r] = "off" /\ run[r] = "socat"
      BY <2>2, <1>2 DEF NoSocat, Become
    <3>2. s # r /\ Owes(r)
      BY <3>1 DEF Running, Owes, Over
    <3>3. key[s] # key[r]
      BY <2>1, <3>2 DEF OneOwes
    <3>4. pfList \in [Ports -> Runs \cup {None}] /\ key[s] \in Ports
      BY <2>1 DEF TypeOK, Running
    <3>5. QED BY <2>1, <2>2, <3>3, <3>4 DEF NoSocat
  <2>3. CASE pfList' = pfList
    BY <2>1, <2>3
  <2>4. QED BY <2>2, <2>3 DEF Forward, Ready, Fails, Reconnecting, Again, Stopped,
        DeletePortForwardFromDB, IsPortForwarding, Marked, Report, WriteListen, Beside, WaitTimeout, LateReady,
        LateFails, ListenerCloses
<1>14. QED BY <1>5, <1>6, <1>7, <1>10, <1>11, <1>12, <1>13

(* So do the steps of a caller, before the goroutine begins. *)
LEMMA CallerLinks ==
  ASSUME LinkInv, NEW p \in Callers, Stop(p) \/ Start(p), ~Go(p)
  PROVE  /\ Quiet' /\ Ending' /\ OneOwes' /\ Begins' /\ RecoversDead'
         /\ CanBeStopped' /\ RecordIsKept'
<1> USE DEF LinkInv
<1> DEFINE k == Port(p)
<1>1. /\ pc[p] \notin {"idle", "scan", "recover"} /\ job' = job /\ crossed' = crossed
      /\ owed \subseteq owed' /\ k \in Ports
      /\ pc' = [pc EXCEPT ![p] = pc'[p]]
  BY CallerMoves
<1>2. /\ UNCHANGED <<run, key>> /\ cancelled \subseteq cancelled'
      /\ pc \in [Callers -> Labels]
  BY DEF Stop, StopRunning, Unlist, StopStored, Start, RedoPod, StopFirst, UnlistFirst,
     StartUnlisted, PortUnavailable, PortIsFree, RecordPortForward, CheckIfPortForwardExists,
     GetCurrentPod, AddPortForwardToDB, Delist, Cancel, threads, TypeOK
<1>3. /\ \A s \in Runs : Running(s)' => Running(s)
      /\ \A s \in Runs : Owes(s)' <=> Owes(s)
      /\ Exempt \subseteq Exempt'
      /\ \A q \in Callers : Port(q)' = Port(q)
      /\ \A q \in Callers \ {p} : pc'[q] = pc[q]
  BY <1>1, <1>2 DEF Running, Owes, Exempt, Port
<1>4. pc'[p] \in Started =>
        \/ pc[p] \in Started
        \/ k \in Exempt
        \/ \A s \in Runs : Running(s)' => key[s] # k
  <2>1. CASE StopRunning(p) \/ StopFirst(p)
    <3>1. pfList[k] \in cancelled'
      BY <2>1 DEF StopRunning, StopFirst, Cancel
    <3>2. QED BY <1>3, <3>1 DEF CanBeStopped, Exempt, Running
  <2>2. CASE StartUnlisted(p)
    <3>1. pfList[k] = None /\ None \notin Runs
      BY <2>2, PortForwardAssumption DEF StartUnlisted
    <3>2. QED BY <1>3, <3>1 DEF CanBeStopped, Exempt
  <2>3. CASE Unlist(p) \/ StopStored(p) \/ RedoPod(p)
    <3>1. pc'[p] \in {"pod", "idle", "start"}
      BY <2>3, <1>2 DEF Unlist, StopStored, RedoPod, Delist, AfterStop, Goto
    <3>2. QED BY <3>1 DEF Started
  <2>4. CASE \/ UnlistFirst(p) \/ PortUnavailable(p) \/ PortIsFree(p) \/ RecordPortForward(p)
             \/ CheckIfPortForwardExists(p) \/ GetCurrentPod(p) \/ AddPortForwardToDB(p)
    <3>1. pc[p] \in Started
      BY <2>4 DEF UnlistFirst, PortUnavailable, PortIsFree, RecordPortForward,
         CheckIfPortForwardExists, GetCurrentPod, AddPortForwardToDB, Delist, At, Started
    <3>2. QED BY <3>1
  <2>5. QED BY <2>1, <2>2, <2>3, <2>4 DEF Stop, Start
<1> HIDE DEF k
<1>5. Quiet'
  <2> SUFFICES ASSUME NEW q \in Callers, NEW s \in Runs, pc'[q] \in Started, Running(s)',
                      key[s] = Port(q), Port(q) \notin Exempt
               PROVE  FALSE
    BY <1>2, <1>3 DEF Quiet
  <2>1. Running(s)
    BY <1>3
  <2>2. pc[q] \in Started => FALSE
    BY <2>1 DEF Quiet
  <2>3. q = p
    BY <1>3, <2>2
  <2>4. QED BY <1>4, <2>2, <2>3 DEF k
<1>6. Ending' /\ OneOwes'
  BY <1>2, <1>3 DEF Ending, OneOwes
<1>7. /\ \A j \in Records \ Records' : j = k /\ StopStored(p)
      /\ AddPortForwardToDB(p) => k \in Records'
  <2>1. CASE StopStored(p)
    <3>1. Forget(k)
      BY <2>1 DEF StopStored, k
    <3>2. ~AddPortForwardToDB(p)
      BY <2>1 DEF StopStored, AddPortForwardToDB, At
    <3>3. QED BY <1>1, <2>1, <3>1, <3>2, ForgetRecords DEF Records
  <2>2. CASE AddPortForwardToDB(p)
    BY <1>1, <2>2, AddRecords DEF k
  <2>3. CASE ~StopStored(p) /\ ~AddPortForwardToDB(p)
    <3>1. db' = db
      BY <2>3 DEF Stop, StopRunning, Unlist, Start, RedoPod, StopFirst, UnlistFirst,
         StartUnlisted, PortUnavailable, PortIsFree, RecordPortForward, CheckIfPortForwardExists,
         GetCurrentPod, Delist, Cancel, stored
    <3>2. QED BY <2>3, <3>1 DEF Records
  <2>4. QED BY <2>1, <2>2, <2>3
<1>8. ASSUME NEW q \in Callers, q # p, pc[q] # "idle", Port(q) \notin Exempt
      PROVE  Port(q) # k
  BY <1>1, <1>8 DEF Solo, Exempt, k
<1>9. Begins'
  <2> SUFFICES ASSUME NEW q \in Callers, pc'[q] = "go", Port(q) \notin Exempt'
               PROVE  Port(q) \in Records' /\ \A s \in Runs : Owes(s) => key[s] # Port(q)
    BY <1>2, <1>3 DEF Begins
  <2>1. Port(q) \notin Exempt
    BY <1>3
  <2>2. CASE q # p
    <3>1. pc[q] = "go" /\ Port(q) # k
      BY <1>3, <1>8, <2>1, <2>2
    <3>2. QED BY <1>7, <2>1, <3>1 DEF Begins
  <2>3. CASE q = p
    <3>1. AddPortForwardToDB(p) \/ (GetCurrentPod(p) /\ job[p].kind = "recover")
      BY <1>2, <2>3 DEF Stop, StopRunning, Unlist, StopStored, Start, RedoPod, StopFirst,
         UnlistFirst, StartUnlisted, PortUnavailable, PortIsFree, RecordPortForward,
         CheckIfPortForwardExists, GetCurrentPod, Delist, Cancel, AfterStop, Done, Goto
    <3>2. CASE AddPortForwardToDB(p)
      <4>1. Owing(k) # {} => k \in owed'
        BY <3>2 DEF AddPortForwardToDB, k
      <4>2. Owing(k) = {}
        BY <2>3, <4>1 DEF Exempt, k
      <4>3. \A s \in Runs : Owes(s) => key[s] # k
        BY <4>2 DEF Owing, Alive, Owes, Over
      <4>4. QED BY <1>7, <2>3, <3>2, <4>3 DEF k
    <3>3. CASE GetCurrentPod(p) /\ job[p].kind = "recover"
      <4>1. p = Recovery /\ pc[p] = "get pod" /\ db' = db
        BY <3>3 DEF GetCurrentPod, At, RecoveryOK, Callers, stored
      <4>2. k \in Records /\ \A s \in Runs : run[s] # "off" => key[s] # k
        BY <2>1, <2>3, <4>1 DEF RecoversDead, RecoveryLabels, k
      <4>3. QED BY <2>3, <4>1, <4>2 DEF Records, Owes, Over, k
    <3>4. QED BY <3>1, <3>2, <3>3
  <2>4. QED BY <2>2, <2>3
<1>10. RecoversDead'
  <2>1. Recovery \in Callers
    BY DEF Callers
  <2> SUFFICES ASSUME pc'[Recovery] \in RecoveryLabels, Port(Recovery) \notin Exempt'
               PROVE  /\ Port(Recovery) \in Records'
                      /\ \A s \in Runs : run[s] # "off" => key[s] # Port(Recovery)
    BY <1>2, <1>3, <2>1 DEF RecoversDead
  <2>2. pc[Recovery] \in RecoveryLabels
    BY <1>1, <1>3, <2>1 DEF RecoveryOK
  <2>3. /\ Port(Recovery) \in Records
        /\ \A s \in Runs : run[s] # "off" => key[s] # Port(Recovery)
    BY <1>3, <2>2 DEF RecoversDead
  <2>4. p # Recovery => Port(Recovery) # k
    BY <1>3, <1>8, <2>1, <2>2 DEF RecoveryLabels
  <2>5. p = Recovery => ~StopStored(p)
    BY <2>2 DEF StopStored, At, RecoveryLabels
  <2>6. QED BY <1>7, <2>3, <2>4, <2>5
<1>11. CanBeStopped'
  <2> SUFFICES ASSUME NEW s \in Runs, Running(s)', key[s] \notin Exempt
               PROVE  pfList'[key[s]] = s
    BY <1>2, <1>3 DEF CanBeStopped, Exempt
  <2>1. Running(s) /\ pfList[key[s]] = s
    BY <1>3 DEF CanBeStopped, Exempt
  <2>2. CASE Unlist(p) \/ UnlistFirst(p)
    <3>1. pc[p] \in Started /\ pfList' = [pfList EXCEPT ![k] = None]
      BY <2>2 DEF Unlist, UnlistFirst, Delist, At, Started, k
    <3>2. key[s] # k
      BY <2>1, <3>1 DEF Quiet, k
    <3>3. pfList \in [Ports -> Runs \cup {None}] /\ key[s] \in Ports
      BY <2>1 DEF TypeOK, Running
    <3>4. QED BY <2>1, <3>1, <3>2, <3>3
  <2>3. CASE ~Unlist(p) /\ ~UnlistFirst(p)
    <3>1. pfList' = pfList
      BY <2>3 DEF Stop, StopRunning, StopStored, Start, RedoPod, StopFirst,
         StartUnlisted, PortUnavailable, PortIsFree, RecordPortForward, CheckIfPortForwardExists,
         GetCurrentPod, AddPortForwardToDB, Cancel
    <3>2. QED BY <2>1, <3>1
  <2>4. QED BY <2>2, <2>3
<1>12. RecordIsKept'
  <2> SUFFICES ASSUME NEW s \in Runs, Running(s)', key[s] \notin Exempt
               PROVE  key[s] \in Records'
    BY <1>2, <1>3 DEF RecordIsKept, Exempt
  <2>1. Running(s) /\ pfList[key[s]] = s /\ key[s] \in Records
    BY <1>3 DEF CanBeStopped, RecordIsKept, Exempt
  <2>2. StopStored(p) => key[s] # k
    BY <2>1, PortForwardAssumption DEF StopStored, k
  <2>3. QED BY <1>7, <2>1, <2>2
<1>13. QED BY <1>5, <1>6, <1>9, <1>10, <1>11, <1>12

(* And the beginning of a goroutine. *)
LEMMA GoLinks ==
  ASSUME LinkInv, NEW p \in Callers, Go(p)
  PROVE  /\ Quiet' /\ Ending' /\ OneOwes' /\ Begins' /\ RecoversDead'
         /\ CanBeStopped' /\ RecordIsKept'
<1> USE DEF LinkInv
<1> DEFINE k == Port(p)
<1>1. /\ job' = job /\ crossed' = crossed /\ k \in Ports
      /\ pc' = [pc EXCEPT ![p] = pc'[p]]
      /\ pc \in [Callers -> Labels]
  BY CallerMoves DEF Start, TypeOK
<1>2. /\ pc[p] = "go" /\ pc'[p] = (IF p = Recovery THEN "recover" ELSE "idle")
      /\ owed' = owed /\ db' = db
  BY <1>1 DEF Go, At, Done, Goto, stored, history
<1>3. PICK r \in Runs :
        /\ run[r] = "off"
        /\ run' = [run EXCEPT ![r] = "dial"] /\ key' = [key EXCEPT ![r] = k]
        /\ cancelled' = cancelled \ {r}
        /\ pfList' = [pfList EXCEPT ![k] = r]
  BY GoPicks
<1>4. /\ \A s \in Runs \ {r} : /\ run'[s] = run[s] /\ key'[s] = key[s]
                               /\ Running(s)' <=> Running(s)
                               /\ Owes(s)' <=> Owes(s)
      /\ run'[r] = "dial" /\ key'[r] = k
  BY <1>3 DEF TypeOK, Running, Owes
<1>5. /\ Exempt' = Exempt /\ Records' = Records
      /\ \A q \in Callers : Port(q)' = Port(q)
      /\ \A q \in Callers \ {p} : pc'[q] = pc[q]
  BY <1>1, <1>2 DEF Exempt, Records, Port
<1>6. ASSUME NEW q \in Callers \ {p}, pc[q] # "idle", Port(q) \notin Exempt
      PROVE  Port(q) # k
  BY <1>2, <1>6 DEF Solo, Exempt
<1>7. k \notin Exempt =>
        k \in Records /\ \A s \in Runs : (Owes(s) => key[s] # k) /\ (Running(s) => key[s] # k)
  BY <1>2 DEF Begins, Quiet, Started
<1>8. pc'[p] \notin Started \cup RecoveryLabels
  BY <1>2 DEF Started, RecoveryLabels
<1> HIDE DEF k
<1>9. Quiet'
  <2> SUFFICES ASSUME NEW q \in Callers, NEW s \in Runs, pc'[q] \in Started, Running(s)',
                      key'[s] = Port(q), Port(q) \notin Exempt
               PROVE  FALSE
    BY <1>5 DEF Quiet
  <2>1. q # p /\ pc[q] \in Started
    BY <1>5, <1>8
  <2>2. Port(q) # k
    BY <1>6, <2>1 DEF Started
  <2>3. s # r
    BY <1>4, <2>2
  <2>4. QED BY <1>4, <2>1, <2>3 DEF Quiet
<1>10. Ending'
  BY <1>3, <1>4 DEF Ending, Over
<1>11. OneOwes'
  <2> SUFFICES ASSUME NEW s \in Runs, NEW t \in Runs, s # t, Owes(s)', Owes(t)',
                      key'[s] = key'[t], key'[s] \notin Exempt
               PROVE  FALSE
    BY <1>5 DEF OneOwes
  <2>1. CASE s # r /\ t # r
    BY <1>4, <2>1 DEF OneOwes
  <2>2. CASE s = r \/ t = r
    BY <1>4, <1>7, <2>2
  <2>3. QED BY <2>1, <2>2
<1>12. Begins'
  <2> SUFFICES ASSUME NEW q \in Callers, pc'[q] = "go", Port(q) \notin Exempt
               PROVE  Port(q) \in Records /\ \A s \in Runs : Owes(s)' => key'[s] # Port(q)
    BY <1>5 DEF Begins
  <2>1. q # p /\ pc[q] = "go"
    BY <1>5, <1>8 DEF Started
  <2>2. Port(q) # k
    BY <1>6, <2>1
  <2>3. QED BY <1>4, <2>1, <2>2 DEF Begins
<1>13. RecoversDead'
  <2>1. Recovery \in Callers
    BY DEF Callers
  <2> SUFFICES ASSUME pc'[Recovery] \in RecoveryLabels, Port(Recovery) \notin Exempt
               PROVE  /\ Port(Recovery) \in Records
                      /\ \A s \in Runs : run'[s] # "off" => key'[s] # Port(Recovery)
    BY <1>5, <2>1 DEF RecoversDead
  <2>2. p # Recovery /\ pc[Recovery] \in RecoveryLabels
    BY <1>5, <1>8, <2>1
  <2>3. Port(Recovery) # k
    BY <1>6, <2>1, <2>2 DEF RecoveryLabels
  <2>4. QED BY <1>4, <2>2, <2>3 DEF RecoversDead
<1>14. CanBeStopped'
  <2> SUFFICES ASSUME NEW s \in Runs, Running(s)', key'[s] \notin Exempt
               PROVE  pfList'[key'[s]] = s
    BY <1>5 DEF CanBeStopped, Exempt
  <2>1. pfList \in [Ports -> Runs \cup {None}] /\ k \in Ports
    BY <1>1 DEF TypeOK, k
  <2>2. CASE s = r
    BY <1>3, <1>4, <2>1, <2>2
  <2>3. CASE s # r
    <3>1. Running(s) /\ key[s] = key'[s]
      BY <1>4, <2>3
    <3>2. key[s] # k
      BY <1>7, <3>1
    <3>3. key[s] \in Ports /\ pfList[key[s]] = s
      BY <3>1 DEF TypeOK, Running, CanBeStopped, Exempt
    <3>4. QED BY <1>3, <2>1, <3>1, <3>2, <3>3
  <2>4. QED BY <2>2, <2>3
<1>15. RecordIsKept'
  <2> SUFFICES ASSUME NEW s \in Runs, Running(s)', key'[s] \notin Exempt
               PROVE  key'[s] \in Records
    BY <1>5 DEF RecordIsKept, Exempt
  <2>1. CASE s = r
    BY <1>4, <1>7, <2>1
  <2>2. CASE s # r
    BY <1>4, <2>2 DEF RecordIsKept, Exempt
  <2>3. QED BY <2>1, <2>2
<1>16. QED BY <1>9, <1>10, <1>11, <1>12, <1>13, <1>14, <1>15

(* A new command, and the recovery. *)
LEMMA OtherLinks ==
  ASSUME LinkInv, \/ \E p \in Commands, k \in Ports : Command(p, k)
                  \/ Restart \/ Scan \/ Recovered \/ \E k \in Ports : RecoverNext(k)
                  \/ UNCHANGED vars
  PROVE  /\ Quiet' /\ Ending' /\ OneOwes' /\ Begins' /\ RecoversDead'
         /\ CanBeStopped' /\ RecordIsKept'
<1> USE DEF LinkInv
<1>1. /\ pc \in [Callers -> Labels] /\ job \in [Callers -> Jobs] /\ Recovery \in Callers
      /\ Commands \subseteq Callers /\ Recovery \notin Commands
  BY PortForwardAssumption DEF TypeOK, Callers
<1>2. CASE Restart
  <2>1. /\ \A r \in Runs : run'[r] = "off"
        /\ \A q \in Callers : pc'[q] \in {"scan", "idle"}
    BY <1>2 DEF Restart
  <2>2. QED
    BY <1>1, <2>1 DEF Quiet, Ending, OneOwes, Begins, RecoversDead, CanBeStopped, RecordIsKept,
       Running, Owes, Over, Started, RecoveryLabels
<1>3. ASSUME UNCHANGED <<db, run, key, cancelled, pfList, owed>>, crossed \subseteq crossed',
             \A q \in Callers : pc'[q] \in Started \cup RecoveryLabels =>
                pc'[q] = "start" \/ (pc'[q] = pc[q] /\ job'[q] = job[q]),
             \/ pc'[Recovery] \notin RecoveryLabels
             \/ pc[Recovery] \in RecoveryLabels /\ job'[Recovery] = job[Recovery]
             \/ Port(Recovery)' \in crossed'
             \/ /\ Port(Recovery)' \in Records
                /\ \A r \in Runs : run[r] # "off" => key[r] # Port(Recovery)'
      PROVE  /\ Quiet' /\ Ending' /\ OneOwes' /\ Begins' /\ RecoversDead'
             /\ CanBeStopped' /\ RecordIsKept'
  <2>1. Exempt \subseteq Exempt' /\ Records' = Records
        /\ \A q \in Callers : job'[q] = job[q] => Port(q)' = Port(q)
    BY <1>3 DEF Exempt, Records, Port
  <2>2. \A s \in Runs : (Running(s)' <=> Running(s)) /\ (Owes(s)' <=> Owes(s))
    BY <1>3 DEF Running, Owes
  <2>3. Ending' /\ OneOwes'
    BY <1>3, <2>1, <2>2 DEF Ending, OneOwes
  <2>4. CanBeStopped' /\ RecordIsKept'
    BY <1>3, <2>1, <2>2 DEF CanBeStopped, RecordIsKept
  <2>5. Quiet' /\ Begins'
    <3>1. \A q \in Callers : pc'[q] \in Started => pc[q] = pc'[q] /\ Port(q)' = Port(q)
      BY <1>3, <2>1 DEF Started
    <3>2. "go" \in Started
      BY DEF Started
    <3>3. Quiet'
      BY <1>3, <2>1, <2>2, <3>1 DEF Quiet
    <3>4. Begins'
      BY <1>3, <2>1, <2>2, <3>1, <3>2 DEF Begins
    <3>5. QED BY <3>3, <3>4
  <2>6. RecoversDead'
    <3> SUFFICES ASSUME pc'[Recovery] \in RecoveryLabels, Port(Recovery)' \notin Exempt'
                 PROVE  /\ Port(Recovery)' \in Records
                        /\ \A r \in Runs : run[r] # "off" => key[r] # Port(Recovery)'
      BY <1>3, <2>1 DEF RecoversDead
    <3>1. Port(Recovery)' \notin crossed'
      BY DEF Exempt
    <3>2. CASE pc[Recovery] \in RecoveryLabels /\ job'[Recovery] = job[Recovery]
      <4>1. Port(Recovery)' = Port(Recovery) /\ Port(Recovery) \notin Exempt
        BY <1>1, <2>1, <3>2
      <4>2. QED BY <3>2, <4>1 DEF RecoversDead
    <3>3. QED BY <1>3, <3>1, <3>2
  <2>7. QED BY <2>3, <2>4, <2>5, <2>6
<1>4. ASSUME NEW p \in Commands, NEW k \in Ports, Command(p, k)
      PROVE  /\ Quiet' /\ Ending' /\ OneOwes' /\ Begins' /\ RecoversDead'
             /\ CanBeStopped' /\ RecordIsKept'
  <2>1. UNCHANGED <<db, run, key, cancelled, pfList, owed>> /\ crossed \subseteq crossed'
    BY <1>4 DEF Command, stored, threads
  <2>2. /\ pc'[p] \in {"start", "stop"}
        /\ \A q \in Callers \ {p} : pc'[q] = pc[q] /\ job'[q] = job[q]
    BY <1>1, <1>4 DEF Command, Goto
  <2>3. \A q \in Callers : pc'[q] \in Started \cup RecoveryLabels =>
          pc'[q] = "start" \/ (pc'[q] = pc[q] /\ job'[q] = job[q])
    BY <2>2 DEF Started, RecoveryLabels
  <2>4. pc'[Recovery] = pc[Recovery] /\ job'[Recovery] = job[Recovery]
    BY <1>1, <2>2
  <2>5. QED BY <1>3, <2>1, <2>3, <2>4
<1>5. CASE Scan \/ Recovered
  <2>1. UNCHANGED <<db, run, key, cancelled, pfList, owed, crossed, job>>
    BY <1>5 DEF Scan, Recovered, stored, threads, history
  <2>2. /\ pc'[Recovery] \in {"recover", "idle"}
        /\ \A q \in Callers \ {Recovery} : pc'[q] = pc[q]
    BY <1>1, <1>5 DEF Scan, Recovered, Goto
  <2>3. pc'[Recovery] \notin Started \cup RecoveryLabels
    BY <2>2 DEF Started, RecoveryLabels
  <2>4. QED BY <1>3, <2>1, <2>2, <2>3
<1>6. ASSUME NEW k \in Ports, RecoverNext(k)
      PROVE  /\ Quiet' /\ Ending' /\ OneOwes' /\ Begins' /\ RecoversDead'
             /\ CanBeStopped' /\ RecordIsKept'
  <2>1. UNCHANGED <<db, run, key, cancelled, pfList, owed>> /\ crossed \subseteq crossed'
    BY <1>6 DEF RecoverNext, stored, threads
  <2>2. /\ pc'[Recovery] = "start" /\ job'[Recovery].key = k
        /\ \A q \in Callers \ {Recovery} : pc'[q] = pc[q] /\ job'[q] = job[q]
    BY <1>1, <1>6 DEF RecoverNext, Goto
  <2>3. k \in crossed' \/ (Alive(k) = {} /\ k \in Records)
    BY <1>6 DEF RecoverNext
  <2>4. Alive(k) = {} => \A r \in Runs : run[r] # "off" => key[r] # k
    BY DEF Alive
  <2>5. Port(Recovery)' = k
    BY <2>2 DEF Port
  <2>6. QED BY <1>3, <2>1, <2>2, <2>3, <2>4, <2>5
<1>7. CASE UNCHANGED vars
  <2>1. UNCHANGED <<db, run, key, cancelled, pfList, owed, crossed, pc, job>>
    BY <1>7 DEF vars, stored, threads, history, control
  <2>2. QED BY <1>3, <2>1
<1>8. QED BY <1>2, <1>4, <1>5, <1>6, <1>7

LEMMA LinkStep == LinkInv /\ [Next]_vars => LinkInv'
<1> SUFFICES ASSUME LinkInv, [Next]_vars PROVE LinkInv'
  OBVIOUS
<1>1. TypeOK' /\ RecoveryOK' /\ Solo'
  BY TypeStep, RecoveryStep, SoloStep DEF LinkInv
<1>2. /\ Quiet' /\ Ending' /\ OneOwes' /\ Begins' /\ RecoversDead'
      /\ CanBeStopped' /\ RecordIsKept'
  BY GoroutineLinks, CallerLinks, GoLinks, OtherLinks DEF Next
<1>3. QED BY <1>1, <1>2 DEF LinkInv

LEMMA LinkAlways == Spec => []LinkInv
BY LinkInit, LinkStep, PTL DEF Spec

(* Every port-forward that runs can be stopped: StartPortForwardGoRoutine  *)
(* never replaces, and StopPortForwardGoRoutine never deletes, the entry   *)
(* of pfList of a goroutine that it has not cancelled, unless two commands *)
(* for the port overlapped, or an older goroutine of it is not over.       *)
THEOREM RunningCanBeStopped == Spec => []CanBeStopped
<1>1. LinkInv => CanBeStopped
  BY DEF LinkInv
<1>2. QED BY <1>1, LinkAlways, PTL

(* Every port-forward that runs has its record in the profile:             *)
(* DeletePortForwardFromDB of another goroutine of the port never deletes  *)
(* it, with the same exceptions.                                           *)
THEOREM RunningIsRecorded == Spec => []RecordIsKept
<1>1. LinkInv => RecordIsKept
  BY DEF LinkInv
<1>2. QED BY <1>1, LinkAlways, PTL

=============================================================================
