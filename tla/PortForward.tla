---------------------------- MODULE PortForward -----------------------------
(***************************************************************************)
(* The port-forwards of one application, kept by the daemon: a goroutine   *)
(* for each, listed in pfList, a record of each in the application's       *)
(* profile, and a file that marks the application as one to recover when   *)
(* the daemon starts again.  Commands come in goroutines of their own.     *)
(*                                                                         *)
(* An update of the profile holds its database, so that it is one step;    *)
(* pfList has no lock, and each of its uses is one.                        *)
(***************************************************************************)
EXTENDS Naturals, Sequences, FiniteSets

CONSTANTS
    Ports,        \* port-forwards, by local and remote port
    None,         \* no port, no goroutine
    Runs,         \* the goroutines that StartPortForwardGoRoutine starts
    Commands,     \* goroutines that handle a command
    Recovery,     \* the goroutine of RecoverAllPortForward
    Budgets       \* bounds: how many commands, errors, timeouts, missing pods and restarts a
                  \* behaviour may have, how many goroutines for commands and the recovery at
                  \* a time when a command comes, for which port-forwards, and whether all
                  \* applications were looked at before

ASSUME PortForwardAssumption ==
    /\ None \notin Ports \cup Runs /\ Recovery \notin Commands
    /\ Budgets \subseteq [cmds : Nat, errors : Nat, timeouts : Nat, nopod : Nat, restarts : Nat,
                          busy : Nat, ports : SUBSET Ports, scanned : BOOLEAN]

VARIABLES
    db,        \* db[k]: the status of each record of port-forward k, in their order
    marker,    \* the file "portforward" of the application
    scanned,   \* all applications were looked at once
    pfList,    \* pfList[k]: the goroutine of k
    run,       \* run[r]: what goroutine r is doing
    key,       \* key[r]: its port-forward
    cancelled, \* goroutines whose context is cancelled
    listening, \* goroutines that hold their local port
    waiting,   \* goroutines whose readyCh is waited for
    dials,     \* goroutines that have left a dial under way
    fired,     \* goroutines with a status LISTEN to write
    stopCh,    \* goroutines with an error in their StopCh
    pc,        \* pc[p]: the next step of command p
    job,       \* job[p]: what p was asked for, and for which port-forward
    todo,      \* todo[k]: the records of k that the recovery has read and not started yet
    silent,    \* history: goroutines whose readyCh was waited for too long
    crossed,   \* history: ports with two commands at a time, or recovered when a command had
               \* already started or stopped them
    owed,      \* history: ports whose record was added when another goroutine still had its
               \* own to delete
    late,      \* history: a start wrote the file, and added its record, around the check and
               \* the removal of the file by a goroutine that ends
    budget     \* what is left of the budget

stored == <<db, marker, scanned>>
threads == <<run, key, cancelled, listening, waiting, dials, fired, stopCh>>
control == <<pc, job, todo>>
history == <<silent, crossed, owed, late>>
vars == <<stored, pfList, threads, control, history, budget>>

Callers == Commands \cup {Recovery}

NoJob == [kind |-> "none", key |-> None]

Jobs == [kind : {"start", "stop", "redo", "recover"}, key : Ports] \cup {NoJob}

Statuses == {"New", "LISTEN", "RECONNECTING", "Socat not found"}

Spend(what) == budget[what] > 0 /\ budget' = [budget EXCEPT ![what] = @ - 1]

Goto(p, l) == pc' = [pc EXCEPT ![p] = l]

At(p, l) == pc[p] = l

Port(p) == job[p].key

(* Goroutines of port-forward k, and those with its record to delete. *)
Alive(k) == {r \in Runs : run[r] # "off" /\ key[r] = k}

Owing(k) == {r \in Alive(k) : run[r] \notin {"recheck", "remove", "write", "report"}}

Busy(k) == {p \in Callers : pc[p] # "idle" /\ Port(p) = k}

Records == {k \in Ports : db[k] # << >>}

-----------------------------------------------------------------------------
(* A command: nhctl port-forward start, nhctl port-forward end, which is   *)
(* sent for a port-forward with a record, and the stop and the start that  *)
(* doPortForward makes to reconnect syncthing.                             *)
Command(p, k) ==
    /\ At(p, "idle") /\ Spend("cmds") /\ k \in budget.ports
    /\ Cardinality({c \in Callers : ~ At(c, "idle")}) < budget.busy
    /\ \E kind \in {"start", "stop", "redo"} :
          /\ kind = "stop" => k \in Records
          /\ job' = [job EXCEPT ![p] = [kind |-> kind, key |-> k]]
          /\ Goto(p, IF kind = "start" THEN "start" ELSE "stop")
    /\ crossed' = IF Busy(k) # {} THEN crossed \cup {k} ELSE crossed
    /\ UNCHANGED <<stored, pfList, threads, todo, silent, owed, late>>

AfterStop(p) == IF job[p].kind = "redo" THEN "pod" ELSE "idle"

(* Mutant: the goroutine is not cancelled. *)
CancelNot(p, next) ==
    /\ pfList[Port(p)] # None
    /\ stopCh' = stopCh \ {pfList[Port(p)]}
    /\ Goto(p, next)
    /\ UNCHANGED <<stored, pfList, run, key, cancelled, listening, waiting, dials, fired, job, todo,
                   history, budget>>

(* StopPortForwardGoRoutine: the goroutine is cancelled, what it may have  *)
(* reported is taken ...                                                   *)
Cancel(p, next) ==
    /\ pfList[Port(p)] # None
    /\ cancelled' = cancelled \cup {pfList[Port(p)]}
    /\ stopCh' = stopCh \ {pfList[Port(p)]}
    /\ Goto(p, next)
    /\ UNCHANGED <<stored, pfList, run, key, listening, waiting, dials, fired, job, todo, history,
                   budget>>

StopRunning(p) == At(p, "stop") /\ Cancel(p, "unlist")

(* ... and whatever is listed for the port-forward by then is deleted. *)
Delist(p, here, next) ==
    /\ At(p, here) /\ Goto(p, next)
    /\ pfList' = [pfList EXCEPT ![Port(p)] = None]
    /\ UNCHANGED <<stored, threads, job, todo, history, budget>>

Unlist(p) == Delist(p, "unlist", AfterStop(p))

Forget(k) == db' = [db EXCEPT ![k] = IF @ = << >> THEN @ ELSE Tail(@)]

(* Without a goroutine the first record is deleted. *)
StopStored(p) ==
    /\ At(p, "stop") /\ pfList[Port(p)] = None
    /\ Forget(Port(p)) /\ Goto(p, AfterStop(p))
    /\ UNCHANGED <<marker, scanned, pfList, threads, job, todo, history, budget>>

(* doPortForward: GetDevModePodName between the stop and the start. *)
RedoPod(p) ==
    /\ At(p, "pod")
    /\ \/ Goto(p, "start") /\ UNCHANGED budget
       \/ Goto(p, "idle") /\ Spend("nopod")
    /\ UNCHANGED <<stored, pfList, threads, job, todo, history>>

(* StartPortForwardGoRoutine: a listed goroutine is stopped first. *)
StopFirst(p) == At(p, "start") /\ Cancel(p, "unlist first")

UnlistFirst(p) == Delist(p, "unlist first", "listen")

StartUnlisted(p) ==
    /\ At(p, "start") /\ pfList[Port(p)] = None /\ Goto(p, "listen")
    /\ UNCHANGED <<stored, pfList, threads, job, todo, history, budget>>

Done(p) == Goto(p, IF p = Recovery THEN "recover" ELSE "idle")

(* The local port must be free; then the file is written. *)
PortUnavailable(p) ==
    /\ At(p, "listen") /\ \E r \in listening : key[r] = Port(p)
    /\ Done(p)
    /\ UNCHANGED <<stored, pfList, threads, job, todo, history, budget>>

PortIsFree(p) ==
    /\ At(p, "listen") /\ \A r \in listening : key[r] # Port(p)
    /\ Goto(p, "mark")
    /\ UNCHANGED <<stored, pfList, threads, job, todo, history, budget>>

(* Mutant: the file is written for a recovered port-forward only. *)
RecordRecovered(p) ==
    /\ At(p, "mark") /\ marker' = (marker \/ job[p].kind = "recover")
    /\ Goto(p, IF job[p].kind = "recover" THEN "get pod" ELSE "check")
    /\ UNCHANGED <<db, scanned, pfList, threads, job, todo, history, budget>>

RecordPortForward(p) ==
    /\ At(p, "mark") /\ marker' = TRUE
    /\ Goto(p, IF job[p].kind = "recover" THEN "get pod" ELSE "check")
    /\ UNCHANGED <<db, scanned, pfList, threads, job, todo, history, budget>>

CheckIfPortForwardExists(p) ==
    /\ At(p, "check")
    /\ IF Port(p) \in Records THEN Done(p) ELSE Goto(p, "get pod")
    /\ UNCHANGED <<stored, pfList, threads, job, todo, history, budget>>

(* howToGetCurrentPod. *)
GetCurrentPod(p) ==
    /\ At(p, "get pod")
    /\ \/ Goto(p, IF job[p].kind = "recover" THEN "go" ELSE "add") /\ UNCHANGED budget
       \/ Done(p) /\ Spend("nopod")
    /\ UNCHANGED <<stored, pfList, threads, job, todo, history>>

(* Mutant: the list becomes this record. *)
AddReplaces(p) ==
    /\ At(p, "add") /\ Goto(p, "go")
    /\ db' = [k \in Ports |-> IF k = Port(p) THEN <<"New">> ELSE << >>]
    /\ owed' = IF Owing(Port(p)) # {} THEN owed \cup {Port(p)} ELSE owed
    /\ late' = (late \/ \E r \in Runs : run[r] = "remove")
    /\ UNCHANGED <<marker, scanned, pfList, threads, job, todo, silent, crossed, budget>>

AddPortForwardToDB(p) ==
    /\ At(p, "add") /\ Goto(p, "go")
    /\ db' = [db EXCEPT ![Port(p)] = Append(@, "New")]
    /\ owed' = IF Owing(Port(p)) # {} THEN owed \cup {Port(p)} ELSE owed
    /\ late' = (late \/ \E r \in Runs : run[r] = "remove")
    /\ UNCHANGED <<marker, scanned, pfList, threads, job, todo, silent, crossed, budget>>

Unused == {r \in Runs : run[r] = "off"} \ (listening \cup waiting \cup dials \cup fired)

(* The goroutine begins, and is listed.  Which of those not in use it is   *)
(* makes no difference.                                                    *)
Go(p) ==
    /\ At(p, "go") /\ Done(p) /\ Unused # {}
    /\ LET r == CHOOSE i \in Unused : TRUE IN
          /\ run' = [run EXCEPT ![r] = "dial"] /\ key' = [key EXCEPT ![r] = Port(p)]
          /\ cancelled' = cancelled \ {r} /\ stopCh' = stopCh \ {r}
          /\ waiting' = waiting \cup {r} /\ silent' = silent \ {r}
          /\ pfList' = [pfList EXCEPT ![Port(p)] = r]
    /\ UNCHANGED <<stored, listening, dials, fired, job, todo, crossed, owed, late, budget>>

-----------------------------------------------------------------------------
(* The goroutine of a port-forward. *)
Become(r, l) == run' = [run EXCEPT ![r] = l]

(* UpdatePortForwardStatus: of the first record, if there is one. *)
UpdateStatus(k, status) ==
    db' = [db EXCEPT ![k] = IF @ = << >> THEN @ ELSE <<status>> \o Tail(@)]

(* The forward listens, and closes readyCh. *)
Ready(r) ==
    /\ run[r] = "dial" /\ \A i \in listening : key[i] # key[r]
    /\ Become(r, "serve") /\ listening' = listening \cup {r}
    /\ fired' = IF r \in waiting THEN fired \cup {r} ELSE fired
    /\ waiting' = waiting \ {r}
    /\ UNCHANGED <<stored, pfList, key, cancelled, dials, stopCh, control, history, budget>>

(* The goroutine that waits for readyCh writes the status, or gives up. *)
WriteListen(r) ==
    /\ r \in fired /\ fired' = fired \ {r}
    /\ UpdateStatus(key[r], "LISTEN")
    /\ UNCHANGED <<marker, scanned, pfList, run, key, cancelled, listening, waiting, dials, stopCh,
                   control, history, budget>>

WaitTimeout(r) ==
    /\ r \in waiting /\ Spend("timeouts")
    /\ waiting' = waiting \ {r} /\ silent' = silent \cup {r}
    /\ UNCHANGED <<stored, pfList, run, key, cancelled, listening, dials, fired, stopCh, control,
                   crossed, owed, late>>

(* A dial that the goroutine has left (it was stopped, or its pod was      *)
(* deleted) goes on: the forward may still listen, close its readyCh if    *)
(* that is open, and only then find that it is stopped.                    *)
LateReady(r) ==
    /\ r \in dials /\ dials' = dials \ {r}
    /\ \A i \in listening : key[i] # key[r]
    /\ listening' = listening \cup {r}
    /\ IF r \in waiting /\ run[r] # "dial"
       THEN fired' = fired \cup {r} /\ waiting' = waiting \ {r}
       ELSE UNCHANGED <<fired, waiting>>
    /\ UNCHANGED <<stored, pfList, run, key, cancelled, stopCh, control, history, budget>>

LateFails(r) ==
    /\ r \in dials /\ dials' = dials \ {r}
    /\ UNCHANGED <<stored, pfList, run, key, cancelled, listening, waiting, fired, stopCh, control,
                   history, budget>>

(* Mutant: readyCh stays open. *)
FailsOpen(r) ==
    /\ run[r] \in {"dial", "serve"} /\ Spend("errors")
    /\ \E next \in {"new pod", "failed", "socat"} : Become(r, next)
    /\ UNCHANGED <<stored, pfList, key, cancelled, listening, waiting, dials, fired, stopCh, control,
                   history>>

(* An error ends the forward, and a port that is taken is one; a deleted   *)
(* pod is one too, whether the dial has ended or not.  readyCh is closed   *)
(* if it was not, so that its waiter goes on as if it were ready.          *)
Fails(r) ==
    /\ \/ /\ run[r] \in {"dial", "serve"} /\ Spend("errors")
          /\ \E next \in {"new pod", "failed", "socat"} :
                /\ Become(r, next)
                /\ \/ UNCHANGED dials
                   \/ run[r] = "dial" /\ next # "socat" /\ dials' = dials \cup {r}
       \/ /\ run[r] = "dial" /\ \E i \in listening : key[i] = key[r]
          /\ Become(r, "failed") /\ UNCHANGED <<dials, budget>>
    /\ fired' = IF r \in waiting THEN fired \cup {r} ELSE fired
    /\ waiting' = waiting \ {r}
    /\ UNCHANGED <<stored, pfList, key, cancelled, listening, stopCh, control, history>>

(* The listener of a forward that has ended is closed some time later. *)
ListenerCloses(r) ==
    /\ r \in listening /\ run[r] # "serve" /\ listening' = listening \ {r}
    /\ UNCHANGED <<stored, pfList, run, key, cancelled, waiting, dials, fired, stopCh, control, history,
                   budget>>

Reconnecting(r) ==
    /\ run[r] = "failed" /\ Become(r, "sleep") /\ UpdateStatus(key[r], "RECONNECTING")
    /\ UNCHANGED <<marker, scanned, pfList, key, cancelled, listening, waiting, dials, fired, stopCh,
                   control, history, budget>>

(* Mutant: readyCh is waited for in the first round only. *)
AgainUnwatched(r) ==
    /\ run[r] \in {"sleep", "new pod"} /\ Become(r, "dial")
    /\ UNCHANGED <<stored, pfList, key, cancelled, listening, waiting, dials, fired, stopCh, control,
                   history, budget>>

(* The next round of the loop; a context that is cancelled is not seen     *)
(* before.                                                                 *)
Again(r) ==
    /\ run[r] \in {"sleep", "new pod"} /\ Become(r, "dial")
    /\ waiting' = waiting \cup {r} /\ silent' = silent \ {r}
    /\ UNCHANGED <<stored, pfList, key, cancelled, listening, dials, fired, stopCh, control, crossed,
                   owed, late, budget>>

(* failed to find socat: the goroutine ends, and its record stays. *)
NoSocat(r) ==
    /\ run[r] = "socat" /\ Become(r, "off")
    /\ UpdateStatus(key[r], "Socat not found")
    /\ pfList' = [pfList EXCEPT ![key[r]] = None]
    /\ UNCHANGED <<marker, scanned, key, cancelled, listening, waiting, dials, fired, stopCh, control,
                   history, budget>>

(* Mutant: a forward that is not ready is stopped as if it had no record. *)
StoppedUnrecorded(r) ==
    /\ r \in cancelled /\ run[r] \in {"dial", "serve"}
    /\ Become(r, IF run[r] = "serve" THEN "forget" ELSE "recheck")
    /\ dials' = IF run[r] = "dial" THEN dials \cup {r} ELSE dials
    /\ UNCHANGED <<stored, pfList, key, cancelled, listening, waiting, fired, stopCh, control, history,
                   budget>>

(* The context is cancelled: stopCh is closed, and nothing else, so that a *)
(* dial under way goes on and readyCh is waited for still.                 *)
Stopped(r) ==
    /\ r \in cancelled /\ run[r] \in {"dial", "serve"} /\ Become(r, "forget")
    /\ dials' = IF run[r] = "dial" THEN dials \cup {r} ELSE dials
    /\ UNCHANGED <<stored, pfList, key, cancelled, listening, waiting, fired, stopCh, control, history,
                   budget>>

DeletePortForwardFromDB(r) ==
    /\ run[r] = "forget" /\ Become(r, "recheck") /\ Forget(key[r])
    /\ UNCHANGED <<marker, scanned, pfList, key, cancelled, listening, waiting, dials, fired, stopCh,
                   control, history, budget>>

(* recordPortForward: the profile is read, then the file written or        *)
(* removed.                                                                *)
IsPortForwarding(r) ==
    /\ run[r] = "recheck" /\ Become(r, IF Records = {} THEN "remove" ELSE "write")
    /\ UNCHANGED <<stored, pfList, key, cancelled, listening, waiting, dials, fired, stopCh, control,
                   history, budget>>

Marked(r) ==
    /\ run[r] \in {"remove", "write"} /\ Become(r, "report") /\ marker' = (run[r] = "write")
    /\ late' = (late \/ (run[r] = "remove" /\ \E p \in Commands : pc[p] \in {"check", "get pod", "add"}))
    /\ UNCHANGED <<db, scanned, pfList, key, cancelled, listening, waiting, dials, fired, stopCh,
                   control, silent, crossed, owed, budget>>

(* The result goes to whichever goroutine is listed for the port-forward. *)
Report(r) ==
    /\ run[r] = "report" /\ Become(r, "off")
    /\ IF pfList[key[r]] = None THEN UNCHANGED stopCh
       ELSE pfList[key[r]] \notin stopCh /\ stopCh' = stopCh \cup {pfList[key[r]]}
    /\ UNCHANGED <<stored, pfList, key, cancelled, listening, waiting, dials, fired, control, history,
                   budget>>

-----------------------------------------------------------------------------
(* The daemon starts again: its goroutines are gone, what it stored stays. *)
Restart ==
    /\ Spend("restarts")
    /\ pfList' = [k \in Ports |-> None] /\ run' = [r \in Runs |-> "off"]
    /\ cancelled' = {} /\ listening' = {} /\ waiting' = {} /\ dials' = {} /\ fired' = {}
    /\ stopCh' = {}
    /\ pc' = [p \in Callers |-> IF p = Recovery THEN "scan" ELSE "idle"]
    /\ UNCHANGED <<stored, key, job, todo, history>>

(* RecoverAllPortForward: only an application with the file is read, after *)
(* all of them were looked at once.                                        *)
Scan ==
    /\ At(Recovery, "scan")
    /\ LET found == (marker \/ ~ scanned) /\ Records # {}
       IN  /\ todo' = [k \in Ports |-> IF found THEN Len(db[k]) ELSE 0]
           /\ Goto(Recovery, IF found THEN "recover" ELSE "idle")
           /\ scanned' = (scanned \/ ~ found)
    /\ UNCHANGED <<db, marker, pfList, threads, job, history, budget>>

(* RecoverPortForwardForApplication: one start after the other, and        *)
(* recordPortForward at the end.                                           *)
RecoverNext(k) ==
    /\ At(Recovery, "recover") /\ todo[k] > 0 /\ todo' = [todo EXCEPT ![k] = @ - 1]
    /\ job' = [job EXCEPT ![Recovery] = [kind |-> "recover", key |-> k]]
    /\ Goto(Recovery, "start")
    /\ crossed' = IF Busy(k) \ {Recovery} # {} \/ Alive(k) # {} \/ k \notin Records
                  THEN crossed \cup {k} ELSE crossed
    /\ UNCHANGED <<stored, pfList, threads, silent, owed, late, budget>>

Recovered ==
    /\ At(Recovery, "recover") /\ \A k \in Ports : todo[k] = 0
    /\ marker' = TRUE /\ scanned' = TRUE /\ Goto(Recovery, "idle")
    /\ UNCHANGED <<db, pfList, threads, job, todo, history, budget>>

-----------------------------------------------------------------------------
(* A daemon that starts for the first time, or has looked at all           *)
(* applications by now.                                                    *)
Init ==
    /\ budget \in Budgets
    /\ db = [k \in Ports |-> << >>] /\ marker = FALSE /\ scanned = budget.scanned
    /\ pfList = [k \in Ports |-> None]
    /\ run = [r \in Runs |-> "off"] /\ key = [r \in Runs |-> None]
    /\ cancelled = {} /\ listening = {} /\ waiting = {} /\ dials = {} /\ fired = {} /\ stopCh = {}
    /\ pc = [p \in Callers |-> IF p = Recovery /\ ~ scanned THEN "scan" ELSE "idle"]
    /\ job = [p \in Callers |-> NoJob] /\ todo = [k \in Ports |-> 0]
    /\ silent = {} /\ crossed = {} /\ owed = {} /\ late = FALSE

Stop(p) == StopRunning(p) \/ Unlist(p) \/ StopStored(p)

Start(p) ==
    \/ RedoPod(p) \/ StopFirst(p) \/ UnlistFirst(p) \/ StartUnlisted(p) \/ PortUnavailable(p)
    \/ PortIsFree(p) \/ RecordPortForward(p) \/ CheckIfPortForwardExists(p) \/ GetCurrentPod(p)
    \/ AddPortForwardToDB(p) \/ Go(p)

Forward(r) ==
    \/ Ready(r) \/ Fails(r) \/ Reconnecting(r) \/ Again(r) \/ NoSocat(r) \/ Stopped(r)
    \/ DeletePortForwardFromDB(r) \/ IsPortForwarding(r) \/ Marked(r) \/ Report(r)

(* The waiter for readyCh, a dial that was left and the listener. *)
Beside(r) ==
    \/ WriteListen(r) \/ WaitTimeout(r) \/ LateReady(r) \/ LateFails(r) \/ ListenerCloses(r)

Next ==
    \/ \E p \in Commands, k \in Ports : Command(p, k)
    \/ \E p \in Callers : Stop(p) \/ Start(p)
    \/ \E r \in Runs : Forward(r) \/ Beside(r)
    \/ Restart \/ Scan \/ Recovered \/ \E k \in Ports : RecoverNext(k)

Spec == Init /\ [][Next]_vars

(* Go's scheduler runs every goroutine that can go on, and a sleep ends.   *)
(* A select takes each of its ready cases at last, since it chooses at     *)
(* random.  No error is bound to happen, and no forward to be ready.       *)
FairSpec ==
    /\ Spec
    /\ \A p \in Callers : WF_vars(Stop(p) \/ Start(p))
    /\ \A r \in Runs :
          /\ WF_vars(\/ Reconnecting(r) \/ Again(r) \/ NoSocat(r) \/ DeletePortForwardFromDB(r)
                     \/ IsPortForwarding(r) \/ Marked(r) \/ Report(r))
          /\ SF_vars(Stopped(r)) /\ WF_vars(WriteListen(r))
    /\ WF_vars(Scan \/ Recovered \/ \E k \in Ports : RecoverNext(k))

-----------------------------------------------------------------------------
Labels ==
    {"idle", "stop", "unlist", "pod", "start", "unlist first", "listen", "mark", "check",
     "get pod", "add", "go", "scan", "recover"}

States ==
    {"off", "dial", "serve", "new pod", "failed", "socat", "sleep", "forget", "recheck", "remove",
     "write", "report"}

(* Types.  A goroutine has a port-forward as long as anything of it runs,  *)
(* and nobody waits for a forward that is ready or has failed.             *)
TypeOK ==
    /\ db \in [Ports -> Seq(Statuses)] /\ marker \in BOOLEAN /\ scanned \in BOOLEAN
    /\ pfList \in [Ports -> Runs \cup {None}]
    /\ run \in [Runs -> States] /\ key \in [Runs -> Ports \cup {None}]
    /\ \A r \in Runs :
          run[r] # "off" \/ r \in listening \cup waiting \cup dials \cup fired => key[r] \in Ports
    /\ UNION {cancelled, listening, waiting, dials, fired, stopCh} \subseteq Runs
    /\ \A r \in waiting : run[r] \notin {"serve", "new pod", "failed", "socat", "sleep"}
    /\ pc \in [Callers -> Labels] /\ job \in [Callers -> Jobs]
    /\ \A p \in Callers : pc[p] \notin {"idle", "scan", "recover"} => job[p] # NoJob
    /\ todo \in [Ports -> Nat] /\ silent \subseteq Runs /\ UNION {crossed, owed} \subseteq Ports
    /\ late \in BOOLEAN

(* A goroutine that nobody has cancelled. *)
Running(r) == run[r] # "off" /\ r \notin cancelled

(* Every running port-forward can be stopped: it is the one that pfList    *)
(* has for its port, unless two commands for the port overlapped, a        *)
(* command was ahead of the recovery, or an older goroutine of the port    *)
(* was not over when its record was replaced: if it fails to find socat    *)
(* then, it deletes whatever is listed.                                    *)
CanBeStopped ==
    \A r \in Runs : Running(r) => pfList[key[r]] = r \/ key[r] \in crossed \cup owed

(* Every running port-forward has its record (which nhctl port-forward end *)
(* and the recovery need): the clean-up of an older goroutine of the port  *)
(* has not deleted it, with the same exceptions, and unless that goroutine *)
(* had still to delete its own when the new record was added.              *)
RecordIsKept == \A r \in Runs : Running(r) => key[r] \in Records \cup crossed \cup owed

(* What is recorded is recovered: the file that RecoverAllPortForward      *)
(* looks for is there while there is a record, unless a goroutine that     *)
(* ends removed it after a start had written it.                           *)
Recoverable == Records # {} => marker \/ late

(* A port-forward that serves is shown as LISTEN at last, after every      *)
(* reconnect, even if a failure and the goroutines that wait for the       *)
(* readyCh of an earlier round write their statuses meanwhile: unless it   *)
(* became ready after its own readyCh was waited for too long, or shares   *)
(* its record with another goroutine of the port.                          *)
ServedIsShown ==
    \A r \in Runs :
        run[r] = "serve" ~>
            \/ run[r] # "serve"
            \/ r \in silent
            \/ key[r] \in crossed \cup owed
            \/ key[r] \in Records /\ db[key[r]][1] = "LISTEN"

(* A goroutine that is cancelled ends, even if it slept before a reconnect *)
(* when it was cancelled, and the record of its port-forward is deleted at *)
(* last, if it had not been: the port is seen without a record, unless     *)
(* commands for it overlapped, or the goroutine ends for want of socat.    *)
(* A daemon that restarts meanwhile is excepted.                           *)
StopForgets ==
    \A r \in Runs :
        /\ r \in cancelled /\ run[r] # "off" ~> r \notin cancelled \/ run[r] \in {"off", "report"}
        /\ r \in cancelled \cap Owing(key[r]) ~>
              \/ r \notin cancelled
              \/ key[r] \notin Records \/ key[r] \in crossed
              \/ db[key[r]][1] = "Socat not found"
=============================================================================
