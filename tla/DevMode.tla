------------------------------ MODULE DevMode -------------------------------
(***************************************************************************)
(* The life of one workload (a Deployment or a StatefulSet) in and out of  *)
(* dev mode: what dev start, dev end and debug reset do to the workload    *)
(* itself, to the duplicates made of it, to its HPA and to its dev marks.  *)
(* Every call of the API server is a step of its own; between two steps    *)
(* other nhctl processes take theirs, or the process is killed.            *)
(*                                                                         *)
(* AppMeta models the secret that holds the marks.  Here it is reduced to  *)
(* what its Update() comes to: the marks of the process, as it loaded and  *)
(* edited them, replace those of the secret.                               *)
(***************************************************************************)
EXTENDS Naturals

CONSTANTS
    Users,        \* the identifiers of the developers' devices
    Shared,       \* names the replace dev mode, which all users share
    NoUser,       \* nobody holds the mark
    Clients,      \* nhctl processes
    Owner,        \* Owner[c]: the user whose device runs c
    MaxCommands,  \* bound: commands that may be run
    MaxFaults,    \* bound: calls of the API server that may fail
    MaxKills      \* bound: processes that may be killed

ASSUME DevModeAssumption ==
    /\ Shared \notin Users /\ NoUser \notin Users /\ NoUser # Shared
    /\ Owner \in [Clients -> Users]
    /\ MaxCommands \in Nat /\ MaxFaults \in Nat /\ MaxKills \in Nat

VARIABLES
    workload,  \* its spec and the definition its annotation records, or Gone
    dups,      \* dups[u]: how many duplicates labelled with u exist
    hpa,       \* the replica limit of its HPA and the one its annotation records
    marks,     \* the dev marks in the secret
    past,      \* all that the secret has held: a daemon's cache may lag behind it
    pc,        \* pc[c]: the next step of c
    cmd,       \* cmd[c]: the command c runs
    mode,      \* mode[c]: the dev mode it is about, its DevModeType
    meta,      \* meta[c]: the marks as c has loaded and edited them
    copy,      \* copy[c]: the spec that c has read from the cluster
    causes,    \* history: what may have kept the workload from its user's definition
    cmds, faults, kills

cluster == <<workload, dups, hpa>>
secret == <<marks, past>>
history == <<causes, cmds, faults, kills>>
vars == <<cluster, secret, pc, cmd, mode, meta, copy, history>>

Modes == Users \cup {Shared}

(* A spec is the user's own, or scaled to one replica, or carries the dev  *)
(* container and its sidecar.                                              *)
Specs == {"own", "scaled", "dev"}

None == "none"

Gone == [spec |-> None, saved |-> None]

Plain == [spec |-> "own", saved |-> None]

Limits == {"own", "one"}

Free == [k \in Modes |-> NoUser]

Developing(m, k) == m.started[k] # NoUser \/ m.starting[k] # NoUser

(* Mutant: without dev mode there is no mode. *)
CurrentModeOrNone(m, u) ==
    IF Developing(m, u) THEN u ELSE IF Developing(m, Shared) THEN Shared ELSE NoUser

CurrentMode(m, u) == IF Developing(m, u) THEN u ELSE Shared

IsProcessor(m, u) == m.started[u] = u \/ m.started[Shared] = u

Marked(m, k, u) == [m EXCEPT !.starting[k] = u]

Completed(m, k, u) == [m EXCEPT !.started[k] = u, !.starting[k] = NoUser]

(* Mutant: the starting mark is not deleted. *)
UnmarkedStarted(m, k) == [m EXCEPT !.started[k] = NoUser]

Unmarked(m, k) == [m EXCEPT !.starting[k] = NoUser, !.started[k] = NoUser]

Duplicate(c) == mode[c] # Shared

-----------------------------------------------------------------------------
Labels ==
    {"idle", "mark", "profile", "hpa", "read", "annotate", "scale", "patch", "create",
     "complete", "rollback", "delete", "apply", "devEnd", "undo", "recover"}

At(c, l) == pc[c] = l

AtRest == \A c \in Clients : At(c, "idle")

Goto(c, l) == pc' = [pc EXCEPT ![c] = l]

(* "lag": a command loaded old marks; "overlap": two commands ran at once; *)
(* "unrolled": a step failed that was to take the dev mode back, or the    *)
(* last one of a start; "unrecovered": a dev mode ended and nothing was to *)
(* give the HPA its limit back.                                            *)
Causes == {"lag", "overlap", "unrolled", "unrecovered"}

Note(why) == causes' = causes \cup why /\ UNCHANGED <<cmds, faults, kills>>

Fault(why) ==
    /\ faults < MaxFaults /\ faults' = faults + 1
    /\ causes' = causes \cup why
    /\ UNCHANGED <<cmds, kills>>

(* A call that fails may have been lost on its way to the server or on the *)
(* way back: what it was to do is done or not.  (Where success and failure *)
(* go on alike, only the failure that does nothing is spelled out.)        *)

(* Update() as c calls it with marks m: the secret takes them, or the call *)
(* fails.  The copy in memory has changed in any case.                     *)
Update(c, m, onOk, onError, why) ==
    /\ meta' = [meta EXCEPT ![c] = m]
    /\ \/ marks' = m /\ Goto(c, onOk) /\ UNCHANGED history
       \/ Fault(why) /\ Goto(c, onError) /\ marks' \in {marks, m}
    /\ past' = past \cup {marks'}
    /\ UNCHANGED <<cluster, cmd, mode, copy>>

(* A call on the workload: it takes the value w, or the call fails.  There *)
(* is nothing to call when the workload is gone.                           *)
Call(c, w, onOk, onError, why) ==
    /\ \/ workload # Gone /\ workload' = w /\ Goto(c, onOk) /\ UNCHANGED history
       \/ workload = Gone /\ Goto(c, onError) /\ UNCHANGED <<workload, history>>
       \/ /\ Fault(why) /\ Goto(c, onError)
          /\ workload' \in {workload, IF workload = Gone THEN Gone ELSE w}
    /\ UNCHANGED <<dups, hpa, secret, cmd, mode, meta, copy>>

(* A command gets the marks m from the daemon of its user, the newest or   *)
(* older ones, and makes sure that the workload exists.                    *)
Command(c, name, m, k, l) ==
    /\ At(c, "idle") /\ workload # Gone
    /\ cmds < MaxCommands /\ cmds' = cmds + 1
    /\ cmd' = [cmd EXCEPT ![c] = name]
    /\ mode' = [mode EXCEPT ![c] = k]
    /\ meta' = [meta EXCEPT ![c] = m]
    /\ causes' = causes \cup (IF m = marks THEN {} ELSE {"lag"})
                        \cup (IF AtRest THEN {} ELSE {"overlap"})
    /\ Goto(c, l)
    /\ UNCHANGED <<cluster, secret, copy, faults, kills>>

-----------------------------------------------------------------------------
(* nhctl dev start *)

(* No mesh header is given: nobody joins a workload in replace dev mode,   *)
(* and who develops it already only re-enters it.                          *)
StartDevMode(c, m) ==
    /\ ~IsProcessor(m, Owner[c])
    /\ ~Developing(m, Shared)
    /\ \E k \in {Owner[c], Shared} : Command(c, "start", m, k, "mark")

SvcDevStarting(c) ==
    /\ At(c, "mark")
    /\ IF Developing(meta[c], mode[c])
         THEN Goto(c, "idle") /\ UNCHANGED <<cluster, secret, cmd, mode, meta, copy, history>>
         ELSE Update(c, Marked(meta[c], mode[c], Owner[c]), "profile", "idle", {})

(* The profile is a local database; when it cannot be written the process  *)
(* exits at once.                                                          *)
UpdateSvcProfile(c) ==
    /\ At(c, "profile")
    /\ Goto(c, "hpa") \/ Goto(c, "idle")
    /\ UNCHANGED <<cluster, secret, cmd, mode, meta, copy, history>>

(* Nothing recovers what the start of a duplicate does to the HPA. *)
HPADisabled(c) == Note(IF Duplicate(c) THEN {"unrecovered"} ELSE {})

(* Mutant: the limit is recorded after it was set. *)
DisableHPAFirst(c) ==
    /\ At(c, "hpa") /\ Goto(c, "read")
    /\ workload # Gone
    /\ hpa' = [limit |-> "one", saved |-> "one"] /\ HPADisabled(c)
    /\ UNCHANGED <<workload, dups, secret, cmd, mode, meta, copy>>

(* The limit is recorded in an annotation and set to one; a failure is     *)
(* only logged.                                                            *)
DisableHPA(c) ==
    /\ At(c, "hpa") /\ Goto(c, "read")
    /\ \/ workload # Gone /\ hpa' = [limit |-> "one", saved |-> hpa.limit] /\ HPADisabled(c)
       \/ workload = Gone /\ UNCHANGED <<hpa, history>>
       \/ Fault({}) /\ UNCHANGED hpa
    /\ UNCHANGED <<workload, dups, secret, cmd, mode, meta, copy>>

(* Mutant: the sidecar is not looked for. *)
ReadWorkloadUnchecked(c) ==
    /\ At(c, "read") /\ workload # Gone
    /\ copy' = [copy EXCEPT ![c] = workload.spec]
    /\ Goto(c, IF Duplicate(c) THEN "create" ELSE "annotate")
    /\ UNCHANGED <<cluster, secret, cmd, mode, meta, history>>

(* ReplaceImage: both modes start from the workload as it is. *)
ReadWorkload(c) ==
    /\ At(c, "read") /\ workload # Gone
    /\ Duplicate(c) \/ workload.spec # "dev"
    /\ copy' = [copy EXCEPT ![c] = workload.spec]
    /\ Goto(c, IF Duplicate(c) THEN "create" ELSE "annotate")
    /\ UNCHANGED <<cluster, secret, cmd, mode, meta, history>>

(* It cannot be read, or has the sidecar already and must be reset first. *)
ReadWorkloadFails(c) ==
    /\ At(c, "read") /\ Goto(c, "rollback")
    /\ \/ workload = Gone /\ UNCHANGED history
       \/ ~Duplicate(c) /\ workload.spec = "dev" /\ UNCHANGED history
       \/ Fault({})
    /\ UNCHANGED <<cluster, secret, cmd, mode, meta, copy>>

RecordOriginal(c) ==
    /\ At(c, "annotate")
    /\ Call(c, [workload EXCEPT !.saved = copy[c]], "scale", "rollback", {})

ScalePatches(c) ==
    /\ At(c, "scale")
    /\ Call(c, [workload EXCEPT !.spec = IF @ = "dev" THEN @ ELSE "scaled"], "patch", "rollback", {})

(* The strategy, the pod spec and the pod annotations are patched. *)
PatchDevContainer(c) ==
    /\ At(c, "patch")
    /\ Call(c, [workload EXCEPT !.spec = "dev"], "complete", "rollback", {})

(* Mutant: only the marks are rolled back. *)
GenContainersFailsUnreset(c) ==
    /\ pc[c] \in {"patch", "create"}
    /\ Goto(c, "undo")
    /\ UNCHANGED <<cluster, secret, cmd, mode, meta, copy, history>>

(* The dev container cannot be generated: no image, or no volume for it. *)
GenContainersFails(c) ==
    /\ pc[c] \in {"patch", "create"}
    /\ Goto(c, "rollback")
    /\ UNCHANGED <<cluster, secret, cmd, mode, meta, copy, history>>

(* Every duplicate gets a new name.  A patch may fail after it is created. *)
CreateDuplicate(c) ==
    /\ At(c, "create")
    /\ \/ dups' = [dups EXCEPT ![Owner[c]] = @ + 1] /\ Goto(c, "complete") /\ UNCHANGED history
       \/ /\ Fault({}) /\ Goto(c, "rollback")
          /\ UNCHANGED dups \/ dups' = [dups EXCEPT ![Owner[c]] = @ + 1]
    /\ UNCHANGED <<workload, hpa, secret, cmd, mode, meta, copy>>

SvcDevStartComplete(c) ==
    /\ At(c, "complete")
    /\ IF meta[c].started[mode[c]] # NoUser
         THEN Goto(c, "undo") /\ UNCHANGED <<cluster, secret, cmd, mode, meta, copy, history>>
         ELSE Update(c, Completed(meta[c], mode[c], Owner[c]), "idle", "undo", {"unrolled"})

-----------------------------------------------------------------------------
(* DevEnd: of a start that failed, of nhctl dev end and of debug reset. *)

(* dev end asks for a dev mode to end, and must stop the file sync first;  *)
(* debug reset asks for nothing.                                           *)
EndDevMode(c, m) ==
    /\ Developing(m, Owner[c]) \/ Developing(m, Shared)
    /\ \E l \in {"rollback", "idle"} : Command(c, "end", m, CurrentMode(m, Owner[c]), l)

DevReset(c, m) == Command(c, "reset", m, CurrentMode(m, Owner[c]), "rollback")

(* Mutant: the duplicate stays. *)
DuplicateModeKept(c) ==
    /\ At(c, "rollback") /\ Duplicate(c)
    /\ Goto(c, "devEnd")
    /\ UNCHANGED <<cluster, secret, cmd, mode, meta, copy, history>>

(* The one duplicate of the user is deleted; none or several are an error. *)
DuplicateModeRollBack(c) ==
    /\ At(c, "rollback") /\ Duplicate(c)
    /\ Goto(c, "devEnd")
    /\ \/ dups[Owner[c]] = 1 /\ dups' = [dups EXCEPT ![Owner[c]] = 0] /\ UNCHANGED history
       \/ dups[Owner[c]] # 1 /\ UNCHANGED <<dups, history>>
       \/ Fault({"unrolled"}) /\ UNCHANGED dups
    /\ UNCHANGED <<workload, hpa, secret, cmd, mode, meta, copy>>

(* RollbackFromAnnotation reads the recorded definition, ... *)
ReadOriginal(c) ==
    LET why == IF cmd[c] = "end" THEN {} ELSE {"unrecovered"}
    IN  /\ At(c, "rollback") /\ ~Duplicate(c)
        /\ \/ /\ workload.saved # None
              /\ copy' = [copy EXCEPT ![c] = workload.saved]
              /\ Goto(c, "delete") /\ Note(why)
           \/ workload.saved = None /\ Goto(c, "devEnd") /\ Note(why) /\ UNCHANGED copy
           \/ Fault(why \cup {"unrolled"}) /\ Goto(c, "devEnd") /\ UNCHANGED copy
        /\ UNCHANGED <<cluster, secret, cmd, mode, meta>>

(* Mutant: a workload that is not found counts as deleted. *)
DeleteWorkloadIfFound(c) == At(c, "delete") /\ Call(c, Gone, "apply", "apply", {"unrolled"})

(* ... deletes the workload ... *)
DeleteWorkload(c) == At(c, "delete") /\ Call(c, Gone, "apply", "devEnd", {"unrolled"})

(* ... and creates it again, without the record. *)
ApplyOriginal(c) ==
    /\ At(c, "apply") /\ Goto(c, "devEnd")
    /\ \/ workload' = [spec |-> copy[c], saved |-> None] /\ UNCHANGED history
       \/ Fault({"unrolled"}) /\ UNCHANGED workload
    /\ UNCHANGED <<dups, hpa, secret, cmd, mode, meta, copy>>

(* The marks go even if the rollback failed. *)
SvcDevEnd(c) ==
    LET next == CASE cmd[c] = "start" -> "undo"
                  [] cmd[c] = "end" /\ ~Duplicate(c) -> "recover"
                  [] OTHER -> "idle"
    IN  At(c, "devEnd") /\ Update(c, Unmarked(meta[c], mode[c]), next, next, {})

(* The deferred function of enterDevMode: the marks of a failed start. *)
RollBackDevStart(c) ==
    At(c, "undo") /\ Update(c, Unmarked(meta[c], mode[c]), "idle", "idle", {})

(* dev end of a replace mode gives the HPA the limit its annotation holds. *)
RecoverHPA(c) ==
    /\ At(c, "recover") /\ workload # Gone /\ hpa.saved # None
    /\ hpa' = [hpa EXCEPT !.limit = hpa.saved]
    /\ Goto(c, "idle")
    /\ UNCHANGED <<workload, dups, secret, cmd, mode, meta, copy, history>>

(* There is no HPA to be found, none with annotations, or the call fails. *)
RecoverHPASkipped(c) ==
    /\ At(c, "recover")
    /\ IF workload # Gone /\ hpa.saved # None THEN Fault({"unrecovered"}) ELSE UNCHANGED history
    /\ Goto(c, "idle")
    /\ UNCHANGED <<cluster, secret, cmd, mode, meta, copy>>

-----------------------------------------------------------------------------
Killed(c) ==
    /\ ~At(c, "idle") /\ Goto(c, "idle")
    /\ kills < MaxKills /\ kills' = kills + 1
    /\ causes' = causes \cup (IF At(c, "recover") THEN {"unrecovered"} ELSE {})
    /\ UNCHANGED <<cluster, secret, cmd, mode, meta, copy, cmds, faults>>

(* All commands of the bounded run are over, or none can start any more. *)
Finished ==
    /\ AtRest
    /\ cmds = MaxCommands \/ workload = Gone
    /\ UNCHANGED vars

Init ==
    /\ workload = Plain
    /\ dups = [u \in Users |-> 0]
    /\ hpa = [limit |-> "own", saved |-> None]
    /\ marks = [starting |-> Free, started |-> Free]
    /\ past = {marks}
    /\ pc = [c \in Clients |-> "idle"]
    /\ cmd = [c \in Clients |-> None] /\ copy = cmd
    /\ mode = [c \in Clients |-> Shared]
    /\ meta = [c \in Clients |-> marks]
    /\ causes = {} /\ cmds = 0 /\ faults = 0 /\ kills = 0

Begins(c) == \E m \in past : StartDevMode(c, m) \/ EndDevMode(c, m) \/ DevReset(c, m)

StartStep(c) ==
    \/ SvcDevStarting(c) \/ UpdateSvcProfile(c) \/ DisableHPA(c)
    \/ ReadWorkload(c) \/ ReadWorkloadFails(c) \/ RecordOriginal(c) \/ ScalePatches(c)
    \/ PatchDevContainer(c) \/ GenContainersFails(c) \/ CreateDuplicate(c)
    \/ SvcDevStartComplete(c)

EndStep(c) ==
    \/ DuplicateModeRollBack(c) \/ ReadOriginal(c)
    \/ DeleteWorkload(c) \/ ApplyOriginal(c) \/ SvcDevEnd(c) \/ RollBackDevStart(c)
    \/ RecoverHPA(c) \/ RecoverHPASkipped(c)

Next == (\E c \in Clients : Begins(c) \/ StartStep(c) \/ EndStep(c) \/ Killed(c)) \/ Finished

Spec == Init /\ [][Next]_vars

-----------------------------------------------------------------------------
Manifests == [spec : Specs \cup {None}, saved : Specs \cup {None}]

MarkSets == [starting : [Modes -> Users \cup {NoUser}], started : [Modes -> Users \cup {NoUser}]]

(* Types. *)
TypeOK ==
    /\ workload \in Manifests
    /\ dups \in [Users -> Nat]
    /\ hpa \in [limit : Limits, saved : Limits \cup {None}]
    /\ marks \in past /\ past \subseteq MarkSets
    /\ pc \in [Clients -> Labels]
    /\ cmd \in [Clients -> {"start", "end", "reset", None}]
    /\ mode \in [Clients -> Modes]
    /\ meta \in [Clients -> MarkSets]
    /\ copy \in [Clients -> Specs \cup {None}]
    /\ causes \subseteq Causes
    /\ cmds \in 0..MaxCommands /\ faults \in 0..MaxFaults /\ kills \in 0..MaxKills

(* The recorded definition never carries the dev container itself, so that *)
(* a rollback never ends where it began: PatchDevModeManifest refuses a    *)
(* workload with the sidecar before it records it, and what it records is  *)
(* what it has checked, whatever other processes patch in between.         *)
SavedIsNotDev == workload.saved # "dev"

(* While one rollback is between its delete and its apply the workload is  *)
(* gone, and no other rollback is there: the second delete finds nothing.  *)
OneRecreates ==
    \A c \in Clients : At(c, "apply") =>
        workload = Gone /\ \A d \in Clients : At(d, "apply") => d = c

(* Commands came one after the other, each on the newest marks, and every  *)
(* call that was to take a dev mode back was answered.                     *)
InOrder == causes \cap {"lag", "overlap", "unrolled"} = {}

(* A workload without marks is not in dev mode: nothing else tells anyone  *)
(* that it must be rolled back.  Commands one after the other keep that    *)
(* up even when they are killed at any step and when calls fail, but for   *)
(* those of the rollback, whose failure DevEnd only logs, and the last     *)
(* update of a start, after which only the marks are taken back.           *)
UnmarkedIsPlain ==
    AtRest /\ InOrder =>
        /\ ~Developing(marks, Shared) => workload = Plain
        /\ \A u \in Users : ~Developing(marks, u) => dups[u] = 0

Recoverable == workload # Gone /\ "own" \in {workload.spec, workload.saved}

(* The user's own definition of the workload leaves the cluster only with  *)
(* the delete of a rollback: no start ever records anything else over it,  *)
(* however many commands were killed or failed before, under the same      *)
(* conditions.                                                             *)
OriginalSurvives ==
    [][InOrder' /\ Recoverable /\ ~Recoverable' =>
         \E c \in Clients : At(c, "delete") /\ workload' = Gone]_vars

(* When the replace dev mode of a workload is over its HPA has its owner's *)
(* limits back, whatever was killed or failed on the way, as long as every *)
(* replace dev mode is ended by a dev end that gets to the recovery: debug *)
(* reset, a failed start and duplicates never recover them.                *)
HPAIsRecovered ==
    AtRest /\ causes = {} /\ ~Developing(marks, Shared) => hpa.limit = "own"

(* A dev start that gives up after it has marked leaves no mark: "prevent  *)
(* dev status modified but not actually enter dev mode".  Two ways out     *)
(* leave it: the local profile that cannot be written, before that         *)
(* rollback is deferred, and a rollback whose own Update() fails.          *)
FailedStartLeavesNoMark ==
    [][\A c \in Clients :
         (/\ cmd[c] = "start" /\ pc[c] \notin {"idle", "mark", "profile"} /\ pc'[c] = "idle"
          /\ kills' = kills /\ faults' = faults)
         => marks'.starting[mode[c]] # Owner[c]]_vars

-----------------------------------------------------------------------------
(* The inductive invariants behind these properties. *)

(* Any interleaving, any failure: what is about to be recorded, or to be   *)
(* applied, is not a dev spec.                                             *)
IInv ==
    /\ TypeOK
    /\ SavedIsNotDev
    /\ \A c \in Clients : pc[c] \in {"annotate", "delete", "apply"} => copy[c] # "dev"
    /\ OneRecreates

(* One command at a time. *)
Alone == \A c, d \in Clients : At(c, "idle") \/ At(d, "idle") \/ c = d

(* Where a process stands tells what its command has done so far.          *)
(* Whether its last Update() was taken it does not know.                   *)
Progress(c) ==
    LET k == mode[c]
        u == Owner[c]
    IN  /\ pc[c] \notin {"undo", "recover"} => meta[c] = marks
        /\ pc[c] = "undo" => Unmarked(meta[c], k) = Unmarked(marks, k)
        /\ k \in {u, Shared}
        /\ pc[c] \in {"mark", "profile", "hpa", "read", "annotate", "scale", "patch", "create"} =>
              IF k = Shared
                THEN workload = [spec |-> IF pc[c] = "patch" THEN "scaled" ELSE "own",
                                 saved |-> IF pc[c] \in {"scale", "patch"} THEN "own" ELSE None]
                ELSE pc[c] # "mark" => dups[u] = 0
        /\ pc[c] \in {"profile", "hpa", "read", "annotate", "scale", "patch", "create", "complete"} =>
              marks.starting[k] # NoUser /\ marks.started[k] = NoUser
        /\ pc[c] = "annotate" => copy[c] = "own"
        /\ pc[c] \in {"annotate", "scale", "patch", "delete", "apply"} => k = Shared
        /\ pc[c] = "create" => k # Shared
        /\ pc[c] \in {"delete", "apply"} => copy[c] = "own"
        /\ pc[c] = "delete" => workload.saved = "own"
        /\ (workload = Gone) <=> (pc[c] = "apply")
        /\ pc[c] \in {"devEnd", "undo", "recover"} =>
              IF k = Shared THEN workload = Plain ELSE dups[u] = 0

(* The states of a workload that only commands one after the other touch. *)
Tidy ==
    /\ workload \in {Plain, Gone} \cup [spec : Specs, saved : {"own"}]
    /\ ~Developing(marks, Shared) => workload = Plain
    /\ \A u \in Users :
          /\ dups[u] \in {0, 1}
          /\ ~Developing(marks, u) => dups[u] = 0

Orderly == Alone /\ Tidy /\ \A c \in Clients : ~At(c, "idle") => Progress(c)

OrderlyInv == TypeOK /\ (InOrder => Orderly)

(* The owner's limits are in the HPA or recorded beside it, and somebody   *)
(* will recover them.                                                      *)
LimitKept ==
    /\ hpa.saved # "one"
    /\ hpa.limit = "one" =>
          hpa.saved = "own" /\ (Developing(marks, Shared) \/ \E c \in Clients : At(c, "recover"))
    /\ \A c \in Clients : mode[c] = Shared =>
          /\ pc[c] \in {"mark", "profile", "hpa"} => hpa.limit = "own"
          /\ pc[c] \in {"delete", "apply", "devEnd"} => cmd[c] = "end"
          /\ pc[c] # "undo"

LimitInv == causes = {} => LimitKept
=============================================================================
