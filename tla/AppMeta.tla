------------------------------ MODULE AppMeta -------------------------------
(***************************************************************************)
(* The metadata of one application: the secret that nocalhost uses as its  *)
(* database (appmeta/application_meta.go), and the nhctl processes that    *)
(* load a copy of it from their daemon, edit the copy and write it back    *)
(* (dev start, dev end, debug reset, install, uninstall, and all that only *)
(* save an id, a configuration or a manifest).                             *)
(*                                                                         *)
(* The API server numbers the versions of the secret and refuses an update *)
(* that does not name the newest one.  Update() answers a refusal by       *)
(* fetching the newest secret and writing its own fields over it again.    *)
(***************************************************************************)
EXTENDS Naturals, Sequences

CONSTANTS
    Svcs, Users, Shared, NoUser,  \* see DevMarks
    Clients,      \* nhctl processes
    Owner,        \* Owner[c]: the user whose device runs c
    MaxAttempts,  \* attempts of one Update(): 5, the steps of retry.DefaultRetry
    InitialLogs,  \* what the cluster may hold at first: no secret, or one version
    MaxCommands,  \* bound: commands that may be run
    MaxSaves,     \* bound: updates of other fields than state and marks
    MaxFaults     \* bound: calls of the API server that may fail

VARIABLES
    log,      \* the versions of the secret, oldest first; << >>: no secret yet
    pc,       \* pc[c]: where c is in its command
    key,      \* key[c]: the dev-mode key its command is about
    meta,     \* meta[c]: the fields of its ApplicationMeta
    base,     \* base[c]: the version its a.Secret names
    src,      \* src[c]: the version its fields were last in step with
    tries,    \* tries[c]: failed attempts of the Update() under way
    clean,    \* history: the versions up to this one were written on fresh copies
    cmds,     \* commands run so far
    saves,    \* updates of other fields so far
    faults    \* calls that failed so far

client == <<pc, key, meta, base, src, tries>>
bounds == <<cmds, saves, faults>>
vars == <<log, client, clean, bounds>>

Keys == Svcs \X (Users \cup {Shared})

NoKey == << >>

NoMarks == [k \in Keys |-> NoUser]

Absent == [state |-> "UNINSTALLED", starting |-> NoMarks, started |-> NoMarks]

Installed == [Absent EXCEPT !.state = "INSTALLED"]

ASSUME AppMetaAssumption ==
    /\ Shared \notin Users /\ NoUser \notin Users /\ NoUser # Shared
    /\ Owner \in [Clients -> Users]
    /\ MaxAttempts \in Nat \ {0}
    /\ MaxCommands \in Nat /\ MaxSaves \in Nat /\ MaxFaults \in Nat
    /\ InitialLogs \subseteq {<< >>, <<Installed>>}

View(v) == IF v = 0 THEN Absent ELSE log[v]

Current == View(Len(log))

(* The register the marks of the newest version are meant to implement, ... *)
DM == INSTANCE DevMarks WITH starting <- Current.starting,
                             started <- Current.started

(* ... and the one they implement as long as nobody writes a stale copy. *)
Register == INSTANCE DevMarks WITH starting <- View(clean).starting,
                                   started <- View(clean).started

-----------------------------------------------------------------------------
(* The fields of an ApplicationMeta that the commands tell apart. *)

States == {"UNINSTALLED", "INSTALLING", "INSTALLED"}

Marks == [Keys -> Users \cup {NoUser}]

Version == [state : States, starting : Marks, started : Marks]

(* CheckIfSvcDeveloping: STARTED or STARTING rather than NONE. *)
Developing(m, k) == m.started[k] # NoUser \/ m.starting[k] # NoUser

ReplaceKey(s) == <<s, Shared>>

DuplicateKey(s, u) == <<s, u>>

(* GetCurrentDevModeTypeOfWorkload: one's own duplicate first; with no dev *)
(* mode at all the type is NoneDevMode, which devModeName reads as replace.*)
CurrentKey(m, s, u) ==
    IF Developing(m, DuplicateKey(s, u)) THEN DuplicateKey(s, u) ELSE ReplaceKey(s)

IsInDevMode(m, s, u) ==
    Developing(m, DuplicateKey(s, u)) \/ Developing(m, ReplaceKey(s))

(* SvcDevModePossessor in either mode. *)
IsProcessor(m, s, u) ==
    m.started[DuplicateKey(s, u)] = u \/ m.started[ReplaceKey(s)] = u

WithStarting(m, k, u) == [m EXCEPT !.starting[k] = u]

(* Mutant: the starting mark is not deleted. *)
WithStartedAndStarting(m, k, u) == [m EXCEPT !.started[k] = u]

WithStarted(m, k, u) == [m EXCEPT !.started[k] = u, !.starting[k] = NoUser]

WithoutDev(m, k) == [m EXCEPT !.starting[k] = NoUser, !.started[k] = NoUser]

(* Mutant: Delete forgets the dev marks. *)
DeletedWithMarks(m) == [m EXCEPT !.state = "UNINSTALLED"]

(* Delete: the state and the dev marks; the other fields are not modelled. *)
Deleted(m) == [m EXCEPT !.state = "UNINSTALLED", !.starting = NoMarks, !.started = NoMarks]

-----------------------------------------------------------------------------
(* Where a command stands.  The first set names the Update() it is in.     *)

Updating ==
    {"save", "reload", "starting", "complete", "devend", "rollback", "end",
     "delete", "init", "config", "manifest", "installed", "undo", "undoAgain"}

Between ==
    {"idle", "app", "loaded", "marking", "working", "abort",
     "initial", "create", "building", "installing", "applied", "broken"}

(* Where the command goes on when its Update() returns nil; "idle": the    *)
(* process is done.                                                        *)
OnOk(l) ==
    CASE l = "save" -> "app"
      [] l = "reload" -> "marking"
      [] l = "starting" -> "working"
      [] l = "devend" -> "rollback"
      [] l = "init" -> "building"
      [] l = "config" -> "installing"
      [] l = "manifest" -> "applied"
      [] OTHER -> "idle"

(* Mutant: a failed SvcDevStarting is only logged. *)
OnErrorGoOn(l) == IF l = "starting" THEN "working" ELSE "idle"

(* And when it returns an error.  After a failed "reload" the next source  *)
(* of the configuration is tried.                                          *)
OnError(l) ==
    CASE l = "reload" -> "loaded"
      [] l = "complete" -> "abort"
      [] l = "devend" -> "rollback"
      [] l \in {"manifest", "installed"} -> "broken"
      [] l = "undo" -> "undoAgain"
      [] OTHER -> "idle"

Goto(c, l) == pc' = [pc EXCEPT ![c] = l]

(* A command starts by getting the meta from the daemon of its user, which *)
(* may serve an old version v; m is that meta as the command edits it.     *)
Command(c, v, m, l) ==
    /\ pc[c] = "idle" /\ cmds < MaxCommands
    /\ cmds' = cmds + 1
    /\ meta' = [meta EXCEPT ![c] = m]
    /\ base' = [base EXCEPT ![c] = v]
    /\ src' = [src EXCEPT ![c] = v]
    /\ Goto(c, l)
    /\ UNCHANGED <<log, tries, clean, saves, faults>>

Fault == faults < MaxFaults /\ faults' = faults + 1

(* An edit of the fields in memory, followed by the Update() named l. *)
Edit(c, m, l) ==
    /\ meta' = [meta EXCEPT ![c] = m]
    /\ Goto(c, l)
    /\ UNCHANGED <<log, key, base, src, tries, clean, bounds>>

-----------------------------------------------------------------------------
(* Update() *)

(* The attempt names the newest version: all fields of c become a version. *)
Write(c) ==
    /\ pc[c] \in Updating
    /\ base[c] = Len(log) /\ base[c] > 0
    /\ log' = Append(log, meta[c])
    /\ src' = [src EXCEPT ![c] = Len(log) + 1]
    /\ clean' = IF clean = Len(log) /\ src[c] = Len(log) THEN Len(log) + 1 ELSE clean

(* Mutant: one attempt too many. *)
RetryOneMore(c) ==
    /\ base' = [base EXCEPT ![c] = Len(log')]
    /\ IF tries[c] + 1 <= MaxAttempts
         THEN tries' = [tries EXCEPT ![c] = @ + 1] /\ UNCHANGED pc
         ELSE tries' = [tries EXCEPT ![c] = 0] /\ Goto(c, OnError(pc[c]))
    /\ UNCHANGED <<key, meta, cmds, saves>>

(* The attempt failed: the fields stay as they are, only a.Secret is       *)
(* replaced by the newest secret.                                          *)
Retry(c) ==
    /\ base' = [base EXCEPT ![c] = Len(log')]
    /\ IF tries[c] + 1 < MaxAttempts
         THEN tries' = [tries EXCEPT ![c] = @ + 1] /\ UNCHANGED pc
         ELSE tries' = [tries EXCEPT ![c] = 0] /\ Goto(c, OnError(pc[c]))
    /\ UNCHANGED <<key, meta, cmds, saves>>

UpdateAccepted(c) ==
    /\ Write(c)
    /\ base' = [base EXCEPT ![c] = Len(log) + 1]
    /\ tries' = [tries EXCEPT ![c] = 0]
    /\ Goto(c, OnOk(pc[c]))
    /\ UNCHANGED <<key, meta, bounds>>

(* The server took the update and the answer was lost. *)
UpdateLost(c) == Write(c) /\ Fault /\ Retry(c)

(* A conflict, or an error before the server took the update. *)
UpdateRefused(c) ==
    /\ pc[c] \in Updating
    /\ UNCHANGED <<log, src, clean>>
    /\ IF base[c] # Len(log) THEN UNCHANGED faults ELSE Fault
    /\ Retry(c)

-----------------------------------------------------------------------------
(* newApplication: what every command on an installed application begins   *)
(* with, upgrade and the commands that change a configuration too.         *)
NewApplication(c, v) ==
    /\ View(v).state # "UNINSTALLED"
    /\ Command(c, v, View(v), "app")
    /\ UNCHANGED key

(* An id of the namespace or a migrated configuration is saved, or what    *)
(* upgrade and the configuration commands change: fields that nothing here *)
(* tells apart.                                                            *)
SaveFields(c) ==
    /\ pc[c] = "app" /\ saves < MaxSaves
    /\ saves' = saves + 1
    /\ Goto(c, "save")
    /\ UNCHANGED <<log, key, meta, base, src, tries, clean, cmds, faults>>

(* The command itself, with the meta it has and the key k it is about. *)
Begin(c, k, m, l) ==
    /\ pc[c] = "app"
    /\ key' = [key EXCEPT ![c] = k]
    /\ meta' = [meta EXCEPT ![c] = m]
    /\ Goto(c, l)
    /\ UNCHANGED <<log, base, src, tries, clean, bounds>>

-----------------------------------------------------------------------------
(* nhctl dev start *)

(* k is the key of the requested mode; header: a mesh header was given.    *)
(* Who already develops the workload only re-enters it, and without a      *)
(* header nobody joins a workload in replace dev mode.                     *)
StartDevMode(c, s, header) ==
    LET u == Owner[c]
        m == meta[c]
    IN  /\ m.state = "INSTALLED"
        /\ ~IsProcessor(m, s, u)
        /\ header \/ ~Developing(m, ReplaceKey(s))
        /\ \E k \in {ReplaceKey(s), DuplicateKey(s, u)} : Begin(c, k, m, "loaded")

(* A configuration found in an annotation or a config map is saved. *)
ReloadSvcCfg(c) == pc[c] = "loaded" /\ Edit(c, meta[c], "reload")

(* Mutants: a mark that is there already does not stop the start, or only  *)
(* a starting mark does.                                                   *)
SvcDevStartingAnyway(c) ==
    /\ pc[c] \in {"loaded", "marking"}
    /\ Edit(c, WithStarting(meta[c], key[c], Owner[c]), "starting")

SvcDevStartingOverStarted(c) ==
    /\ pc[c] \in {"loaded", "marking"}
    /\ meta[c].starting[key[c]] = NoUser
    /\ Edit(c, WithStarting(meta[c], key[c], Owner[c]), "starting")

SvcDevStarting(c) ==
    /\ pc[c] \in {"loaded", "marking"}
    /\ IF Developing(meta[c], key[c])
         THEN Edit(c, meta[c], "idle")                          \* ErrAlreadyDev
         ELSE Edit(c, WithStarting(meta[c], key[c], Owner[c]), "starting")

(* ReplaceImage succeeded. *)
SvcDevStartComplete(c) ==
    /\ pc[c] = "working"
    /\ IF meta[c].started[key[c]] # NoUser
         THEN Edit(c, meta[c], "abort")                         \* ErrAlreadyDev
         ELSE Edit(c, WithStarted(meta[c], key[c], Owner[c]), "complete")

(* ReplaceImage failed: DevEnd(true), then the deferred rollback. *)
ReplaceImageFails(c) ==
    /\ pc[c] = "working"
    /\ Edit(c, WithoutDev(meta[c], key[c]), "devend")

(* The deferred rollback after SvcDevStartComplete failed. *)
RollBackDevStart(c) ==
    /\ pc[c] = "abort"
    /\ Edit(c, WithoutDev(meta[c], key[c]), "rollback")

(* nhctl dev end wants a dev mode to end; nhctl debug reset asks for none. *)
DevEnd(c, s) ==
    LET k == CurrentKey(meta[c], s, Owner[c])
    IN  Begin(c, k, WithoutDev(meta[c], k), "end")

EndDevMode(c, s) == IsInDevMode(meta[c], s, Owner[c]) /\ DevEnd(c, s)

DevReset(c, s) == DevEnd(c, s)

-----------------------------------------------------------------------------
(* nhctl install and uninstall *)

(* Both take the meta from the daemon without newApplication. *)
Uninstall(c, v) ==
    /\ View(v).state # "UNINSTALLED"
    /\ Command(c, v, Deleted(View(v)), "delete")
    /\ UNCHANGED key

BuildApplication(c, v) ==
    /\ View(v).state = "UNINSTALLED"
    /\ Command(c, v, View(v), "initial")
    /\ UNCHANGED key

(* Initial(force): what there is becomes INSTALLING, whatever its state. *)
Initial(c) ==
    /\ pc[c] = "initial"
    /\ IF log = << >>
         THEN Goto(c, "create") /\ UNCHANGED <<meta, base, src>>
         ELSE /\ meta' = [meta EXCEPT ![c] = [Current EXCEPT !.state = "INSTALLING"]]
              /\ base' = [base EXCEPT ![c] = Len(log)]
              /\ src' = [src EXCEPT ![c] = Len(log)]
              /\ Goto(c, "init")
    /\ UNCHANGED <<log, key, tries, clean, bounds>>

CreateSecret(c) ==
    /\ pc[c] = "create"
    /\ IF log = << >>
         THEN /\ log' = <<[Absent EXCEPT !.state = "INSTALLING"]>>
              /\ meta' = [meta EXCEPT ![c] = [Absent EXCEPT !.state = "INSTALLING"]]
              /\ base' = [base EXCEPT ![c] = 1]
              /\ src' = [src EXCEPT ![c] = 1]
              /\ clean' = 1
              /\ Goto(c, "building")
         ELSE Goto(c, "idle") /\ UNCHANGED <<log, meta, base, src, clean>>  \* AlreadyExists
    /\ UNCHANGED <<key, tries, bounds>>

SaveConfig(c) == pc[c] = "building" /\ Edit(c, meta[c], "config")

SaveManifest(c) == pc[c] = "installing" /\ Edit(c, meta[c], "manifest")

InstallSucceeds(c) ==
    /\ pc[c] \in {"installing", "applied"}
    /\ Edit(c, [meta[c] EXCEPT !.state = "INSTALLED"], "installed")

(* A failed install is rolled back with Uninstall(true), once more if that *)
(* fails.                                                                  *)
InstallFails(c) ==
    /\ pc[c] \in {"installing", "applied", "broken"}
    /\ Edit(c, Deleted(meta[c]), "undo")

-----------------------------------------------------------------------------
(* The process is killed, or exits on an error between two calls. *)
Exit(c) ==
    /\ pc[c] # "idle"
    /\ Goto(c, "idle")
    /\ tries' = [tries EXCEPT ![c] = 0]
    /\ UNCHANGED <<log, key, meta, base, src, clean, bounds>>

(* All commands of the bounded run are over. *)
Finished ==
    /\ cmds = MaxCommands /\ \A c \in Clients : pc[c] = "idle"
    /\ UNCHANGED vars

Init ==
    /\ log \in InitialLogs
    /\ pc = [c \in Clients |-> "idle"]
    /\ key = [c \in Clients |-> NoKey]
    /\ meta = [c \in Clients |-> Absent]
    /\ base = [c \in Clients |-> 0] /\ src = base /\ tries = base
    /\ clean = Len(log)
    /\ cmds = 0 /\ saves = 0 /\ faults = 0

UpdateStep(c) == UpdateAccepted(c) \/ UpdateLost(c) \/ UpdateRefused(c)

DevStep(c) ==
    \/ \E v \in 0..Len(log) : NewApplication(c, v)
    \/ \E s \in Svcs :
          \/ EndDevMode(c, s) \/ DevReset(c, s)
          \/ \E header \in BOOLEAN : StartDevMode(c, s, header)
    \/ SaveFields(c) \/ ReloadSvcCfg(c) \/ SvcDevStarting(c) \/ SvcDevStartComplete(c)
    \/ ReplaceImageFails(c) \/ RollBackDevStart(c)

InstallStep(c) ==
    \/ \E v \in 0..Len(log) : Uninstall(c, v) \/ BuildApplication(c, v)
    \/ Initial(c) \/ CreateSecret(c) \/ SaveConfig(c) \/ SaveManifest(c)
    \/ InstallSucceeds(c) \/ InstallFails(c)

Next ==
    \/ \E c \in Clients : UpdateStep(c) \/ DevStep(c) \/ InstallStep(c) \/ Exit(c)
    \/ Finished

Spec == Init /\ [][Next]_vars

(* c overwrites versions its fields never took in: the write of a process  *)
(* whose first attempt was refused because its copy was stale.             *)
Blind(c) == log' # log /\ src'[c] = Len(log') /\ src[c] # Len(log)

-----------------------------------------------------------------------------
(* Types. *)
TypeOK ==
    /\ log \in Seq(Version)
    /\ pc \in [Clients -> Updating \cup Between]
    /\ key \in [Clients -> Keys \cup {NoKey}]
    /\ meta \in [Clients -> Version]
    /\ base \in [Clients -> 0..Len(log)]
    /\ src \in [Clients -> 0..Len(log)]
    /\ clean \in 0..Len(log)
    /\ tries \in [Clients -> 0..(MaxAttempts - 1)]
    /\ cmds \in 0..MaxCommands /\ saves \in 0..MaxSaves /\ faults \in 0..MaxFaults

(* In every version of the secret a dev-mode key is starting or started,   *)
(* never both, and the key of a duplicate is held by the user it is named  *)
(* after: SvcDevStarting, SvcDevStartComplete and SvcDevEnd keep that up   *)
(* even when an Update() overwrites the marks of another process.          *)
MarksCoherent ==
    \A v \in 1..Len(log) : \A k \in Keys :
        /\ log[v].starting[k] = NoUser \/ log[v].started[k] = NoUser
        /\ log[v].starting[k] \in DM!MayHold(k) \cup {NoUser}
        /\ log[v].started[k] \in DM!MayHold(k) \cup {NoUser}

(* An application that is not installed has no workload in dev mode, in    *)
(* any version: Delete() cleans the marks, and no command marks a workload *)
(* of an application it has not loaded as INSTALLED.                       *)
UninstalledHasNoMarks ==
    \A v \in 1..Len(log) :
        log[v].state = "UNINSTALLED" =>
            log[v].starting = NoMarks /\ log[v].started = NoMarks

(* enterDevMode touches the workload only after a version of the secret    *)
(* carries its starting mark: must(SvcDevStarting) ends the process when   *)
(* all attempts of the update fail.                                        *)
MarkedBeforePatch ==
    \A c \in Clients :
        pc[c] = "working" =>
            src[c] > 0 /\ log[src[c]].starting[key[c]] = Owner[c]

(* Whatever the interleaving, a write that is not blind acts on the newest *)
(* marks as one operation of the register.                                 *)
CleanWriteIsAtomic ==
    [][(\A c \in Clients : ~Blind(c)) => [DM!Next]_(DM!vars)]_vars

(* Until the first blind write the secret implements the register of       *)
(* marks: whatever the commands, lost answers, refusals and crashes, its   *)
(* versions are those of SvcDevStarting, SvcDevStartComplete, SvcDevEnd    *)
(* and Delete done one at a time.                                          *)
ImplementsDevMarks == Register!Spec

(* A key changes hands only by way of nobody: SvcDevStarting answers       *)
(* ErrAlreadyDev, "Svc already in dev mode".                               *)
HandOver == DM!HandOver

(* Initial() makes an existing secret INSTALLING only "if the secret state *)
(* is UNINSTALL" and must "otherwise return an error because other process *)
(* may done this".                                                         *)
InitialOverUninstalled ==
    [][\A c \in Clients :
         pc[c] = "initial" /\ pc'[c] = "init" => Current.state = "UNINSTALLED"]_vars

-----------------------------------------------------------------------------
(* The inductive invariant behind MarksCoherent, UninstalledHasNoMarks,    *)
(* MarkedBeforePatch, CleanWriteIsAtomic and ImplementsDevMarks.           *)

(* The marks of a copy or a version by themselves. *)
Coherent(m) ==
    \A k \in Keys :
        /\ m.starting[k] = NoUser \/ m.started[k] = NoUser
        /\ m.starting[k] \in DM!MayHold(k) \cup {NoUser}
        /\ m.started[k] \in DM!MayHold(k) \cup {NoUser}

CleanIfUninstalled(m) ==
    m.state = "UNINSTALLED" => m.starting = NoMarks /\ m.started = NoMarks

Sound(m) == Coherent(m) /\ CleanIfUninstalled(m)

SameMarks(m, n) == m.starting = n.starting /\ m.started = n.started

(* How the fields of c differ from the version they were last in step      *)
(* with: by the operation under way, unless a lost write has recorded it.  *)
InStep(c) ==
    LET m == meta[c]
        n == View(src[c])
        k == key[c]
        u == Owner[c]
    IN  /\ pc[c] \in {"loaded", "reload", "marking", "starting", "working", "complete",
                      "abort", "devend", "rollback", "end"} => k \in Keys
        /\ pc[c] \in {"loaded", "reload", "marking", "starting", "working", "complete"} =>
              u \in DM!MayHold(k) /\ m.state = "INSTALLED"
        /\ pc[c] \in {"app", "save", "loaded", "reload", "marking", "working", "init", "building",
                      "config", "installing", "manifest", "applied", "installed", "broken"} =>
              SameMarks(m, n)
        /\ pc[c] = "starting" =>
              \/ SameMarks(m, n)
              \/ ~Developing(n, k) /\ SameMarks(m, WithStarting(n, k, u))
        /\ pc[c] = "starting" => m.starting[k] = u
        /\ pc[c] = "working" => m.starting[k] = u /\ src[c] > 0
        /\ pc[c] = "complete" =>
              \/ SameMarks(m, n)
              \/ n.starting[k] = u /\ n.started[k] = NoUser /\ SameMarks(m, WithStarted(n, k, u))
        /\ pc[c] = "abort" => SameMarks(WithoutDev(m, k), WithoutDev(n, k))
        /\ pc[c] \in {"devend", "rollback", "end"} =>
              SameMarks(m, n) \/ SameMarks(m, WithoutDev(n, k))
        /\ pc[c] \in {"delete", "undo", "undoAgain"} =>
              m.starting = NoMarks /\ m.started = NoMarks

(* Every version and every copy is sound by itself, and every process is   *)
(* in step with the version it last read or wrote.                         *)
IInv ==
    /\ TypeOK
    /\ \A v \in 1..Len(log) : Sound(log[v])
    /\ \A c \in Clients : Sound(meta[c]) /\ InStep(c)
=============================================================================
