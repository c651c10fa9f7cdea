# Verification of nocalhost

Nocalhost lets a team develop the services of an application inside a shared
Kubernetes namespace. `nhctl` is the command line tool that every developer runs
(by hand or from an IDE plugin), together with a background daemon on the same
device. There is no server of its own behind the dev modes: what developers share
is kept in the cluster, in one secret per application, in the annotations of the
workloads and in a config map per namespace, and every `nhctl` process reads it,
edits a copy and writes it back. `nocalhost-api` is the server that hands out the
namespaces (dev spaces) and the rights on them; it too keeps who shares what in the
cluster, in role bindings.

This directory holds TLA+ models of that shared state and of the commands that
change it, TLC runs on small instances, and TLAPS proofs for all instances.
Paths below are relative to the repository (`src/`).

## Inventory

| Part | State | Operations | Hard part | Correct when |
|---|---|---|---|---|
| application meta, `internal/nhctl/appmeta` | one secret per application: state, dev marks (`DevMeta`), manifests, configuration | `Initial`, `SvcDevStarting`, `SvcDevStartComplete`, `SvcDevEnd`, `Delete`, and the saves of other fields, all ending in `Update()` | optimistic locking with a retry, stale copies, lost answers | marks are coherent, nobody's mark is overwritten, an uninstalled application has none |
| install / uninstall, `internal/nhctl/app`, `internal/nhctl/common` | the secret, the resources of the application | `BuildApplication`, `Install`, `Uninstall`, rollback of a failed install | two installs at once, failure at any step | an install starts only over what is not installed |
| dev start / dev end / debug reset, `cmd/nhctl/cmds/dev`, `internal/nhctl/controller` | the workload, its annotations, duplicates, its HPA | record, scale, patch, complete; rollback: delete and apply | a dozen API calls without a transaction; kills; other users' commands in between | the recorded definition is the user's own; without marks there is no dev mode; the HPA gets its limits back |
| daemon cache, `internal/nhctl/appmeta_manager` | per namespace and kubeconfig a map of metas, watchers, an event queue | `join`, `left`, manual update, auto-initial from annotations and helm releases | two sources of updates, no version check | the cache converges, each dev start/end gives one event |
| port-forwards, `internal/nhctl/daemon_server` | map of running forwards, a record per port in a local database, a marker file per application | start, stop, reconnect, recover | goroutines that clean up after they were replaced; a map without a lock | a running forward can be stopped and recovered; its record is its own |
| directory mapping, `internal/nhctl/dev_dir` | table service -> local directory under up to four keys, kubeconfigs, default services | associate, unassociate, look up | keys of earlier versions; fallbacks | a service is found where it was associated last |
| VPN daemons, `internal/nhctl/daemon_handler` | the listing of the device in the config maps, `connectInfo`, a channel of functions; in the sudo daemon the connection, its tunnels and cancel functions | connect, reconnect, disconnect, watch, follow | two processes, unlocked clean-up, captured state, restarts, maps that come and go | the connection follows the listing |
| VPN leases and traffic manager, `internal/nhctl/vpn` | addresses in the config map, reference count on a pod | rent, release, count up and down, clean up | read-modify-write without a version; a text format that is not always read back | no address used twice; the pod lives while somebody uses it and not longer |
| dev spaces, `internal/nocalhost-api`, `pkg/nocalhost-api` | records of a database, namespaces, three role bindings per space, caches | create, share, unshare, delete, re-create | requests that interleave call by call, failures in the middle, caches behind the cluster | one role per user; a deleted space leaves nothing |
| resource cache, syncthing, envsubst, configuration validation, mesh control plane, dependency webhook, UI, the other API services | informers, external processes, text, requests | | mostly sequential or external | not modelled, see the end |

How they interact: a command asks the **daemon** of its device for the application
meta (`nocalhost.GetApplicationMeta`), which may be older than the secret; it edits
that meta and calls `Update()`, which writes the **secret** through the API server
and pushes the result to the daemon. `enterDevMode` brackets all changes of the
**workload** with two such updates (`SvcDevStarting`, `SvcDevStartComplete`), and
`DevEnd` takes the marks away after the rollback. Uninstall and install change the
same secret. Nothing but the secret's resource version orders the processes.
`nhctl dev start` also associates the **directory** of the service, and asks the
daemon for **port-forwards**. A **VPN** command writes the listing of the device
into the config map and calls the sudo daemon; the watcher of the map in the user
daemon sees the listing and calls it again. The sudo daemons of all devices of a
namespace meet in the config map's leases and in the traffic manager's count.

The hazards found in the code, each at its line and with the properties that watch
it, are listed in `PROJECT.json`.

## Modules

| Module | Models |
|---|---|
| `DevMarks` | what the dev marks promise: an atomic register per dev-mode key |
| `AppMeta` | the secret, `Update()` with its retries, and the commands as far as they change the secret |
| `MCAppMeta` | small instances of it |
| `AppMetaProofs` | its theorems |
| `DevMode` | one workload, its duplicates, its HPA and its marks through dev start, dev end and debug reset |
| `MCDevMode` | small instances of it |
| `DevModeProofs` | its theorems |
| `MetaWatcher` | the daemon's cache of one application's secret, its events and the daemon's own writes |
| `MCMetaWatcher` | small instances of it |
| `MetaWatcherProofs` | its theorems |
| `VpnDaemon`, `MCVpnDaemon`, `VpnDaemonProofs` | the user daemon and the sudo daemon of one device: config maps, watchers, the function channel, the connection and its tunnels |
| `VpnMap`, `MCVpnMap`, `VpnMapProofs` | the address leases and the reference count that several devices share |
| `PortForward`, `MCPortForward`, `PortForwardProofs` | the port-forwards of the daemon: commands, goroutines, records, recovery |
| `DevSpace`, `MCDevSpace`, `DevSpaceProofs` | dev spaces of nocalhost-api, their namespaces and role bindings, under concurrent requests |
| `DevDir`, `MCDevDir`, `DevDirProofs` | the table of local directories |

### DevMarks

A workload is developed under a *key*, the name that `devModeName` makes: its own
name for the replace mode that all users share, or name, mode and user for one
user's duplicate. A key is free, starting or started. `Start`, `Complete`, `End` and
`Clear` are what `SvcDevStarting`, `SvcDevStartComplete`, `SvcDevEnd` and `Delete`
would be if each were one step on the newest marks. `HandOver` is the point of it:
a key passes to another user only by way of nobody.

### AppMeta

`log` is the sequence of versions of the secret; the API server accepts an update
only if it names the last one. A process `c` has the fields of its
`ApplicationMeta` (`meta[c]`), the version its `a.Secret` names (`base[c]`) and, as
a history variable, the version those fields were last in step with (`src[c]`).
Of the fields, the state and the two kinds of marks are kept; manifests, hooks and
configuration are written by the same updates and nothing here tells them apart.

`pc[c]` says which `Update()` the command is in. An attempt is accepted
(`UpdateAccepted`), accepted with its answer lost (`UpdateLost`) or refused
(`UpdateRefused`: a conflict, or a call that failed before). After a failure
`Retry` replaces `base[c]` by the newest version and leaves `meta[c]` as it is:
that is the line of `Update()` that all of this is about. `OnOk` and `OnError` say
where each command goes on. `Exit` ends a process anywhere: a kill, or an error
between two updates (`must`, `log.Fatal`, a failing helm or git call).

A command starts from any version (`v \in 0..Len(log)`), because the daemon's cache
may lag. Whatever works on an installed application begins with `NewApplication`,
which may save other fields of the secret before the command itself (`SaveFields`: the
nid, a migrated configuration); `nhctl upgrade` and the commands that edit a
configuration or a profile are such saves and nothing else. The several updates that
one install makes of fields not kept here (dependencies, helm name, manifests, hooks)
are one.

`Blind(c)` is a write over a version the process has not taken in, and `clean` the last
version up to which no write was blind. `Register` reads the marks of that version, so
that `ImplementsDevMarks` is a statement about `Spec` itself: with all its conflicts,
lost answers and kills the secret is the atomic register until the first blind write.

### DevMode

Every call of the API server is one step. A workload is its `spec` (the user's
own, scaled to one replica, or with the dev container) and the definition its
annotation records (`saved`). `marks` is the secret reduced to what `AppMeta` shows
an `Update()` to be: the marks as the process loaded and edited them replace what
is there. `hpa` is the limit of the HPA and the one its annotation records, `dups`
the number of duplicates labelled with each user. Each call may fail with or
without effect, within the bound `MaxFaults`, and each process may be killed,
within `MaxKills`.

A command loads its marks from the daemon's cache, which may lag: any marks the secret
has ever had (`past`). Commands interleave freely. What the record-and-rollback
protocol is not written for is noted as it happens, in `causes`: a command that began on
old marks ("lag") or beside another one ("overlap"), a step of a rollback or the last
one of a start that failed ("unrolled"), a dev mode that ended with nobody to recover the
HPA ("unrecovered"). A property may except some of these and holds until they occur;
kills and all other failures are never excepted. The extra save of `newApplication` is
in `AppMeta` only.

Abstractions: Deployments and StatefulSets only (no generated deployments), no mesh
header, one HPA, `HPA` minimum and maximum as one limit. The `DevModeCount`
annotation is left out: nothing reads it. The wait for the dev pod changes no
shared state. The strategy, pod spec and pod annotation patches are one step whose
failure may leave the pod spec patched.

### MetaWatcher

`log` is again the secret, with the commands of all processes reduced to `Write`.
The cache entry (`cache`) is fed from three sides: the list of `Prepare` when a
namespace is first asked for, the informer with its store, work queue and one worker
(`ListWatch`, `Take`, `Process`), and the pushes with which the `nhctl` processes of
the device announce what they wrote (`UpdateManually`). `Join` is `join` and `left`:
the entry is replaced, whatever its version, and `Events` of the difference are
queued. The event loop pops them (`Consume`); `told` is what the events popped so far
say about who develops. The queue is kept per name: events of different names never
meet in a listener's decision, and their order is that of a Go map anyway.

`GetMeta`, `OneTimesInitial`, `Delete` and `WriteOwn` are the daemon taking over or
dropping an application that helm or annotations manage. `own.shared` says that the
object it works on is still the one in the cache: `GetApplicationMeta` returns the
pointer, so the edits show in the cache at once. Two history variables name the cases
in which the cache may stay wrong: `edited` (an edit in place) and `late` (the cache
holds a version that the watch has left behind, see `Settles`).

Abstractions: one application and one kubeconfig; a push that is lost is one that
never arrives; the state INSTALLING, in which the daemon leaves an application alone,
is left out; decoding errors are left out; the edit in place is one step although it
is not under the watcher's lock.

### VpnDaemon

One device, several namespaces. `cm[n]` is the config map of a namespace reduced to
its uid and whether it lists this device; `pend`, `store` and `hUid` are the watcher:
versions not handled yet, the one handled last, the uid its handler noted. The handlers
`OnAdd`, `OnUpdate` (also called by the resync every five seconds) and `OnDelete`
change `info` (`connectInfo`) and put functions on `chan` (`funcChan`), which one
goroutine runs (`Take`, `Check`, `Switched`, `Gone`). Such a function carries the copy
of `connectInfo` it captured. A command (`Operate`, `Decide`, `List`, `Unlist`) writes
the listing and calls the sudo daemon itself, so that both call it.

The sudo daemon's call is `SudoPrepare` (which makes a missing config map) and then
the locked part. A connect starts a goroutine (`tun[i]`) that dials; one that fails
calls `disconnect()` without the lock (`TunnelFails`, `TunnelReleases`), and one whose
tunnel breaks dials again (`TunnelBreaks`). A missing map is also made by the command
itself, twice (`Operate`, `InitAgain`), and by the health check (`CheckReverse`,
`CheckPrepares`).

Other devices delete the map, make it, and write the listing: they read all of it and
patch all of it (`OthersRead`, `OthersPatch`), so that what they read of this device may
be written back when it is no longer true. This device's own read and patch are one
step: its patch sets its entry whatever was read, and what it does to the others is
theirs. An informer may lose its watch and list again (`Relist`): versions in between
are never handed over, and a map that was deleted and made anew is an update to
`OnUpdate`, which keeps the uid it had noted. Either daemon may restart.

History variables for the exceptions of the properties: `raced`, `missed` (namespaces
whose map the informer took for the older one), `listed` (the maps that have ever listed
the device) and `causes`.

### VpnMap

Several devices, one namespace, every API call one step. `cm.dhcp` is the leases as
`ToString` wrote them together with *how* they were written: `ToString` joins the
lines with an escaped newline, which becomes one only in the JSON of a patch. After
an Update (`InitDHCPIfNecessary`, both releases) the text is one line, and
`FromStringToDHCP` reads nothing of it, or loses its last number. That is the
conversion the leases go through, and most of what can go wrong with them.
`fresh[d]` says which reads of `d` are of the newest version: an Update needs it, a
patch does not. `ref` is the reference count; `UpdateRefCount` is a Get and a replace.
Every call of the sudo daemon begins with `Prepare`, which makes the map if it is missing
and rents an address: so does the call of a device that is connected (`PrepareAgain`),
be it another connect or the disconnect, which then has `goal[d]` still before it.
`mine` are the devices whose connection is to the map that is there now: the others are
refused when they disconnect.

### PortForward

`db[k]` is the sequence of records of a port-forward in the profile, `marker` the file
that makes `RecoverAllPortForward` look at the application, `pfList` the daemon's map.
A start stops a listed goroutine first, tests the port, writes the file, checks the
record, finds the pod, adds the record and starts a goroutine, one step each; the
goroutine `r` dials, serves, fails, sleeps, dials again, and ends when its context is
cancelled, in four steps (`DeletePortForwardFromDB`, `IsPortForwarding`, `Marked`,
`Report`). The goroutine that waits for `readyCh` is `waiting` and `fired`; `silent`
says that it gave up waiting. A dial that its goroutine has left, because it was stopped
or found a new pod, is in `dials` and may still become ready or fail (`LateReady`,
`LateFails`). `scanned` says that all applications were looked at once: until then the
recovery does not ask for the marker file.

### DevSpace

A request is a *program* of calls; a call that fails ends its group, and the request
if the handler insists on the group. Each Get and each Update of a role binding is a
step, with the version the server compares. `seen` is the watcher's cache, from which
the server takes whom a space is shared with. Namespaces pass through "terminating".
A call may fail before or after it took effect: the answer of an update of a binding
(`PutLost`) or of the creation of a namespace (`NamespaceLost`) may be lost. `Restart`
ends all requests and then migrates (`Migrate`): every record gets its namespace and its
rights again.
A behaviour is either about namespace spaces or about cluster spaces (`scope`).

### DevDir

The table `PackToPath` with keys of six parts and keys of earlier versions without the
id of the namespace, `PackToKubeConfigBytes` and the default services. A transaction
on the database is one step. `last` and `given` are the history of where each service,
with or without a container, was associated last and with which kubeconfig, `cover` of
where the service of a container was associated as a whole since.

## Runs

| Run | Specification | Bounds | Shows |
|---|---|---|---|
| `appmeta` | `AppMeta!Spec` | 2 users with one process each, 1 workload, 2 commands, 2 attempts, 1 save of other fields, 1 failing call, with or without a secret at first | types; coherent marks in every version; no marks when uninstalled; marked before patched; writes on fresh data are atomic; up to the first other one the secret implements `DevMarks` |
| `appmeta_handover` | `AppMeta!Spec` | 2 commands | violated: a mark is overwritten (finding 1) |
| `appmeta_initial` | `AppMeta!Spec` | 2 commands, no secret at first | violated: an install over an install (finding 3) |
| `devmode` | `DevMode!Spec` | 2 users, 3 commands on any marks there were, 1 failing call, 1 kill | types; the record is never a dev spec; one recreation at a time; a failed start leaves no mark; until the causes they except: unmarked workloads are plain, the original definition survives, the HPA gets its limit back |
| `metawatcher` | `MetaWatcher!FairSpec` | 1 name, 2 users, 2 versions, 1 restart | types; the queued events lead the listeners to the cache; cache and listeners end with the newest version |
| `vpndaemon` | `VpnDaemon!FairSpec` | 2 namespaces; 3 commands in one or 1 in each; or 1 command with 2 dials or tunnels that fail, 2 writes of other devices, or one such write and a relist, a health check or a restart | types; tunnels can be cancelled; the connection follows the listing and ends with it |
| `vpndaemon_deleted` | `VpnDaemon!FairSpec` | 1 namespace, 1 command, 1 map deleted by another device | violated: the connection to a deleted map stays (finding 2) |
| `vpnmap` | `VpnMap!Spec` | 3 devices, 2 addresses; 3 connects, or 2 with another Prepare, a reverse, a failure, a second dial or a crash; 2 devices busy at a time | types; unique addresses; exclusive leases; the traffic manager is kept and cleaned up |
| `portforward` | `PortForward!FairSpec` | 2 ports, 2 goroutines; 2 commands at a time; 2 on one port with an error, at a time or in a row with a timeout; 1 beside the first recovery with an error, a missing pod and a restart; 2 with a restart and records of both ports | types; forwards can be stopped, are recorded and recoverable; what serves is shown; cancelled forwards end and lose their record |
| `devspace` | `DevSpace!Spec` | 2 users, 2 requests at a time, 2 spaces, 3 requests, failures, lost answers and restarts together | types; one role; a deleted space leaves no rights and no namespace; a change of role keeps access |
| `devdir` | `DevDir!Spec` | 1 service with 2 containers and without one, with and without id, 2 directories, 2 kubeconfigs, 3 writes | types; the last association is found, and reported with its kubeconfig |
| `devdir_cover` | `DevDir!Spec` | the same with 1 container | violated: a container is not covered by its service (finding 4) |

Why the bounds are enough to be interesting: two processes suffice for every
conflict of `Update()`, since a process only ever competes with "somebody else
wrote"; two attempts are one refusal and one retry; a key is contended by two
users; two commands reach start against start, start against uninstall, install
against install. For `DevMode`, three commands are a start, an end or reset in its
middle or one that is killed, and another start; one kill and one failing call may hit
any step of any of them. For `MetaWatcher`, two versions are
enough for a push to be overtaken and for a secret to come and go; names do not
interact. `VpnDaemon` needs two namespaces for a switch; three commands in one are a connect, a
disconnect that overtakes what the watcher has queued, and another command that makes the
map anew; its channel of capacity one makes handlers block, which 1000 would not. A
larger instance, two commands in each of two namespaces (3.36 million states), shows
nothing more. `VpnMap` has one address fewer than devices, and devices with the same
hash, so that addresses run out and are contended; three devices are two that race
and one whose lease they lose. `PortForward` meets the marker with two ports, and a
late clean-up with two commands for one port; three in a row (142,326 states more, too
many for the run) are needed for a start to add a record that an older goroutine deletes
(`owed`), and leave the properties true as well. `DevSpace` has a share of two users in
one request against any other request; three events are two requests and a failure, or
three requests. Three writes of `DevDir` are an association, a change and a removal, or
two containers and their service. The theorems do not depend on any of these bounds.

Users, requests, directories and equal devices are symmetric (symmetry is used in runs
of safety properties only). Each `VIEW` drops only what is never read again: what an
idle process, goroutine or request had in memory and overwrites before it reads it,
and versions of a binding that the watcher has passed.

`Finished` lets the bounded runs of `AppMeta` and `DevMode` rest when all commands are
over, so that deadlock is checked there and in `MetaWatcher`. In the five other models
a behaviour ends when its budget is used up and everybody is idle, which is a
deadlock to TLC: their configurations say `CHECK_DEADLOCK FALSE`. That nobody waits
for ever is what the liveness properties say there.

### Fairness

`AppMeta`, `DevMode`, `VpnMap`, `DevSpace` and `DevDir` assume none: their properties
are safety properties, and a command that meets an error gives up.

- `MetaWatcher!FairSpec`: weak fairness of the informer reaching the newest version
  (client-go's reflector lists and watches again after every error), of the worker
  (`wait.Until(c.runWorker, ...)`), and of the event loop (`for { EventPop() ... }`).
  Nothing is assumed of writers, pushes, the daemon's own writes or restarts.
- `VpnDaemon!FairSpec`: weak fairness of every goroutine that is in the middle of
  something, of the goroutine of `funcChan`, of a dial ending one way or the other, and
  of the namespaces being listed again after a restart (the plugin does it
  periodically). Strong fairness of the informers' handlers and of the resync: a
  handler blocked on the full channel is one of several senders, and Go queues blocked
  senders first in, first out. Nothing is assumed of commands, failures, broken tunnels,
  relists, health checks, restarts and other devices.
- `PortForward!FairSpec`: weak fairness of commands and goroutines, those that write
  LISTEN included, and of the recovery. Strong fairness of `ctx.Done()`: a loop that comes back to the `select`
  again and again takes a case that is ready, since `select` chooses at random. No
  forward is assumed to become ready, and no dial or wait to end.

### Exceptions

Many properties name exceptions, and they are the content of the runs: they are the
complete list, within the bounds for what is only model-checked, for all bounds for what
is proved. TLC refutes a property without its exceptions; where one lies beyond the run's
bounds this is said.

- `UnmarkedIsPlain` and `OriginalSurvives`: "lag", "overlap" and "unrolled", each of which
  by itself breaks both. The daemon's cache may be behind (`nocalhost.go:285`); nothing
  keeps two commands apart; and `DevEnd` clears the marks of a workload that it could not
  roll back. `HPAIsRecovered`: these, and "unrecovered": debug reset, a failed start and
  duplicates leave the HPA as the start has set it, and the next start records that limit
  as the owner's (`dev_start.go:339`).
- `FailedStartLeavesNoMark`: the local profile cannot be written (`dev_start.go:303`):
  that step lies between the mark and the deferred rollback that is to "prevent dev
  status modified but not actually enter dev mode". And a rollback whose own `Update()`
  fails, which nothing repeats.
- `EventsTellCache`: a cached meta was changed in place. `GetApplicationMeta`, "prevent
  other func change the application meta", returns the pointer of the cache, and
  `tryDelAppFromHelmRelease` empties its marks before it writes: no DEV_END follows.
- `Settles`: a push arrives after a newer version was written (nothing compares
  versions); a secret that the list or a push brought is gone before the informer has
  seen it (the resync period is 0); an edit in place.
- `TunnelIsKnown`: a connect overlapped with the unlocked `disconnect()` of a dial that
  failed, which then forgets the new connection while its tunnel runs.
- `KeepsConnected`: the connection is to a config map that was deleted (finding 2), or the
  informer took a map made anew for the older one (`vpnconfigmapwatcher.go:277`): the
  handler keeps the old uid, and every resync drops the connection and makes it again.
- `LeavesUnlisted`: the device was taken off the map while a command was connecting it
  ("overtaken"); an informer that listed again has not seen a version ("skipped"); the user
  daemon was restarted, and its first list shows no change ("restarted"). A map that never
  listed the device, such as one the sudo daemon has made itself, has no listing to outlast.
- `UniqueAddress`: a lease dropped by another device's write, an address taken from
  `MAC_TO_IP` without a lease, or a rent with nothing available. `NoDoubleLease` has only
  the last one: a race loses a lease and never duplicates one.
- `InUseIsKept`, `UnusedIsCleaned`: overlapping updates of the count; a decrement by a
  device that was never counted; a second increment by a second dial, or a crash.
- `CanBeStopped` and `RecordIsKept`: two commands for one port at a time, a command
  ahead of the recovery, or a record added while an older goroutine of the port still
  has its own to delete. That last case lies beyond the run's bounds: `RecordIsKept` meets
  it with three commands of one user; `CanBeStopped` needs a start, a stop, a restart for
  syncthing and a goroutine that fails to find socat, which then deletes whatever `pfList`
  has for the port, and only the proof attempt showed it. `Recoverable`: the marker file
  removed after a start had written it. `ServedIsShown`: the exceptions of `RecordIsKept`,
  and a forward that became ready after `readyCh` had been waited for too long. The
  opposite is not claimed: a failure closes `readyCh` too, and the waiter may then write
  LISTEN over RECONNECTING. `StopForgets`: commands for the port that overlapped (two
  records; beyond the run's bounds), and a goroutine that ends for want of socat, which
  keeps its record as "Socat not found".
- `NotBoth`, `SwitchKeepsAccess`: a failed, refused or killed call about that user, or
  two requests about the same user. `DeletedIsUnshared`: rights given during or after the
  delete, rights the watcher's cache did not show, or a Get whose failure
  `RemoveClusterRoleBinding` takes for success. `NoOrphanNamespace`: a namespace created
  again by `CreateNamespaceINE` of a request for a deleted space, a failed call
  (`DeleteNS` is ignored), a creation whose answer was lost (`dev_space.go:293` returns
  without a clean-up), or a restart in the middle of a request.
- `FollowsLast`: a service that nobody has associated since an earlier version wrote the
  table, and an association with an empty kubeconfig, which removes the mapping and
  reports no error; of a container whose service was associated as a whole since, it says
  nothing (finding 4). `ReportsGiven` has the same two for the service itself.

Also seen while modelling, and claimed by no property: `daemon.go:585` says that a
port-forward that exists is skipped, while a start stops it first; `dhcp.go:102` includes
address 254, which the loop does not reach; in `dev_dir_mapping.go` line 286 drops the
default service of the new directory instead of the former one, and line 125 repeats the
test of line 122; case 0 of `loadLocalOrCmConfigIfValid` (`dev_start.go:251`) is never
reached, since `StartDevMode` ends before without a directory.

## Findings

1. `appmeta_handover`: `Update()` retries a refused write with the marks it loaded
   before the conflict. Two users can both be told that they are in replace dev
   mode of one workload, and the secret remembers one.
2. `vpndaemon_deleted`: when the config map of the connection is deleted, the watcher
   asks the sudo daemon to disconnect; the call first makes the map anew, finds that
   its uid is not the connection's, and refuses. The device stays connected.
3. `appmeta_initial`: the comments of `Initial()` say "modify the exists secret as
   INSTALLING if the secret state is UNINSTALL" and "otherwise return an error because
   other process may done this"; the code does not ask for the state of the secret it
   finds. Of two installs that both saw nothing, the second goes on over the first.
4. `devdir_cover`: an association without a container is to "cover all pack with same
   ns/app/type/svc"; the prefix it compares is one that no key with a container has. A
   container stays with its old directory.

## Proofs

Unless an assumption below says otherwise, the theorems hold for every finite or
infinite set of users, processes, workloads, ports, namespaces and directories and for
every bound, from the assumption that each module names next to its constants
(`AppMetaAssumption` and so on): the values that stand for "nobody" or "nothing" are no
members of the sets they stand beside, every process has an owner, the bounds are
natural numbers, and there is at least one attempt per update. `VpnMapAssumption` also
says that there are finitely many devices, that the usable addresses are below the
modulus and do not include the router's, and that `TextLast`, the last of a set when its
numbers are sorted as strings, is a member of it. `DevSpaceAssumption` says that there
are finitely many users, none of them the owner or the default account, and that a share
request asks for something.

`AppMetaProofs`. None of the invariants is inductive by itself: what a process is
about to write depends on what it loaded several steps ago. `IInv` says that every
version and every copy is *sound* (coherent marks, none when uninstalled) and that
every process is *in step* with `src[c]`: depending on `pc[c]`, its marks are those
of version `src[c]`, or those with the one edit its command has made since. The
lemmas on `WithStarting`, `WithStarted` and `WithoutDev` carry soundness over the
edits; each action then preserves `IInv`. From it follow `MarksStayCoherent`,
`UninstalledIsClean` and `PatchIsMarked`. `CleanWritesAreAtomic` follows because a
write that is not blind has `src[c] = Len(log)`: the in-step relation then makes it
`Start`, `Complete`, `End`, `Clear` or no change of the newest marks. `Refinement`
is that step for the versions up to `clean`: `Spec` implements `DevMarks!Spec` read at
the last version that no blind write has touched, and `HeldIsNotTaken` is what that
register promises, the very property that finding 1 refutes for the newest version:
blind writes are the only cause.

`DevModeProofs`. For all interleavings, `IInv` adds to the two invariants that what
a process is about to record or apply is not a dev spec; the sidecar check happens
on the copy that is recorded, so no interleaving can break it. `OneRecreates` holds
because the second delete finds nothing. `UnmarkedStaysPlain` and `OriginalIsKept` rest on
`OrderlyInv`, also an invariant of `Spec`: as long as none of "lag", "overlap" and
"unrolled" has occurred, the state is `Orderly`, the conjunction of `Progress` (what each
position in a command says about the workload, the duplicates and the marks), `Tidy` (what
holds whatever command was killed where) and `Alone`. `HPAStaysRecovered` adds
`LimitInv`: without any of the causes, the owner's limit is in the HPA or recorded beside
it, and a mark or a dev end under way says that it will be recovered.

`FailedStartUnmarks` needs only the types and that a dev end alone recovers the HPA:
which steps of a start fail, and what the deferred rollback does then, is in the actions.

`MetaWatcherProofs`. `EventsTellCache` is inductive together with `TypeOK`. The work is
in three lemmas about sequences of events that *lead* from one belief about a name to
another: `EventsLead` (the events of a change lead from the mark before to the mark
after), `LeadsConcat` (two leads in a row are one, so `Join` keeps the property) and
`LeadsTail` (so does `Consume`).

`DevDirProofs`. The table may begin with anything an earlier version has left, so
nothing holds of it as a whole. The inductive invariant `Known` is about the services
that were associated since: the table has the last directory under the service's own
key, and nothing under the key of an earlier version once it was removed. `FollowsLast`
then follows through the fallbacks of the look-up. `ReportsGiven` follows from the same
for the kubeconfigs: the table has the one given last beside the last directory, and no key
of an earlier version hides it.

`PortForwardProofs`. `Recoverable` is inductive with `Written`: a command that is past
`Marked` has found or written the marker file, unless it was removed since. `CanBeStopped`
and `RecordIsKept` need `LinkInv`, which says who may touch the
record of a port: at most one caller is busy with a port that is not `crossed` (`Solo`),
only goroutines that are cancelled delete their record (`Ending`), one goroutine at most
has still to delete one (`OneOwes`), a goroutine that begins finds its record (`Begins`),
and what the recovery starts has its record and no goroutine (`RecoversDead`).

`VpnDaemonProofs`. The types need that whoever has something to do has a namespace
(`Named`). `TunnelIsKnown` needs `Dialing` (a goroutine that is not through `DoConnect`
has a caller of its own, which waits for it, so two dials never overlap) and `Releasing`
(a goroutine inside the unlocked `disconnect()` has cancelled all that ran; a connection
made since is a race).

`VpnMapProofs`. That a rented address is one of the network's needs a least element of a
set of naturals, taken from well-founded strict inclusion. `NoDoubleLease` is inductive as
`Excl`: what the map says *and what every device has read and may write back* is
exclusive; what is read of a text is never more than what was written, although it may be
less. `UniqueAddress` adds `Leased`, where a device's lease is at each position of its
command. The traffic manager's properties rest on `Balanced`: unless two updates
overlapped, the count is the sum of what the devices have added. The sum over a set is
written as the cardinality of a set of units, so that one device's change is adding or
removing one element and no induction is needed.

`DevSpaceProofs`. The types need that the rest of a request's program is one its handler
can have left (`ProgramOK`: which calls there are and what one says of the next), kept by
`AfterCall`, `AfterFailure` and `Removing`, and that what a request has read was once
written. `NotBoth` follows from `Switching`: whoever is in both bindings is about to be
taken from one by a request under way. `SwitchKeepsAccess` follows from `Switched`: a
request that changes a role removes only somebody it has in the other binding, unless it
was crossed. `NoOrphanNamespace` follows from `Recorded`: a live namespace without a
record has a request about to insert it (`Found`), and a request about to remove a record
has deleted its namespace (`Deleted`). `DeletedIsUnshared` follows from `Emptied`: as long
as somebody is bound in the cluster, each delete under way still owes a removal of him or
the listing of whom to remove.

Only model-checked. Every invariant and every action property of a passing run is a
theorem. Liveness under fairness (`Settles`, `KeepsConnected`, `LeavesUnlisted`,
`ServedIsShown`, `StopForgets`) is out of the prover's reach and rests on TLC's instances. That the
exceptions of the properties leave something to say, and that the hypotheses can be met,
is also TLC's part: in the passing runs every action is taken, and a mutant of the code
breaks each property.

## Not modelled, and the plan

Next, in this order:

1. `MetaWatcher` composed with `AppMeta`: the commands start from the cache of their
   device instead of from any version.
2. In `DevMode`: workloads developed through a generated deployment, a mesh header.
3. In `DevDir` the daemon's cache of the table; in `VpnDaemon` the reversal of workloads.

Within the modelled parts, these are left out. `PortForward`: the heartbeat, and the
ports of other applications. `DevDir`: the daemon's cache, `GetDefaultPack`, `RemovePack`,
the dev-mode check of `debug associate`. `VpnDaemon`: reversal of workloads, status
reports, and the race between the Get and the Create of `InitDHCPIfNecessary` (the loser
gets an empty uid). `VpnMap`: API errors other than "not found" and conflicts. `DevSpace`:
mesh and base spaces, quotas, the protected flag, a namespace given by the caller, imports,
lost answers of the database. `AppMeta`: the first initialisation of
`default.application`.

Left out for good: terminal UI, syncthing and the VPN's packet path (I/O and
external processes), envsubst, configuration validation and the vendored YAML library
(text without state), the webhook and the other CRUD services of the API server
(stateless request handling), generated code (`docs/docs.go`), and
`pkg/nhctl/clientgoutils` (used as the API server's interface). These are most of the
repository's lines: what is modelled is the part in which several processes share state.
