---------------------------- MODULE DevModeProofs ---------------------------
(***************************************************************************)
(* Proofs about DevMode, for any number of users, processes, commands,     *)
(* failing calls and killed processes.                                     *)
(***************************************************************************)
EXTENDS DevMode, TLAPS

LEMMA MarkTypes ==
    ASSUME NEW m \in MarkSets, NEW k \in Modes, NEW u \in Users
    PROVE  /\ Marked(m, k, u) \in MarkSets
           /\ Completed(m, k, u) \in MarkSets
           /\ Unmarked(m, k) \in MarkSets
BY DEF Marked, Completed, Unmarked, MarkSets

LEMMA CurrentModeType ==
    ASSUME NEW m, NEW u \in Users
    PROVE  CurrentMode(m, u) \in {u, Shared} /\ CurrentMode(m, u) \in Modes
BY DEF CurrentMode, Modes

LEMMA ManifestTypes ==
    /\ Plain \in Manifests /\ Gone \in Manifests /\ Plain # Gone
    /\ \A w \in Manifests, s \in Specs \cup {None} :
          /\ [w EXCEPT !.saved = s] \in Manifests
          /\ [w EXCEPT !.spec = s] \in Manifests
          /\ [spec |-> s, saved |-> None] \in Manifests
BY DEF Manifests, Plain, Gone, Specs, None

-----------------------------------------------------------------------------
(* Type correctness *)

LEMMA InitTypeOK == Init => TypeOK
<1> SUFFICES ASSUME Init PROVE TypeOK
  OBVIOUS
<1>1. marks \in past /\ past \subseteq MarkSets /\ causes \subseteq Causes
  BY DEF Init, MarkSets, Free
<1>2. cmds \in 0..MaxCommands /\ faults \in 0..MaxFaults /\ kills \in 0..MaxKills
  BY DevModeAssumption DEF Init
<1>3. hpa \in [limit : Limits, saved : Limits \cup {None}]
  BY DEF Init, Limits
<1>4. workload \in Manifests
  BY ManifestTypes DEF Init
<1> QED BY <1>1, <1>2, <1>3, <1>4 DEF Init, TypeOK, Labels, Modes

LEMMA FaultType ==
    ASSUME TypeOK, NEW why \in SUBSET Causes, Fault(why)
    PROVE  /\ faults' \in 0..MaxFaults /\ causes' \subseteq Causes
           /\ cmds' \in 0..MaxCommands /\ kills' \in 0..MaxKills
BY DevModeAssumption DEF TypeOK, Fault

LEMMA NoteType ==
    ASSUME TypeOK, NEW why \in SUBSET Causes, Note(why)
    PROVE  /\ faults' \in 0..MaxFaults /\ causes' \subseteq Causes
           /\ cmds' \in 0..MaxCommands /\ kills' \in 0..MaxKills
BY DEF TypeOK, Note

(* What may be noted as a cause. *)
LEMMA CauseTypes ==
    /\ {} \in SUBSET Causes /\ {"unrolled"} \in SUBSET Causes /\ {"unrecovered"} \in SUBSET Causes
    /\ {"unrecovered"} \cup {"unrolled"} \in SUBSET Causes /\ {} \cup {"unrolled"} \in SUBSET Causes
BY DEF Causes

LEMMA UpdateType ==
    ASSUME TypeOK, NEW c \in Clients, NEW m \in MarkSets, NEW why \in SUBSET Causes,
           NEW l1 \in Labels, NEW l2 \in Labels, Update(c, m, l1, l2, why)
    PROVE  TypeOK'
<1>1. marks' \in past' /\ past' \subseteq MarkSets
  BY DEF Update, TypeOK
<1>2. CASE UNCHANGED history
  BY <1>1, <1>2 DEF Update, TypeOK, Goto, cluster, history
<1>3. CASE Fault(why)
  BY <1>1, <1>3, FaultType DEF Update, TypeOK, Goto, cluster
<1> QED BY <1>2, <1>3 DEF Update

LEMMA CallType ==
    ASSUME TypeOK, NEW c \in Clients, NEW w \in Manifests, NEW why \in SUBSET Causes,
           NEW l1 \in Labels, NEW l2 \in Labels, Call(c, w, l1, l2, why)
    PROVE  TypeOK'
<1>1. CASE UNCHANGED history
  BY <1>1 DEF Call, TypeOK, Goto, secret, history
<1>2. CASE Fault(why)
  BY <1>2, FaultType DEF Call, TypeOK, Goto, secret
<1> QED BY <1>1, <1>2 DEF Call

LEMMA CommandType ==
    ASSUME TypeOK, NEW c \in Clients, NEW name \in {"start", "end", "reset"}, NEW m \in past,
           NEW k \in Modes, NEW l \in Labels, Command(c, name, m, k, l)
    PROVE  TypeOK'
<1>1. cmds' \in 0..MaxCommands /\ causes' \subseteq Causes
  BY DevModeAssumption DEF Command, TypeOK, Causes
<1> QED BY <1>1 DEF Command, TypeOK, Goto, cluster, secret

LEMMA NextTypeOK == TypeOK /\ [Next]_vars => TypeOK'
<1> SUFFICES ASSUME TypeOK, [Next]_vars PROVE TypeOK'
  OBVIOUS
<1>1. CASE UNCHANGED vars
  BY <1>1 DEF TypeOK, vars, cluster, secret, history
<1>2. CASE Finished
  BY <1>1, <1>2 DEF Finished
<1>3. ASSUME NEW c \in Clients, Begins(c) \/ StartStep(c) \/ EndStep(c) \/ Killed(c)
      PROVE  TypeOK'
  <2>t. /\ Owner[c] \in Users /\ Owner[c] \in Modes /\ Shared \in Modes
        /\ past \subseteq MarkSets /\ meta[c] \in MarkSets /\ mode[c] \in Modes
        /\ copy[c] \in Specs \cup {None} /\ workload \in Manifests
    BY DevModeAssumption DEF TypeOK, Modes
  <2>s. CASE \/ UpdateSvcProfile(c) \/ ReadWorkload(c) \/ GenContainersFails(c)
    BY <2>s, <2>t DEF UpdateSvcProfile, ReadWorkload, GenContainersFails,
       TypeOK, Goto, Labels, Manifests, cluster, secret, history
  <2>1. CASE Begins(c)
    <3>1. PICK m \in past : StartDevMode(c, m) \/ EndDevMode(c, m) \/ DevReset(c, m)
      BY <2>1 DEF Begins
    <3>2. CASE StartDevMode(c, m)
      <4>1. PICK k \in {Owner[c], Shared} : Command(c, "start", m, k, "mark")
        BY <3>2 DEF StartDevMode
      <4> QED BY <4>1, <2>t, CommandType DEF Labels
    <3>3. CASE EndDevMode(c, m) \/ DevReset(c, m)
      <4>1. PICK name \in {"end", "reset"}, l \in {"rollback", "idle"} :
              Command(c, name, m, CurrentMode(m, Owner[c]), l)
        BY <3>3 DEF EndDevMode, DevReset
      <4> QED BY <4>1, <2>t, CurrentModeType, CommandType DEF Labels
    <3> QED BY <3>1, <3>2, <3>3
  <2>2. CASE SvcDevStarting(c)
    <3>1. CASE Developing(meta[c], mode[c])
      BY <2>2, <3>1 DEF SvcDevStarting, TypeOK, Goto, Labels, cluster, secret, history
    <3>2. CASE ~Developing(meta[c], mode[c])
      BY <2>2, <3>2, <2>t, MarkTypes, UpdateType, CauseTypes DEF SvcDevStarting, Labels
    <3> QED BY <3>1, <3>2
  <2>3. CASE DisableHPA(c)
    <3>0. hpa' \in [limit : Limits, saved : Limits \cup {None}]
      BY <2>3 DEF DisableHPA, TypeOK, Limits
    <3>1. PICK why \in SUBSET Causes : UNCHANGED history \/ Note(why) \/ Fault(why)
      BY <2>3, CauseTypes DEF DisableHPA, HPADisabled
    <3>2. /\ faults' \in 0..MaxFaults /\ causes' \subseteq Causes
          /\ cmds' \in 0..MaxCommands /\ kills' \in 0..MaxKills
      BY <3>1, FaultType, NoteType DEF TypeOK, history
    <3> QED BY <2>3, <3>0, <3>2 DEF DisableHPA, TypeOK, Goto, Labels, secret
  <2>4. CASE ReadWorkloadFails(c)
    <3>1. CASE UNCHANGED history
      BY <2>4, <3>1 DEF ReadWorkloadFails, TypeOK, Goto, Labels, cluster, secret, history
    <3>2. CASE Fault({})
      BY <2>4, <3>2, FaultType, CauseTypes DEF ReadWorkloadFails, TypeOK, Goto, Labels, cluster, secret
    <3> QED BY <2>4, <3>1, <3>2 DEF ReadWorkloadFails
  <2>5. CASE RecordOriginal(c)
    BY <2>5, <2>t, ManifestTypes, CallType, CauseTypes DEF RecordOriginal, Labels
  <2>6. CASE ScalePatches(c)
    <3>1. [workload EXCEPT !.spec = IF @ = "dev" THEN @ ELSE "scaled"] \in Manifests
      BY <2>t DEF Manifests, Specs
    <3> QED BY <2>6, <3>1, CallType, CauseTypes DEF ScalePatches, Labels
  <2>7. CASE PatchDevContainer(c)
    <3>1. [workload EXCEPT !.spec = "dev"] \in Manifests
      BY <2>t DEF Manifests, Specs
    <3> QED BY <2>7, <3>1, CallType, CauseTypes DEF PatchDevContainer, Labels
  <2>8. CASE CreateDuplicate(c)
    <3>1. [dups EXCEPT ![Owner[c]] = @ + 1] \in [Users -> Nat]
      BY <2>t DEF TypeOK
    <3>2. dups' \in [Users -> Nat]
      BY <2>8, <3>1 DEF CreateDuplicate, TypeOK
    <3>3. CASE UNCHANGED history
      BY <2>8, <3>2, <3>3 DEF CreateDuplicate, TypeOK, Goto, Labels, secret, history
    <3>4. CASE Fault({})
      BY <2>8, <3>2, <3>4, FaultType, CauseTypes DEF CreateDuplicate, TypeOK, Goto, Labels, secret
    <3> QED BY <2>8, <3>3, <3>4 DEF CreateDuplicate
  <2>9. CASE SvcDevStartComplete(c)
    <3>1. CASE meta[c].started[mode[c]] # NoUser
      BY <2>9, <3>1 DEF SvcDevStartComplete, TypeOK, Goto, Labels, cluster, secret, history
    <3>2. CASE meta[c].started[mode[c]] = NoUser
      BY <2>9, <3>2, <2>t, MarkTypes, UpdateType, CauseTypes DEF SvcDevStartComplete, Labels
    <3> QED BY <3>1, <3>2
  <2>12. CASE DuplicateModeRollBack(c)
    <3>1. dups' \in [Users -> Nat]
      BY <2>12, <2>t DEF DuplicateModeRollBack, TypeOK
    <3>2. CASE UNCHANGED history
      BY <2>12, <3>1, <3>2 DEF DuplicateModeRollBack, TypeOK, Goto, Labels, secret, history
    <3>3. CASE Fault({"unrolled"})
      BY <2>12, <3>1, <3>3, FaultType, CauseTypes DEF DuplicateModeRollBack, TypeOK, Goto, Labels, secret
    <3> QED BY <2>12, <3>2, <3>3 DEF DuplicateModeRollBack
  <2>13. CASE ReadOriginal(c)
    <3>1. copy' \in [Clients -> Specs \cup {None}]
      BY <2>13, <2>t DEF ReadOriginal, TypeOK, Manifests
    <3>2. PICK why \in SUBSET Causes : Note(why) \/ Fault(why)
      BY <2>13, CauseTypes DEF ReadOriginal
    <3>3. /\ faults' \in 0..MaxFaults /\ causes' \subseteq Causes
          /\ cmds' \in 0..MaxCommands /\ kills' \in 0..MaxKills
      BY <3>2, FaultType, NoteType
    <3> QED BY <2>13, <3>1, <3>3 DEF ReadOriginal, TypeOK, Goto, Labels, cluster, secret
  <2>14. CASE DeleteWorkload(c)
    BY <2>14, ManifestTypes, CallType, CauseTypes DEF DeleteWorkload, Labels
  <2>15. CASE ApplyOriginal(c)
    <3>1. workload' \in Manifests
      BY <2>15, <2>t, ManifestTypes DEF ApplyOriginal
    <3>2. CASE UNCHANGED history
      BY <2>15, <3>1, <3>2 DEF ApplyOriginal, TypeOK, Goto, Labels, secret, history
    <3>3. CASE Fault({"unrolled"})
      BY <2>15, <3>1, <3>3, FaultType, CauseTypes DEF ApplyOriginal, TypeOK, Goto, Labels, secret
    <3> QED BY <2>15, <3>2, <3>3 DEF ApplyOriginal
  <2>16. CASE SvcDevEnd(c)
    <3>1. PICK l \in Labels : Update(c, Unmarked(meta[c], mode[c]), l, l, {})
      BY <2>16 DEF SvcDevEnd, Labels
    <3> QED BY <3>1, <2>t, MarkTypes, UpdateType, CauseTypes
  <2>17. CASE RollBackDevStart(c)
    BY <2>17, <2>t, MarkTypes, UpdateType, CauseTypes DEF RollBackDevStart, Labels
  <2>18. CASE RecoverHPA(c)
    BY <2>18 DEF RecoverHPA, TypeOK, Goto, Labels, secret, history
  <2>19. CASE RecoverHPASkipped(c)
    <3>1. CASE UNCHANGED history
      BY <2>19, <3>1 DEF RecoverHPASkipped, TypeOK, Goto, Labels, cluster, secret, history
    <3>2. CASE Fault({"unrecovered"})
      BY <2>19, <3>2, FaultType, CauseTypes DEF RecoverHPASkipped, TypeOK, Goto, Labels, cluster, secret
    <3> QED BY <2>19, <3>1, <3>2 DEF RecoverHPASkipped
  <2>20. CASE Killed(c)
    <3>1. kills' \in 0..MaxKills /\ causes' \subseteq Causes
      BY <2>20, DevModeAssumption DEF Killed, TypeOK, Causes
    <3> QED BY <2>20, <3>1 DEF Killed, TypeOK, Goto, Labels, cluster, secret
  <2> QED BY <1>3, <2>s, <2>1, <2>2, <2>3, <2>4, <2>5, <2>6, <2>7, <2>8, <2>9, <2>12, <2>13, <2>14, <2>15, <2>16, <2>17, <2>18, <2>19, <2>20
          DEF StartStep, EndStep
<1> QED BY <1>1, <1>2, <1>3 DEF Next

(* Types hold in every behaviour, whatever fails or is killed. *)
THEOREM TypeCorrect == Spec => []TypeOK
<1>1. Init => TypeOK
  BY InitTypeOK
<1>2. TypeOK /\ [Next]_vars => TypeOK'
  BY NextTypeOK
<1> QED BY <1>1, <1>2, PTL DEF Spec

-----------------------------------------------------------------------------
(* What holds in any interleaving *)

(* A step of c that leaves the workload alone and does not take c to where *)
(* its copy is about to be used.                                           *)
LEMMA QuietStep ==
    ASSUME IInv, TypeOK', NEW c \in Clients,
           NEW l \in Labels \ {"annotate", "delete", "apply"}, Goto(c, l),
           UNCHANGED <<workload, copy>>
    PROVE  IInv'
BY DEF IInv, TypeOK, SavedIsNotDev, OneRecreates, Goto, At

(* A call on the workload that does not delete it. *)
LEMMA PatchStep ==
    ASSUME IInv, TypeOK', NEW c \in Clients, NEW w \in Manifests, w.saved # "dev",
           NEW l1 \in Labels \ {"annotate", "delete", "apply"},
           NEW l2 \in Labels \ {"annotate", "delete", "apply"}, NEW why, Call(c, w, l1, l2, why)
    PROVE  IInv'
<1>1. CASE workload # Gone /\ workload' = w /\ Goto(c, l1)
  BY <1>1 DEF Call, IInv, TypeOK, SavedIsNotDev, OneRecreates, Goto, At
<1>2. CASE UNCHANGED workload /\ Goto(c, l2)
  BY <1>2, QuietStep DEF Call
<1>3. CASE workload # Gone /\ workload' = w /\ Goto(c, l2)
  BY <1>3 DEF Call, IInv, TypeOK, SavedIsNotDev, OneRecreates, Goto, At
<1> QED BY <1>1, <1>2, <1>3 DEF Call

LEMMA NextIInv == IInv /\ [Next]_vars => IInv'
<1> SUFFICES ASSUME IInv, [Next]_vars PROVE IInv'
  OBVIOUS
<1>t. TypeOK /\ TypeOK'
  BY NextTypeOK DEF IInv
<1>1. CASE UNCHANGED vars
  BY <1>1, <1>t DEF IInv, SavedIsNotDev, OneRecreates, At, vars, cluster
<1>2. CASE Finished
  BY <1>1, <1>2 DEF Finished
<1>3. ASSUME NEW c \in Clients, Begins(c) \/ StartStep(c) \/ EndStep(c) \/ Killed(c)
      PROVE  IInv'
  <2>t. /\ copy[c] \in Specs \cup {None} /\ workload \in Manifests
        /\ workload.spec \in Specs \cup {None} /\ workload.saved \in Specs \cup {None}
    BY <1>t DEF TypeOK, Manifests
  <2>1. CASE \/ Begins(c) \/ SvcDevStarting(c) \/ UpdateSvcProfile(c)
             \/ SvcDevStartComplete(c) \/ SvcDevEnd(c) \/ RollBackDevStart(c)
    <3>1. /\ UNCHANGED <<workload, copy>>
          /\ \E l \in Labels \ {"annotate", "delete", "apply"} : Goto(c, l)
      BY <2>1 DEF Begins, StartDevMode, SvcDevStarting, UpdateSvcProfile, EndDevMode, DevReset,
         SvcDevStartComplete, SvcDevEnd, RollBackDevStart, Command, Update, cluster, Labels
    <3> QED BY <3>1, <1>t, QuietStep
  <2>2. CASE \/ DisableHPA(c) \/ ReadWorkloadFails(c) \/ GenContainersFails(c)
             \/ CreateDuplicate(c) \/ DuplicateModeRollBack(c) \/ RecoverHPA(c)
             \/ RecoverHPASkipped(c) \/ Killed(c)
    <3>1. /\ UNCHANGED <<workload, copy>>
          /\ \E l \in Labels \ {"annotate", "delete", "apply"} : Goto(c, l)
      BY <2>2 DEF DisableHPA, ReadWorkloadFails, GenContainersFails, CreateDuplicate,
         DuplicateModeRollBack, RecoverHPA, RecoverHPASkipped, Killed, cluster, Labels
    <3> QED BY <3>1, <1>t, QuietStep
  <2>3. CASE ReadWorkload(c)
    <3>1. CASE Duplicate(c)
      BY <2>3, <3>1, <1>t DEF ReadWorkload, IInv, TypeOK, SavedIsNotDev, OneRecreates, Goto, At,
         Labels, cluster
    <3>2. CASE ~Duplicate(c)
      BY <2>3, <3>2, <1>t DEF ReadWorkload, IInv, TypeOK, SavedIsNotDev, OneRecreates, Goto, At,
         Labels, cluster
    <3> QED BY <3>1, <3>2
  <2>4. CASE RecordOriginal(c)
    <3>1. copy[c] # "dev"
      BY <2>4 DEF RecordOriginal, IInv, At
    <3>2. /\ [workload EXCEPT !.saved = copy[c]] \in Manifests
          /\ [workload EXCEPT !.saved = copy[c]].saved # "dev"
      BY <2>t, <3>1 DEF Manifests
    <3> QED BY <2>4, <3>2, <1>t, PatchStep DEF RecordOriginal, Labels
  <2>5. CASE ScalePatches(c)
    <3>1. /\ [workload EXCEPT !.spec = IF @ = "dev" THEN @ ELSE "scaled"] \in Manifests
          /\ [workload EXCEPT !.spec = IF @ = "dev" THEN @ ELSE "scaled"].saved # "dev"
      BY <2>t DEF Manifests, Specs, IInv, SavedIsNotDev
    <3> QED BY <2>5, <3>1, <1>t, PatchStep DEF ScalePatches, Labels
  <2>6. CASE PatchDevContainer(c)
    <3>1. /\ [workload EXCEPT !.spec = "dev"] \in Manifests
          /\ [workload EXCEPT !.spec = "dev"].saved # "dev"
      BY <2>t DEF Manifests, Specs, IInv, SavedIsNotDev
    <3> QED BY <2>6, <3>1, <1>t, PatchStep DEF PatchDevContainer, Labels
  <2>7. CASE ReadOriginal(c)
    <3>1. CASE copy' = [copy EXCEPT ![c] = workload.saved] /\ Goto(c, "delete")
      BY <2>7, <3>1, <1>t DEF ReadOriginal, IInv, TypeOK, SavedIsNotDev, OneRecreates, Goto, At,
         Labels, cluster
    <3>2. CASE Goto(c, "devEnd") /\ UNCHANGED copy
      BY <2>7, <3>2, <1>t, QuietStep DEF ReadOriginal, cluster, Labels
    <3> QED BY <2>7, <3>1, <3>2 DEF ReadOriginal
  <2>8. CASE DeleteWorkload(c)
    <3>1. CASE workload # Gone /\ workload' = Gone /\ Goto(c, "apply") /\ UNCHANGED copy
      <4>1. \A d \in Clients : ~At(d, "apply")
        BY <3>1 DEF IInv, OneRecreates
      <4>2. copy[c] # "dev"
        BY <2>8 DEF DeleteWorkload, IInv, At
      <4> QED BY <3>1, <4>1, <4>2, <1>t
              DEF IInv, TypeOK, SavedIsNotDev, OneRecreates, Goto, At, Gone, None
    <3>2. CASE UNCHANGED workload /\ Goto(c, "devEnd") /\ UNCHANGED copy
      BY <3>2, <1>t, QuietStep DEF Labels
    <3>3. CASE workload # Gone /\ workload' = Gone /\ Goto(c, "devEnd") /\ UNCHANGED copy
      BY <3>3, <1>t DEF IInv, TypeOK, SavedIsNotDev, OneRecreates, Goto, At, Gone, None
    <3> QED BY <2>8, <3>1, <3>2, <3>3 DEF DeleteWorkload, Call
  <2>9. CASE ApplyOriginal(c)
    <3>1. CASE workload' = [spec |-> copy[c], saved |-> None]
      <4>1. \A d \in Clients : At(d, "apply") => d = c
        BY <2>9 DEF ApplyOriginal, IInv, OneRecreates
      <4>2. \A d \in Clients : ~At(d, "apply")'
        BY <2>9, <4>1, <1>t DEF ApplyOriginal, Goto, At, TypeOK
      <4>3. SavedIsNotDev'
        BY <3>1 DEF SavedIsNotDev, None
      <4> QED BY <2>9, <4>2, <4>3, <1>t DEF ApplyOriginal, IInv, TypeOK, OneRecreates, Goto, At
    <3>2. CASE UNCHANGED workload
      BY <2>9, <3>2, <1>t, QuietStep DEF ApplyOriginal, Labels
    <3> QED BY <2>9, <3>1, <3>2 DEF ApplyOriginal
  <2> QED BY <1>3, <2>1, <2>2, <2>3, <2>4, <2>5, <2>6, <2>7, <2>8, <2>9
          DEF StartStep, EndStep
<1> QED BY <1>1, <1>2, <1>3 DEF Next

(* The inductive invariant of all interleavings. *)
THEOREM Invariance == Spec => []IInv
<1>1. Init => IInv
  <2> SUFFICES ASSUME Init PROVE IInv
    OBVIOUS
  <2>1. TypeOK
    BY InitTypeOK
  <2> QED BY <2>1 DEF Init, IInv, SavedIsNotDev, OneRecreates, At, Plain, None
<1>2. IInv /\ [Next]_vars => IInv'
  BY NextIInv
<1> QED BY <1>1, <1>2, PTL DEF Spec

(* No record of a workload's definition is ever a dev spec: what           *)
(* PatchDevModeManifest records is what it has checked for the sidecar.    *)
THEOREM SavedIsNeverDev == Spec => []SavedIsNotDev
<1>1. IInv => SavedIsNotDev
  BY DEF IInv
<1> QED BY <1>1, Invariance, PTL

(* Two rollbacks never are between their delete and their apply at once:   *)
(* RollbackFromAnnotation never applies over a workload that exists.       *)
THEOREM RecreationIsExclusive == Spec => []OneRecreates
<1>1. IInv => OneRecreates
  BY DEF IInv
<1> QED BY <1>1, Invariance, PTL

-----------------------------------------------------------------------------
(* What holds when commands run one after the other on the newest marks *)
(* and no rollback fails                                                *)

LEMMA OthersIdle ==
    ASSUME TypeOK, Alone, NEW c \in Clients, ~At(c, "idle"), NEW l, Goto(c, l)
    PROVE  \A d \in Clients : d # c => pc'[d] = "idle"
BY DEF TypeOK, Alone, At, Goto

(* A step of the only process that is active. *)
LEMMA LoneStep ==
    ASSUME NEW c \in Clients, \A d \in Clients : d # c => pc'[d] = "idle",
           Tidy', pc'[c] # "idle" => Progress(c)'
    PROVE  Orderly'
BY DEF Orderly, Alone, At

(* What the marks become. *)
LEMMA MarkEffects ==
    ASSUME NEW m \in MarkSets, NEW k \in Modes, NEW u \in Users
    PROVE  /\ Marked(m, k, u).starting[k] = u /\ Marked(m, k, u).started = m.started
           /\ Developing(Marked(m, k, u), k)
           /\ Developing(Completed(m, k, u), k)
           /\ \A j \in Modes \ {k} :
                /\ Developing(Marked(m, k, u), j) <=> Developing(m, j)
                /\ Developing(Completed(m, k, u), j) <=> Developing(m, j)
                /\ Developing(Unmarked(m, k), j) <=> Developing(m, j)
<1> u # NoUser
  BY DevModeAssumption
<1> QED BY DEF Marked, Completed, Unmarked, Developing, MarkSets

LEMMA UnmarkedTwice ==
    ASSUME NEW m \in MarkSets, NEW k \in Modes
    PROVE  Unmarked(Unmarked(m, k), k) = Unmarked(m, k)
<1>1. ASSUME NEW n \in MarkSets
      PROVE  /\ Unmarked(n, k) \in MarkSets
             /\ Unmarked(n, k).starting = [n.starting EXCEPT ![k] = NoUser]
             /\ Unmarked(n, k).started = [n.started EXCEPT ![k] = NoUser]
  BY <1>1 DEF Unmarked, MarkSets
<1>2. ASSUME NEW a \in MarkSets, NEW b \in MarkSets, a.starting = b.starting, a.started = b.started
      PROVE  a = b
  BY <1>2 DEF MarkSets
<1> DEFINE n == Unmarked(m, k)
<1>3. n \in MarkSets /\ Unmarked(n, k) \in MarkSets
  BY <1>1
<1>4. Unmarked(n, k).starting = n.starting
  <2>1. n.starting = [m.starting EXCEPT ![k] = NoUser] /\ Unmarked(n, k).starting = [n.starting EXCEPT ![k] = NoUser]
    BY <1>1, <1>3
  <2>2. m.starting \in [Modes -> Users \cup {NoUser}]
    BY DEF MarkSets
  <2> HIDE DEF n
  <2> QED BY <2>1, <2>2
<1>5. Unmarked(n, k).started = n.started
  <2>1. n.started = [m.started EXCEPT ![k] = NoUser] /\ Unmarked(n, k).started = [n.started EXCEPT ![k] = NoUser]
    BY <1>1, <1>3
  <2>2. m.started \in [Modes -> Users \cup {NoUser}]
    BY DEF MarkSets
  <2> HIDE DEF n
  <2> QED BY <2>1, <2>2
<1> HIDE DEF n
<1>6. Unmarked(n, k) = n
  BY <1>2, <1>3, <1>4, <1>5
<1> QED BY <1>6 DEF n

LEMMA SpecTypes ==
    /\ "own" \in Specs /\ "scaled" \in Specs /\ "dev" \in Specs /\ None \notin Specs
    /\ Plain.spec = "own" /\ Plain.saved = None /\ Gone.spec = None /\ Gone.saved = None
BY DEF Specs, None, Plain, Gone

(* A failure that is noted as a cause is out of order, and stays it. *)
LEMMA StaysOut ==
    ASSUME InOrder', NEW why, Note(why) \/ Fault(why)
    PROVE  InOrder /\ "unrolled" \notin why
BY DEF InOrder, Note, Fault

LEMMA StartInOrder ==
    ASSUME TypeOK, Orderly, TypeOK', InOrder',
           NEW c \in Clients, ~At(c, "idle"), StartStep(c)
    PROVE  Orderly'
<1> DEFINE k == mode[c]
           u == Owner[c]
<1>t. /\ u \in Users /\ u # NoUser /\ u # Shared /\ u \in Modes /\ Shared \in Modes
      /\ marks \in MarkSets /\ meta[c] \in MarkSets /\ k \in Modes
      /\ workload \in Manifests
  BY DevModeAssumption DEF TypeOK, Modes
<1>f. ~Fault({"unrolled"})
  BY StaysOut
<1>p. Tidy /\ Progress(c) /\ Alone
  BY DEF Orderly
<1>o. ASSUME NEW l, Goto(c, l) PROVE \A d \in Clients : d # c => pc'[d] = "idle"
  BY <1>o, <1>p, OthersIdle
<1>g. ASSUME NEW l, Goto(c, l) PROVE pc'[c] = l
  BY <1>g DEF Goto, TypeOK
<1>2. CASE SvcDevStarting(c)
  <2>1. CASE Developing(meta[c], k)
    <3>1. Goto(c, "idle") /\ UNCHANGED <<workload, dups, marks>>
      BY <1>2, <2>1 DEF SvcDevStarting, cluster, secret
    <3>2. Tidy'
      BY <3>1, <1>p DEF Tidy
    <3> QED BY <3>1, <3>2, <1>o, <1>g, LoneStep
  <2>2. CASE ~Developing(meta[c], k)
    <3>1. /\ At(c, "mark") /\ Update(c, Marked(meta[c], k, u), "profile", "idle", {})
          /\ meta[c] = marks /\ UNCHANGED <<workload, dups, mode, copy>>
      <4>1. At(c, "mark") /\ Update(c, Marked(meta[c], k, u), "profile", "idle", {})
        BY <1>2, <2>2 DEF SvcDevStarting
      <4>2. meta[c] = marks
        BY <4>1, <1>p DEF Progress, At
      <4> QED BY <4>1, <4>2 DEF Update, cluster
    <3>2. marks' \in {marks, Marked(marks, k, u)}
      BY <3>1 DEF Update
    <3>3. Tidy'
      BY <3>1, <3>2, <1>p, <1>t, MarkEffects DEF Tidy, Modes
    <3>4. CASE Goto(c, "profile") /\ marks' = Marked(marks, k, u)
      <4>0. meta'[c] = marks'
        BY <3>1, <3>4 DEF Update, TypeOK
      <4>1. marks.started[k] = NoUser /\ (k # Shared => dups[u] = 0) /\ k \in {u, Shared}
        BY <2>2, <1>p, <1>t, <3>1 DEF Developing, Progress, Tidy
      <4>2. marks'.starting[k] # NoUser /\ marks'.started[k] = NoUser
        BY <3>4, <4>1, <1>t, MarkEffects
      <4>3. workload # Gone /\ (k = Shared => workload = Plain)
        BY <3>1, <1>p DEF Progress, At, Plain
      <4>4. Progress(c)'
        BY <3>1, <3>4, <1>g, <4>0, <4>1, <4>2, <4>3 DEF Progress, Plain
      <4> QED BY <3>3, <3>4, <4>4, <1>o, LoneStep
    <3>5. CASE Goto(c, "idle")
      BY <3>3, <3>5, <1>o, <1>g, LoneStep
    <3> QED BY <3>1, <3>4, <3>5 DEF Update
  <2> QED BY <2>1, <2>2
<1>3. CASE UpdateSvcProfile(c) \/ DisableHPA(c)
  <2>1. PICK l \in {"idle", "hpa", "read"} :
          /\ pc[c] \in {"profile", "hpa"} /\ Goto(c, l)
          /\ UNCHANGED <<workload, dups, marks, mode, meta, copy>>
    BY <1>3 DEF UpdateSvcProfile, DisableHPA, cluster, secret, At
  <2>2. Tidy'
    BY <2>1, <1>p DEF Tidy
  <2>3. l # "idle" => Progress(c)'
    BY <2>1, <1>g, <1>p DEF Progress
  <2> QED BY <2>1, <2>2, <2>3, <1>o, <1>g, LoneStep
<1>4. CASE ReadWorkload(c)
  <2>1. /\ At(c, "read") /\ UNCHANGED <<workload, dups, marks, mode, meta>>
        /\ copy'[c] = workload.spec
        /\ Goto(c, IF Duplicate(c) THEN "create" ELSE "annotate")
    BY <1>4 DEF ReadWorkload, cluster, secret, TypeOK
  <2>2. Tidy'
    BY <2>1, <1>p DEF Tidy
  <2>3. Progress(c)'
    BY <2>1, <1>g, <1>p DEF Progress, Duplicate, At
  <2> QED BY <2>1, <2>2, <2>3, <1>o, LoneStep
<1>5. CASE ReadWorkloadFails(c) \/ GenContainersFails(c)
  <2>1. /\ Goto(c, "rollback") /\ UNCHANGED <<workload, dups, marks, mode, meta, copy>>
        /\ pc[c] \in {"read", "patch", "create"}
    BY <1>5 DEF ReadWorkloadFails, GenContainersFails, cluster, secret, At
  <2>2. Tidy'
    BY <2>1, <1>p DEF Tidy
  <2>3. Progress(c)'
    BY <2>1, <1>g, <1>p DEF Progress
  <2> QED BY <2>1, <2>2, <2>3, <1>o, LoneStep
<1>6. CASE RecordOriginal(c)
  <2>1. /\ At(c, "annotate") /\ workload = Plain /\ k = Shared /\ copy[c] = "own"
    BY <1>6, <1>p DEF RecordOriginal, Progress, At, Plain
  <2>2. /\ Goto(c, "scale") \/ Goto(c, "rollback")
        /\ Goto(c, "scale") => workload' = [spec |-> "own", saved |-> "own"]
        /\ workload' \in {workload, [spec |-> "own", saved |-> "own"]}
        /\ UNCHANGED <<dups, marks, mode, meta, copy>>
    BY <1>6, <2>1, ManifestTypes, <1>g DEF RecordOriginal, Call, Plain, Gone, None, secret
  <2>3. Developing(marks, Shared)
    BY <2>1, <1>p DEF Progress, At, Developing
  <2>4. Tidy' /\ workload' # Gone
    BY <2>1, <2>2, <2>3, <1>p, SpecTypes DEF Tidy
  <2>5. Progress(c)'
    BY <2>1, <2>2, <2>4, <1>g, <1>p, SpecTypes DEF Progress, At
  <2> QED BY <2>2, <2>4, <2>5, <1>o, LoneStep
<1>7. CASE ScalePatches(c)
  <2>1. /\ At(c, "scale") /\ workload = [spec |-> "own", saved |-> "own"] /\ k = Shared
    BY <1>7, <1>p DEF ScalePatches, Progress, At, Plain
  <2>2. /\ Goto(c, "patch") \/ Goto(c, "rollback")
        /\ Goto(c, "patch") => workload' = [spec |-> "scaled", saved |-> "own"]
        /\ workload' \in {workload, [spec |-> "scaled", saved |-> "own"]}
        /\ UNCHANGED <<dups, marks, mode, meta, copy>>
    BY <1>7, <2>1, ManifestTypes, <1>g DEF ScalePatches, Call, Plain, Gone, None, secret
  <2>3. Developing(marks, Shared)
    BY <2>1, <1>p DEF Progress, At, Developing
  <2>4. Tidy' /\ workload' # Gone
    BY <2>1, <2>2, <2>3, <1>p, SpecTypes DEF Tidy
  <2>5. Progress(c)'
    BY <2>1, <2>2, <2>4, <1>g, <1>p, SpecTypes DEF Progress, At
  <2> QED BY <2>2, <2>4, <2>5, <1>o, LoneStep
<1>8. CASE PatchDevContainer(c)
  <2>1. /\ At(c, "patch") /\ workload = [spec |-> "scaled", saved |-> "own"] /\ k = Shared
    BY <1>8, <1>p DEF PatchDevContainer, Progress, At, Plain
  <2>2. /\ Goto(c, "complete") \/ Goto(c, "rollback")
        /\ Goto(c, "complete") => workload' = [spec |-> "dev", saved |-> "own"]
        /\ workload' \in {workload, [spec |-> "dev", saved |-> "own"]}
        /\ UNCHANGED <<dups, marks, mode, meta, copy>>
    BY <1>8, <2>1, ManifestTypes, <1>g DEF PatchDevContainer, Call, Plain, Gone, None, secret
  <2>3. Developing(marks, Shared)
    BY <2>1, <1>p DEF Progress, At, Developing
  <2>4. Tidy' /\ workload' # Gone
    BY <2>1, <2>2, <2>3, <1>p, SpecTypes DEF Tidy
  <2>5. Progress(c)'
    BY <2>1, <2>2, <2>4, <1>g, <1>p, SpecTypes DEF Progress, At
  <2> QED BY <2>2, <2>4, <2>5, <1>o, LoneStep
<1>9. CASE CreateDuplicate(c)
  <2>1. At(c, "create") /\ k = u /\ dups[u] = 0 /\ Developing(marks, u)
    BY <1>9, <1>p DEF CreateDuplicate, Progress, At, Developing
  <2>2. /\ Goto(c, "complete") \/ Goto(c, "rollback")
        /\ UNCHANGED <<workload, marks, mode, meta, copy>>
        /\ dups' \in {dups, [dups EXCEPT ![u] = 1]}
    BY <1>9, <2>1 DEF CreateDuplicate, secret
  <2>3. Tidy'
    BY <2>1, <2>2, <1>p, <1>t DEF Tidy, TypeOK
  <2>4. Progress(c)'
    BY <2>1, <2>2, <1>g, <1>p DEF Progress, At
  <2> QED BY <2>2, <2>3, <2>4, <1>o, LoneStep
<1>10. CASE SvcDevStartComplete(c)
  <2>1. /\ Goto(c, "idle") /\ marks' = Completed(marks, k, u) /\ UNCHANGED <<workload, dups>>
        /\ Developing(marks, k)
    BY <1>10, <1>p, <1>f DEF SvcDevStartComplete, Update, Progress, At, Developing, cluster
  <2>2. Tidy'
    BY <2>1, <1>p, <1>t, MarkEffects DEF Tidy, Modes
  <2> QED BY <2>1, <2>2, <1>o, <1>g, LoneStep
<1> QED BY <1>2, <1>3, <1>4, <1>5, <1>6, <1>7, <1>8, <1>9, <1>10 DEF StartStep

LEMMA EndInOrder ==
    ASSUME TypeOK, Orderly, TypeOK', InOrder',
           NEW c \in Clients, ~At(c, "idle"), EndStep(c)
    PROVE  Orderly'
<1> DEFINE k == mode[c]
           u == Owner[c]
<1>t. /\ u \in Users /\ u # NoUser /\ u # Shared /\ u \in Modes /\ Shared \in Modes
      /\ marks \in MarkSets /\ meta[c] \in MarkSets /\ k \in Modes
      /\ workload \in Manifests
  BY DevModeAssumption DEF TypeOK, Modes
<1>f. ~Fault({"unrolled"})
  BY StaysOut
<1>p. Tidy /\ Progress(c) /\ Alone
  BY DEF Orderly
<1>o. ASSUME NEW l, Goto(c, l) PROVE \A d \in Clients : d # c => pc'[d] = "idle"
  BY <1>o, <1>p, OthersIdle
<1>g. ASSUME NEW l, Goto(c, l) PROVE pc'[c] = l
  BY <1>g DEF Goto, TypeOK
<1>2. CASE DuplicateModeRollBack(c)
  <2>1. /\ At(c, "rollback") /\ k = u /\ Goto(c, "devEnd")
        /\ UNCHANGED <<workload, marks, mode, meta, copy>>
        /\ dups' = [dups EXCEPT ![u] = 0]
    BY <1>2, <1>p, <1>f, <1>t DEF DuplicateModeRollBack, Duplicate, Progress, Tidy, TypeOK, secret
  <2>2. Tidy'
    BY <2>1, <1>p, <1>t DEF Tidy, TypeOK
  <2>3. Progress(c)'
    BY <2>1, <1>g, <1>p, <1>t DEF Progress, At, TypeOK
  <2> QED BY <2>1, <2>2, <2>3, <1>o, LoneStep
<1>3. CASE ReadOriginal(c)
  <2>1. /\ At(c, "rollback") /\ k = Shared /\ workload # Gone
        /\ UNCHANGED <<workload, dups, marks, mode, meta>>
    BY <1>3, <1>p DEF ReadOriginal, Duplicate, Progress, At, cluster, secret
  <2>f. ~Fault({} \cup {"unrolled"}) /\ ~Fault({"unrecovered"} \cup {"unrolled"})
    BY StaysOut
  <2>2. Tidy'
    BY <2>1, <1>p DEF Tidy
  <2>3. CASE workload.saved # None
    <3>1. /\ Goto(c, "delete") /\ copy'[c] = workload.saved /\ workload.saved = "own"
      BY <1>3, <2>1, <2>3, <1>p, <2>f, SpecTypes DEF ReadOriginal, Tidy, TypeOK
    <3>2. Progress(c)'
      BY <2>1, <3>1, <1>g, <1>p DEF Progress, At
    <3> QED BY <2>2, <3>1, <3>2, <1>o, LoneStep
  <2>4. CASE workload.saved = None
    <3>1. Goto(c, "devEnd") /\ workload = Plain
      BY <1>3, <2>1, <2>4, <1>p, <2>f, SpecTypes DEF ReadOriginal, Tidy, None
    <3>2. Progress(c)'
      BY <2>1, <3>1, <1>g, <1>p DEF Progress, At
    <3> QED BY <2>2, <3>1, <3>2, <1>o, LoneStep
  <2> QED BY <2>3, <2>4
<1>4. CASE DeleteWorkload(c)
  <2>1. /\ At(c, "delete") /\ k = Shared /\ copy[c] = "own" /\ workload # Gone
        /\ workload.saved = "own"
    BY <1>4, <1>p DEF DeleteWorkload, Progress, At
  <2>2. /\ Goto(c, "apply") /\ workload' = Gone
        /\ UNCHANGED <<dups, marks, mode, meta, copy>>
    BY <1>4, <2>1, <1>f DEF DeleteWorkload, Call, secret
  <2>3. Developing(marks, Shared)
    BY <2>1, <1>p, SpecTypes DEF Tidy, None
  <2>4. Tidy'
    BY <2>2, <2>3, <1>p DEF Tidy
  <2>5. Progress(c)'
    BY <2>1, <2>2, <1>g, <1>p DEF Progress, At
  <2> QED BY <2>2, <2>4, <2>5, <1>o, LoneStep
<1>5. CASE ApplyOriginal(c)
  <2>1. At(c, "apply") /\ k = Shared /\ copy[c] = "own"
    BY <1>5, <1>p DEF ApplyOriginal, Progress, At
  <2>2. /\ Goto(c, "devEnd") /\ workload' = Plain
        /\ UNCHANGED <<dups, marks, mode, meta, copy>>
    BY <1>5, <2>1, <1>f DEF ApplyOriginal, Plain, secret
  <2>3. Tidy'
    BY <2>2, <1>p DEF Tidy
  <2>4. Progress(c)'
    BY <2>1, <2>2, <1>g, <1>p, ManifestTypes DEF Progress, At
  <2> QED BY <2>2, <2>3, <2>4, <1>o, LoneStep
<1>6. CASE SvcDevEnd(c) \/ RollBackDevStart(c)
  <2>1. PICK l \in {"undo", "recover", "idle"} :
          /\ pc[c] \in {"devEnd", "undo"} /\ Update(c, Unmarked(meta[c], k), l, l, {})
    BY <1>6 DEF SvcDevEnd, RollBackDevStart, At
  <2>2. Unmarked(meta[c], k) = Unmarked(marks, k)
    BY <2>1, <1>p DEF Progress
  <2>3. /\ Goto(c, l) /\ marks' \in {marks, Unmarked(marks, k)} /\ meta'[c] = Unmarked(marks, k)
        /\ UNCHANGED <<workload, dups, mode, copy>>
    BY <2>1, <2>2 DEF Update, cluster, TypeOK
  <2>4. Unmarked(marks', k) = Unmarked(marks, k) /\ Unmarked(meta'[c], k) = Unmarked(marks, k)
    BY <2>3, <1>t, UnmarkedTwice
  <2>5. /\ IF k = Shared THEN workload = Plain ELSE dups[u] = 0
        /\ k \in {u, Shared} /\ workload # Gone
    BY <2>1, <1>p DEF Progress
  <2>6. Tidy'
    <3>1. \A j \in Modes \ {k} : Developing(marks', j) <=> Developing(marks, j)
      BY <2>3, <1>t, MarkEffects
    <3>2. CASE k = Shared
      BY <2>3, <2>5, <3>1, <3>2, <1>p, DevModeAssumption DEF Tidy, Modes
    <3>3. CASE k = u /\ k # Shared
      BY <2>3, <2>5, <3>1, <3>3, <1>p, <1>t DEF Tidy, Modes
    <3> QED BY <2>5, <3>2, <3>3
  <2>7. l # "idle" => Progress(c)'
    BY <2>3, <2>4, <2>5, <1>g DEF Progress
  <2> QED BY <2>3, <2>6, <2>7, <1>o, <1>g, LoneStep
<1>7. CASE RecoverHPA(c) \/ RecoverHPASkipped(c)
  <2>1. Goto(c, "idle") /\ UNCHANGED <<workload, dups, marks>>
    BY <1>7 DEF RecoverHPA, RecoverHPASkipped, cluster, secret
  <2>2. Tidy'
    BY <2>1, <1>p DEF Tidy
  <2> QED BY <2>1, <2>2, <1>o, <1>g, LoneStep
<1> QED BY <1>2, <1>3, <1>4, <1>5, <1>6, <1>7 DEF EndStep

(* A command that starts, or that ends at once: on the newest marks, when  *)
(* no other runs.                                                          *)
LEMMA CommandInOrder ==
    ASSUME TypeOK, Orderly, InOrder', NEW c \in Clients, NEW name, NEW m,
           NEW k \in {Owner[c], Shared}, NEW l \in {"mark", "rollback", "idle"},
           Command(c, name, m, k, l), TypeOK', l = "mark" => ~Developing(m, Shared)
    PROVE  Orderly'
<1>0. m = marks /\ AtRest
  BY DEF Command, InOrder
<1>1. /\ workload # Gone /\ pc' = [pc EXCEPT ![c] = l] /\ pc[c] = "idle"
      /\ UNCHANGED <<workload, dups, marks, copy>>
      /\ mode' = [mode EXCEPT ![c] = k] /\ meta' = [meta EXCEPT ![c] = marks]
  BY <1>0 DEF Command, Goto, At, cluster, secret
<1>2. Tidy /\ Tidy'
  BY <1>1 DEF Orderly, Tidy
<1>3. \A d \in Clients : d # c => pc'[d] = "idle"
  BY <1>0, <1>1 DEF AtRest, At, TypeOK
<1>4. l = "mark" => workload = Plain
  BY <1>0, <1>2 DEF Tidy
<1>5. l # "idle" => Progress(c)'
  BY <1>1, <1>4 DEF Progress, TypeOK, Plain
<1>6. pc'[c] = l
  BY <1>1 DEF TypeOK
<1> QED BY <1>2, <1>3, <1>5, <1>6, LoneStep

(* Causes are only added. *)
LEMMA CausesGrow ==
    ASSUME NEW c \in Clients, Begins(c) \/ StartStep(c) \/ EndStep(c) \/ Killed(c)
    PROVE  causes \subseteq causes'
<1>1. CASE Begins(c)
  BY <1>1 DEF Begins, StartDevMode, EndDevMode, DevReset, Command
<1>2. CASE StartStep(c)
  BY <1>2 DEF StartStep, SvcDevStarting, Update, UpdateSvcProfile,
     DisableHPA, HPADisabled, Note, ReadWorkload, ReadWorkloadFails, RecordOriginal, ScalePatches,
     Call, PatchDevContainer, GenContainersFails, CreateDuplicate, SvcDevStartComplete, history, Fault
<1>3. CASE EndStep(c)
  BY <1>3 DEF EndStep, DuplicateModeRollBack, ReadOriginal, Note, DeleteWorkload, Call,
     ApplyOriginal, SvcDevEnd, RollBackDevStart, Update, RecoverHPA, RecoverHPASkipped, history, Fault
<1>4. CASE Killed(c)
  BY <1>4 DEF Killed
<1> QED BY <1>1, <1>2, <1>3, <1>4

LEMMA NextOrderlyInv == OrderlyInv /\ [Next]_vars => OrderlyInv'
<1> SUFFICES ASSUME OrderlyInv, [Next]_vars PROVE OrderlyInv'
  OBVIOUS
<1>t. TypeOK /\ TypeOK'
  BY NextTypeOK DEF OrderlyInv
<1>1. CASE UNCHANGED vars
  BY <1>1, <1>t DEF OrderlyInv, InOrder, Orderly, Tidy, Progress, Alone, At, vars, cluster, secret,
     history
<1>2. CASE Finished
  BY <1>1, <1>2 DEF Finished
<1>3. ASSUME NEW c \in Clients, Begins(c) \/ StartStep(c) \/ EndStep(c) \/ Killed(c)
      PROVE  OrderlyInv'
  <2> SUFFICES ASSUME InOrder' PROVE Orderly'
    BY <1>t DEF OrderlyInv
  <2>1. InOrder /\ Orderly
    BY <1>3, CausesGrow DEF InOrder, OrderlyInv
  <2>2. CASE Begins(c)
    <3>1. PICK m \in past : StartDevMode(c, m) \/ EndDevMode(c, m) \/ DevReset(c, m)
      BY <2>2 DEF Begins
    <3>2. CASE StartDevMode(c, m)
      <4>1. PICK k \in {Owner[c], Shared} : Command(c, "start", m, k, "mark")
        BY <3>2 DEF StartDevMode
      <4> QED BY <3>2, <4>1, <1>t, <2>1, CommandInOrder DEF StartDevMode
    <3>3. CASE EndDevMode(c, m) \/ DevReset(c, m)
      <4>1. PICK name \in {"end", "reset"}, l \in {"rollback", "idle"} :
              Command(c, name, m, CurrentMode(m, Owner[c]), l)
        BY <3>3 DEF EndDevMode, DevReset
      <4>2. CurrentMode(m, Owner[c]) \in {Owner[c], Shared}
        BY DEF CurrentMode
      <4> QED BY <4>1, <4>2, <1>t, <2>1, CommandInOrder
    <3> QED BY <3>1, <3>2, <3>3
  <2>3. CASE StartStep(c)
    <3>1. ~At(c, "idle")
      BY <2>3 DEF StartStep, At, SvcDevStarting, UpdateSvcProfile, DisableHPA, ReadWorkload,
         ReadWorkloadFails, RecordOriginal, ScalePatches, PatchDevContainer, GenContainersFails,
         CreateDuplicate, SvcDevStartComplete
    <3> QED BY <3>1, <2>1, <2>3, <1>t, StartInOrder
  <2>4. CASE EndStep(c)
    <3>1. ~At(c, "idle")
      BY <2>4 DEF EndStep, At, DuplicateModeRollBack, ReadOriginal, DeleteWorkload, ApplyOriginal,
         SvcDevEnd, RollBackDevStart, RecoverHPA, RecoverHPASkipped
    <3> QED BY <3>1, <2>1, <2>4, <1>t, EndInOrder
  <2>5. CASE Killed(c)
    <3>1. ~At(c, "idle") /\ Goto(c, "idle") /\ UNCHANGED <<workload, dups, marks>>
      BY <2>5 DEF Killed, cluster, secret
    <3>2. Tidy' /\ Alone
      BY <3>1, <2>1 DEF Orderly, Tidy
    <3>3. \A d \in Clients : pc'[d] = "idle"
      BY <3>1, <3>2, <1>t, OthersIdle DEF Goto, TypeOK
    <3> QED BY <3>2, <3>3 DEF Orderly, Alone, At
  <2> QED BY <1>3, <2>2, <2>3, <2>4, <2>5
<1> QED BY <1>1, <1>2, <1>3 DEF Next

(* What is true of a workload as long as commands come one after the       *)
(* other on the newest marks and no rollback fails, in every behaviour.    *)
THEOREM OrderlyInvariance == Spec => []OrderlyInv
<1>1. Init => OrderlyInv
  <2> SUFFICES ASSUME Init PROVE OrderlyInv
    OBVIOUS
  <2>1. TypeOK
    BY InitTypeOK
  <2>2. Tidy
    BY DEF Init, Tidy
  <2> QED BY <2>1, <2>2 DEF Init, OrderlyInv, Orderly, Alone, At
<1>2. OrderlyInv /\ [Next]_vars => OrderlyInv'
  BY NextOrderlyInv
<1> QED BY <1>1, <1>2, PTL DEF Spec

(* The limits of the HPA while every replace mode is ended by a dev end. *)
LEMMA NextLimitInv == OrderlyInv /\ LimitInv /\ [Next]_vars => LimitInv'
<1> SUFFICES ASSUME OrderlyInv, LimitInv, [Next]_vars, causes' = {} PROVE LimitKept'
  BY DEF LimitInv
<1>t. TypeOK /\ TypeOK'
  BY NextTypeOK DEF OrderlyInv
<1>1. CASE UNCHANGED vars
  BY <1>1 DEF LimitInv, LimitKept, At, vars, cluster, secret, history
<1>2. CASE Finished
  BY <1>1, <1>2 DEF Finished
<1>3. ASSUME NEW c \in Clients, Begins(c) \/ StartStep(c) \/ EndStep(c) \/ Killed(c)
      PROVE  LimitKept'
  <2>0. causes = {} /\ Orderly /\ LimitKept
    BY <1>3, CausesGrow DEF OrderlyInv, LimitInv, InOrder
  <2>f. ASSUME NEW why, Note(why) \/ Fault(why) PROVE why = {}
    BY <2>f DEF Note, Fault
  <2>t. /\ Owner[c] \in Users /\ Shared \notin Users /\ Shared \in Modes /\ mode[c] \in Modes
        /\ marks \in MarkSets /\ meta[c] \in MarkSets /\ hpa.saved # "one"
        /\ pc \in [Clients -> Labels] /\ hpa \in [limit : Limits, saved : Limits \cup {None}]
    BY <1>t, <2>0, DevModeAssumption DEF TypeOK, Modes, LimitKept
  (* A step that leaves the HPA alone, and the mark of the replace mode. *)
  <2>q. ASSUME NEW l \in Labels, Goto(c, l), UNCHANGED <<hpa, mode, cmd>>, pc[c] # "recover",
               Developing(marks, Shared) => Developing(marks', Shared),
               mode[c] = Shared => /\ l \in {"profile", "hpa"} => pc[c] \in {"mark", "profile", "hpa"}
                                   /\ l \notin {"mark", "undo"}
                                   /\ l \in {"delete", "apply", "devEnd"} =>
                                         pc[c] \in {"delete", "apply", "devEnd"} \/ cmd[c] = "end"
        PROVE  LimitKept'
    <3>1. \A d \in Clients : pc'[d] = IF d = c THEN l ELSE pc[d]
      BY <2>q, <2>t DEF Goto
    <3>2. hpa'.limit = "one" =>
            Developing(marks', Shared) \/ \E d \in Clients : At(d, "recover")'
      BY <2>q, <2>0, <3>1 DEF LimitKept, At
    <3> QED BY <2>q, <2>0, <3>1, <3>2 DEF LimitKept
  <2>1. CASE Begins(c)
    <3>1. PICK m \in past, name \in {"start", "end", "reset"}, k \in Modes, l \in {"mark", "rollback", "idle"} :
            Command(c, name, m, k, l) /\ (l = "mark" => ~Developing(m, Shared))
      BY <2>1, <2>t, CurrentModeType DEF Begins, StartDevMode, EndDevMode, DevReset, Modes
    <3>2. m = marks /\ AtRest
      BY <3>1, <2>0 DEF Command
    <3>3. l = "mark" => hpa.limit = "own"
      BY <3>1, <3>2, <2>0, <2>t DEF LimitKept, AtRest, At, Limits
    <3>4. /\ UNCHANGED <<hpa, marks>> /\ Goto(c, l)
          /\ \A d \in Clients : d # c => mode'[d] = mode[d] /\ cmd'[d] = cmd[d]
      BY <3>1, <1>t DEF Command, cluster, secret, TypeOK
    <3>5. \A d \in Clients : pc'[d] = IF d = c THEN l ELSE "idle"
      BY <3>2, <3>4, <2>t DEF Goto, AtRest, At
    <3>6. hpa.limit = "one" => Developing(marks, Shared)
      BY <3>2, <2>0 DEF LimitKept, AtRest, At
    <3> QED BY <3>3, <3>4, <3>5, <3>6, <2>0 DEF LimitKept
  <2>2. CASE SvcDevStarting(c)
    <3>1. /\ pc[c] = "mark" /\ UNCHANGED <<hpa, mode, cmd>>
          /\ \E l \in {"profile", "idle"} : Goto(c, l)
          /\ marks' = marks \/ marks' = Marked(meta[c], mode[c], Owner[c])
      BY <2>2 DEF SvcDevStarting, Update, cluster, secret, At
    <3>2. meta[c] = marks
      BY <3>1, <2>0 DEF Orderly, At, Progress
    <3>3. Developing(marks, Shared) => Developing(marks', Shared)
      BY <3>1, <3>2, <2>t, MarkEffects
    <3> QED BY <3>1, <3>3, <2>q DEF Labels
  <2>3. CASE UpdateSvcProfile(c) \/ ReadWorkload(c) \/ ReadWorkloadFails(c) \/ GenContainersFails(c)
    <3>1. PICK l \in {"hpa", "idle", "create", "annotate", "rollback"} :
            /\ UNCHANGED <<hpa, mode, cmd, marks>> /\ Goto(c, l)
            /\ pc[c] \in {"profile", "read", "patch", "create"} /\ (l = "hpa" => pc[c] = "profile")
      BY <2>3 DEF UpdateSvcProfile, ReadWorkload, ReadWorkloadFails, GenContainersFails, cluster,
         secret, At
    <3> QED BY <3>1, <2>q DEF Labels
  <2>4. CASE DisableHPA(c)
    <3>1. At(c, "hpa") /\ Goto(c, "read") /\ UNCHANGED <<mode, cmd, marks>>
      BY <2>4 DEF DisableHPA, secret
    <3>2. CASE UNCHANGED hpa
      BY <3>1, <3>2, <2>q DEF At, Labels
    <3>3. CASE HPADisabled(c) /\ hpa' = [limit |-> "one", saved |-> hpa.limit]
      <4>1. mode[c] = Shared
        BY <3>3, <2>f DEF HPADisabled, Duplicate
      <4>2. hpa.limit = "own" /\ Developing(marks, Shared)
        BY <3>1, <4>1, <2>0 DEF LimitKept, Orderly, Progress, At, Developing
      <4>3. \A d \in Clients : d # c => pc[d] = "idle"
        BY <3>1, <2>0 DEF Orderly, Alone, At
      <4>4. \A d \in Clients : pc'[d] = IF d = c THEN "read" ELSE "idle"
        BY <3>1, <4>3, <2>t DEF Goto
      <4>5. hpa'.saved = "own"
        BY <3>3, <4>2
      <4> QED BY <3>1, <4>2, <4>4, <4>5 DEF LimitKept
    <3> QED BY <2>4, <3>2, <3>3 DEF DisableHPA
  <2>5. CASE RecordOriginal(c) \/ ScalePatches(c) \/ PatchDevContainer(c) \/ CreateDuplicate(c)
    <3>1. PICK l \in {"scale", "patch", "complete", "rollback"} :
            /\ UNCHANGED <<hpa, mode, cmd, marks>> /\ Goto(c, l)
            /\ pc[c] \in {"annotate", "scale", "patch", "create"}
      BY <2>5 DEF RecordOriginal, ScalePatches, PatchDevContainer, CreateDuplicate, Call, secret, At
    <3> QED BY <3>1, <2>q DEF Labels
  <2>6. CASE SvcDevStartComplete(c)
    <3>1. pc[c] = "complete" /\ meta[c] = marks /\ marks.started[mode[c]] = NoUser
      BY <2>6, <2>0 DEF SvcDevStartComplete, Orderly, At, Progress
    <3>2. ~Fault({"unrolled"})
      BY <2>f
    <3>3. /\ Goto(c, "idle") /\ UNCHANGED <<hpa, mode, cmd>>
          /\ marks' = Completed(marks, mode[c], Owner[c])
      BY <2>6, <3>1, <3>2 DEF SvcDevStartComplete, Update, cluster
    <3>4. Developing(marks, Shared) => Developing(marks', Shared)
      BY <3>3, <2>t, MarkEffects
    <3> QED BY <3>1, <3>3, <3>4, <2>q DEF Labels
  <2>7. CASE DuplicateModeRollBack(c) \/ DeleteWorkload(c) \/ ApplyOriginal(c)
    <3>1. PICK l \in {"apply", "devEnd"} :
            /\ UNCHANGED <<hpa, mode, cmd, marks>> /\ Goto(c, l) /\ pc[c] # "recover"
            /\ pc[c] \in {"delete", "apply"} \/ mode[c] # Shared
      BY <2>7 DEF DuplicateModeRollBack, DeleteWorkload, ApplyOriginal, Call, secret, At, Duplicate
    <3> QED BY <3>1, <2>q DEF Labels
  <2>8. CASE ReadOriginal(c)
    <3>1. PICK l \in {"delete", "devEnd"} :
            UNCHANGED <<hpa, mode, cmd, marks>> /\ Goto(c, l) /\ pc[c] = "rollback"
      BY <2>8 DEF ReadOriginal, cluster, secret, At
    <3>2. cmd[c] = "end"
      BY <2>8, <2>f DEF ReadOriginal
    <3> QED BY <3>1, <3>2, <2>q DEF Labels
  <2>9. CASE SvcDevEnd(c)
    <3>1. /\ pc[c] = "devEnd" /\ UNCHANGED <<hpa, mode, cmd>> /\ meta[c] = marks
          /\ marks' = marks \/ marks' = Unmarked(marks, mode[c])
      BY <2>9, <2>0 DEF SvcDevEnd, Update, cluster, Orderly, At, Progress
    <3>2. CASE mode[c] = Shared
      <4>1. cmd[c] = "end"
        BY <3>1, <3>2, <2>0 DEF LimitKept
      <4>2. Goto(c, "recover")
        BY <2>9, <3>2, <4>1 DEF SvcDevEnd, Update, Duplicate
      <4>3. \A d \in Clients : pc'[d] = IF d = c THEN "recover" ELSE pc[d]
        BY <4>2, <2>t DEF Goto
      <4> QED BY <3>1, <4>3, <2>0 DEF LimitKept, At
    <3>3. CASE mode[c] # Shared
      <4>1. PICK l \in {"undo", "idle"} : Goto(c, l)
        BY <2>9, <3>3 DEF SvcDevEnd, Update, Duplicate
      <4>2. Developing(marks, Shared) => Developing(marks', Shared)
        BY <3>1, <3>3, <2>t, MarkEffects
      <4> QED BY <3>1, <3>3, <4>1, <4>2, <2>q DEF Labels
    <3> QED BY <3>2, <3>3
  <2>10. CASE RollBackDevStart(c)
    <3>1. /\ pc[c] = "undo" /\ UNCHANGED <<hpa, mode, cmd>> /\ Goto(c, "idle")
          /\ marks' = marks \/ marks' = Unmarked(marks, mode[c])
      BY <2>10, <2>0 DEF RollBackDevStart, Update, cluster, Orderly, At, Progress
    <3>2. mode[c] # Shared
      BY <3>1, <2>0 DEF LimitKept
    <3>3. Developing(marks, Shared) => Developing(marks', Shared)
      BY <3>1, <3>2, <2>t, MarkEffects
    <3> QED BY <3>1, <3>2, <3>3, <2>q DEF Labels
  <2>11. CASE RecoverHPA(c) \/ RecoverHPASkipped(c)
    <3>1. /\ pc[c] = "recover" /\ Goto(c, "idle") /\ UNCHANGED <<mode, cmd, marks>>
      BY <2>11 DEF RecoverHPA, RecoverHPASkipped, cluster, secret, At
    <3>2. workload # Gone /\ ~Fault({"unrecovered"})
      BY <3>1, <2>0, <2>f DEF Orderly, Progress, At
    <3>3. hpa'.limit = "own" /\ hpa'.saved = hpa.saved
      <4>1. CASE RecoverHPA(c)
        BY <4>1, <2>t DEF RecoverHPA, Limits
      <4>2. CASE RecoverHPASkipped(c)
        BY <4>2, <3>2, <2>0, <2>t DEF RecoverHPASkipped, LimitKept, Limits, cluster, None
      <4> QED BY <2>11, <4>1, <4>2
    <3>4. \A d \in Clients : pc'[d] = IF d = c THEN "idle" ELSE pc[d]
      BY <3>1, <2>t DEF Goto
    <3> QED BY <3>1, <3>3, <3>4, <2>0 DEF LimitKept
  <2>12. CASE Killed(c)
    <3>1. /\ Goto(c, "idle") /\ UNCHANGED <<hpa, mode, cmd, marks>> /\ pc[c] # "recover"
      BY <2>12 DEF Killed, cluster, secret, At
    <3> QED BY <3>1, <2>q DEF Labels
  <2> QED BY <1>3, <2>1, <2>2, <2>3, <2>4, <2>5, <2>6, <2>7, <2>8, <2>9, <2>10, <2>11, <2>12
          DEF StartStep, EndStep
<1> QED BY <1>1, <1>2, <1>3 DEF Next

(* Once its replace dev mode is over the HPA of a workload has its owner's *)
(* limits back, as long as commands come one after the other on the newest *)
(* marks and every replace dev mode is ended by a dev end that gets to the *)
(* recovery.                                                               *)
THEOREM HPAStaysRecovered == Spec => []HPAIsRecovered
<1>1. Init => LimitInv
  BY DEF Init, LimitInv, LimitKept, At, None
<1>2. OrderlyInv /\ LimitInv /\ [Next]_vars => LimitInv'
  BY NextLimitInv
<1>3. TypeOK /\ LimitInv => HPAIsRecovered
  BY DEF TypeOK, LimitInv, LimitKept, HPAIsRecovered, AtRest, At, Limits
<1> QED BY <1>1, <1>2, <1>3, TypeCorrect, OrderlyInvariance, PTL DEF Spec

(* Only a dev end recovers the HPA. *)
RecoversAtEnd == \A c \in Clients : pc[c] = "recover" => cmd[c] = "end"

LEMMA OnlyEndRecovers == Spec => []RecoversAtEnd
<1>1. Init => RecoversAtEnd
  BY DEF Init, RecoversAtEnd
<1>2. TypeOK /\ RecoversAtEnd /\ [Next]_vars => RecoversAtEnd'
  <2> SUFFICES ASSUME TypeOK, RecoversAtEnd, [Next]_vars, NEW d \in Clients, pc'[d] = "recover"
               PROVE  cmd'[d] = "end"
    BY DEF RecoversAtEnd
  <2>1. CASE UNCHANGED vars \/ Finished
    BY <2>1 DEF Finished, vars, RecoversAtEnd
  <2>2. ASSUME NEW c \in Clients, NEW l \in Labels \ {"recover"}, Goto(c, l),
               cmd' = cmd \/ \E name : cmd' = [cmd EXCEPT ![c] = name]
        PROVE  cmd'[d] = "end"
    BY <2>2 DEF Goto, TypeOK, RecoversAtEnd
  <2>3. ASSUME NEW c \in Clients, Begins(c) \/ StartStep(c) PROVE cmd'[d] = "end"
    <3>1. cmd' = cmd \/ \E name : cmd' = [cmd EXCEPT ![c] = name]
      BY <2>3 DEF Begins, StartDevMode, EndDevMode, DevReset, Command, StartStep, SvcDevStarting, Update, UpdateSvcProfile,
         DisableHPA, ReadWorkload, ReadWorkloadFails, RecordOriginal, ScalePatches,
         PatchDevContainer, GenContainersFails, CreateDuplicate, SvcDevStartComplete, Call
    <3>2. \E l \in Labels \ {"recover"} : Goto(c, l)
      BY <2>3 DEF Begins, StartDevMode, EndDevMode, DevReset, Command, StartStep, SvcDevStarting, Update, UpdateSvcProfile,
         DisableHPA, ReadWorkload, ReadWorkloadFails, RecordOriginal, ScalePatches,
         PatchDevContainer, GenContainersFails, CreateDuplicate, SvcDevStartComplete, Call, Labels
    <3> QED BY <2>2, <3>1, <3>2
  <2>4. ASSUME NEW c \in Clients, EndStep(c), ~SvcDevEnd(c) PROVE cmd'[d] = "end"
    <3>1. cmd' = cmd \/ \E name : cmd' = [cmd EXCEPT ![c] = name]
      BY <2>4 DEF EndStep, DuplicateModeRollBack, ReadOriginal,
         DeleteWorkload, ApplyOriginal, RollBackDevStart, RecoverHPA, RecoverHPASkipped, Update, Call
    <3>2. \E l \in Labels \ {"recover"} : Goto(c, l)
      BY <2>4 DEF EndStep, DuplicateModeRollBack, ReadOriginal,
         DeleteWorkload, ApplyOriginal, RollBackDevStart, RecoverHPA, RecoverHPASkipped, Update, Call,
         Labels
    <3> QED BY <2>2, <3>1, <3>2
  <2>5. ASSUME NEW c \in Clients, SvcDevEnd(c) PROVE cmd'[d] = "end"
    <3>1. cmd' = cmd
      BY <2>5 DEF SvcDevEnd, Update
    <3>2. CASE cmd[c] = "end"
      <4>1. \E l : Goto(c, l)
        BY <2>5 DEF SvcDevEnd, Update
      <4> QED BY <3>1, <3>2, <4>1 DEF Goto, TypeOK, RecoversAtEnd
    <3>3. CASE cmd[c] # "end"
      <4>1. \E l \in {"undo", "idle"} : Goto(c, l)
        BY <2>5, <3>3 DEF SvcDevEnd, Update
      <4> QED BY <2>2, <3>1, <4>1 DEF Labels
    <3> QED BY <3>2, <3>3
  <2>6. ASSUME NEW c \in Clients, Killed(c) PROVE cmd'[d] = "end"
    BY <2>2, <2>6 DEF Killed, Labels
  <2> QED BY <2>1, <2>3, <2>4, <2>5, <2>6 DEF Next
<1> QED BY <1>1, <1>2, TypeCorrect, PTL DEF Spec

(* A dev start that gives up leaves no mark of its own, whatever the other *)
(* processes write to the marks meanwhile: either its rollback's Update()  *)
(* fails, or the marks it writes have none (the deferred function of       *)
(* enterDevMode in dev_start.go).                                          *)
THEOREM FailedStartUnmarks == Spec => FailedStartLeavesNoMark
<1> DEFINE A == \A c \in Clients :
                  (/\ cmd[c] = "start" /\ pc[c] \notin {"idle", "mark", "profile"} /\ pc'[c] = "idle"
                   /\ kills' = kills /\ faults' = faults)
                  => marks'.starting[mode[c]] # Owner[c]
<1>1. TypeOK /\ RecoversAtEnd /\ [Next]_vars => [A]_vars
  <2> SUFFICES ASSUME TypeOK, RecoversAtEnd, [Next]_vars, NEW c \in Clients, cmd[c] = "start",
                      pc[c] \notin {"idle", "mark", "profile"}, pc'[c] = "idle",
                      kills' = kills, faults' = faults, ~UNCHANGED vars
               PROVE  marks'.starting[mode[c]] # Owner[c]
    OBVIOUS
  <2>t. /\ Owner[c] # NoUser /\ Owner[c] \in Users /\ mode[c] \in Modes /\ meta[c] \in MarkSets
        /\ \A why : ~Fault(why)
    BY DevModeAssumption DEF TypeOK, Fault
  <2>1. PICK d \in Clients : Begins(d) \/ StartStep(d) \/ EndStep(d) \/ Killed(d)
    BY DEF Next, Finished, vars
  <2>2. d = c
    <3>1. \E l : Goto(d, l)
      BY <2>1 DEF Begins, StartStep, StartDevMode, Command, SvcDevStarting, Update, UpdateSvcProfile,
         DisableHPA, ReadWorkload, ReadWorkloadFails, RecordOriginal, ScalePatches,
         PatchDevContainer, GenContainersFails, CreateDuplicate, SvcDevStartComplete, Call,
         EndStep, EndDevMode, DevReset, DuplicateModeRollBack, ReadOriginal,
         DeleteWorkload, ApplyOriginal, SvcDevEnd, RollBackDevStart, RecoverHPA, RecoverHPASkipped,
         Killed
    <3> QED BY <3>1 DEF Goto, TypeOK
  <2>3. ~Killed(c) /\ ~Begins(c)
    BY DEF Killed, TypeOK, Begins, StartDevMode, EndDevMode, DevReset, Command, At
  <2>4. CASE StartStep(c)
    <3>1. SvcDevStartComplete(c)
      BY <2>4 DEF StartStep, SvcDevStarting, Update, UpdateSvcProfile,
         DisableHPA, ReadWorkload, ReadWorkloadFails, RecordOriginal, ScalePatches,
         PatchDevContainer, GenContainersFails, CreateDuplicate, Call, Goto, At, TypeOK, Duplicate
    <3>2. marks' = Completed(meta[c], mode[c], Owner[c])
      BY <2>t, <3>1 DEF SvcDevStartComplete, Update, Goto, TypeOK
    <3> QED BY <2>t, <3>2 DEF Completed, MarkSets
  <2>5. CASE EndStep(c)
    <3>1. RollBackDevStart(c)
      <4>1. ~SvcDevEnd(c)
        BY DEF SvcDevEnd, Update, Goto, TypeOK
      <4>2. ~RecoverHPA(c) /\ ~RecoverHPASkipped(c)
        BY DEF RecoverHPA, RecoverHPASkipped, RecoversAtEnd, At
      <4> QED BY <2>5, <4>1, <4>2 DEF EndStep, DuplicateModeRollBack,
             ReadOriginal, DeleteWorkload, ApplyOriginal, Call, Goto, At, TypeOK
    <3>2. marks' = Unmarked(meta[c], mode[c])
      BY <2>t, <3>1 DEF RollBackDevStart, Update
    <3> QED BY <2>t, <3>2 DEF Unmarked, MarkSets
  <2> QED BY <2>1, <2>2, <2>3, <2>4, <2>5
<1> QED BY <1>1, TypeCorrect, OnlyEndRecovers, PTL DEF Spec, FailedStartLeavesNoMark

(* Commands one after the other on the newest marks, killed at any step    *)
(* and with any call but those of a rollback and the last of a start       *)
(* failing, never leave a workload in dev mode, or a duplicate of it, that *)
(* no mark speaks of.                                                      *)
THEOREM UnmarkedStaysPlain == Spec => []UnmarkedIsPlain
<1>1. OrderlyInv => UnmarkedIsPlain
  BY DEF OrderlyInv, Orderly, Tidy, UnmarkedIsPlain
<1> QED BY <1>1, OrderlyInvariance, PTL

(* Nor do they lose the user's definition of the workload, except between  *)
(* the delete and the apply of a rollback.                                 *)
THEOREM OriginalIsKept == Spec => OriginalSurvives
<1> DEFINE A == InOrder' /\ Recoverable /\ ~Recoverable' =>
                  \E c \in Clients : At(c, "delete") /\ workload' = Gone
<1>1. OrderlyInv /\ OrderlyInv' /\ [Next]_vars => [A]_vars
  <2> SUFFICES ASSUME OrderlyInv, OrderlyInv', [Next]_vars,
                      InOrder', Recoverable, ~Recoverable', ~UNCHANGED vars
               PROVE  \E c \in Clients : At(c, "delete") /\ workload' = Gone
    OBVIOUS
  <2>1. Tidy'
    BY DEF OrderlyInv, Orderly
  <2>2. workload' = Gone /\ workload # Gone
    BY <2>1, SpecTypes DEF Tidy, Recoverable
  <2>3. PICK c \in Clients : Begins(c) \/ StartStep(c) \/ EndStep(c) \/ Killed(c)
    BY <2>2 DEF Next, Finished, vars, cluster
  <2>4. workload \in Manifests /\ Orderly
    BY <2>3, CausesGrow DEF OrderlyInv, TypeOK, InOrder
  <2>5. CASE StartStep(c)
    <3>1. CASE RecordOriginal(c) \/ ScalePatches(c) \/ PatchDevContainer(c)
      <4>2. workload.spec # None
        BY <2>4, <2>2, SpecTypes DEF Orderly, Tidy
      <4>3. workload'.spec # None
        BY <3>1, <4>2, <2>2, <2>4, SpecTypes
           DEF RecordOriginal, ScalePatches, PatchDevContainer, Call, Manifests
      <4> QED BY <4>3, <2>2 DEF Gone
    <3>2. CASE ~(RecordOriginal(c) \/ ScalePatches(c) \/ PatchDevContainer(c))
      BY <2>5, <3>2, <2>2 DEF StartStep, SvcDevStarting, Update,
         UpdateSvcProfile, DisableHPA, ReadWorkload, ReadWorkloadFails, GenContainersFails,
         CreateDuplicate, SvcDevStartComplete, cluster
    <3> QED BY <3>1, <3>2
  <2>6. CASE EndStep(c) /\ ~ApplyOriginal(c)
    BY <2>6, <2>2 DEF EndStep, DuplicateModeRollBack,
       ReadOriginal, DeleteWorkload, SvcDevEnd, RollBackDevStart, Update, RecoverHPA,
       RecoverHPASkipped, cluster
  <2>7. CASE ApplyOriginal(c)
    BY <2>7, <2>2, <2>4 DEF ApplyOriginal, Orderly, Progress, At
  <2>8. CASE Killed(c) \/ Begins(c)
    BY <2>8, <2>2 DEF Killed, Begins, StartDevMode, EndDevMode, DevReset, Command, cluster
  <2> QED BY <2>3, <2>5, <2>6, <2>7, <2>8
<1> QED BY <1>1, OrderlyInvariance, PTL DEF Spec, OriginalSurvives
=============================================================================
