------------------------ MODULE ProfileInstallProofs ------------------------
(***************************************************************************)
(* Proofs about ProfileInstall, for any installers, any Bundles and any    *)
(* number of crashes.                                                      *)
(*                                                                         *)
(* The first part is about the store and the installers; what extracts and *)
(* what parses stays opaque in it.  The argument: the journal keeps a      *)
(* snapshot of names and trees, so what holds of the final name in memory  *)
(* is shown of the final name on disk as well, and a crash only exchanges  *)
(* the one for the other.  The contents that a crash leaves of a tree are  *)
(* the synced ones, and a tree that was sealed has everything synced.      *)
(*                                                                         *)
(* The filter then is the policy because the compiler is right             *)
(* (SystemCallPolicyProofs).                                               *)
(*                                                                         *)
(* The second part is about root filesystems: what Build's checks let pass *)
(* is a closed set of entries, which can be put in order; in that order it *)
(* unpacks to its own tree; and in that tree a walk by segments comes, for *)
(* every link that Build followed by name, to the entry that Build came    *)
(* to.                                                                     *)
(***************************************************************************)
EXTENDS ProfileInstall, SystemCallPolicyProofs, FiniteSetTheorems, TLAPS

(* What a sealed tree holds.                                               *)
Whole == {"components", "rootfs"}

(* Tree i is the approved Bundle's and would survive a crash.              *)
Ready(i) ==
    /\ copy[i] = approved
    /\ approved \in Parseable \cap Extractable
    /\ Whole \subseteq data[i]

(* What an installer has made so far.                                      *)
StageOK(i) ==
    /\ pc[i] \in {"start", "staged"} => tree[i] = {} /\ data[i] = {}
    /\ pc[i] # "start" => approved # None
    /\ pc[i] = "copied" => copy[i] = approved /\ tree[i] = {"bundle.tar"}
    /\ pc[i] = "extracting" =>
          /\ copy[i] = approved /\ approved \in Parseable
          /\ tree[i] = {"bundle.tar", "components"} /\ "components" \in data[i]
    /\ pc[i] = "extracted" => tree[i] = Items /\ Ready(i)
    /\ pc[i] \in {"sealed", "comparing"} \cup Publishing => tree[i] = Whole /\ Ready(i)
    /\ pc[i] \in Publishing => final = i
    /\ pc[i] \in {"identitySynced", "stagingSynced"} => disk.final = i
    /\ pc[i] \notin Publishing \cup {"start", "done"} => i \in staged

(* The name of the identity, in memory and on disk.                        *)
StoreOK ==
    /\ final # None =>
          /\ pc[final] \in Publishing \cup {"done"}
          /\ tree[final] = Whole /\ Ready(final)
    /\ disk.final # None =>
          /\ pc[disk.final] \in Publishing \cup {"cleanup", "done"}
          /\ disk.tree[disk.final] = Whole /\ Ready(disk.final)
          /\ disk.final \notin disk.staged

(* A tree that was compared is still the final one, or its installer took  *)
(* it back.                                                                *)
Stands(i) ==
    /\ compared[i] \in Installers
    /\ crashes = 0 => final = compared[i] \/ result[compared[i]] = "failed"

(* What an installer reports.                                              *)
ResultOK(i) ==
    /\ pc[i] \notin {"cleanup", "done"} => result[i] = None
    /\ result[i] = "published" => pc[i] = "done" /\ final = i /\ disk.final = i
    /\ crashes = 0 /\ result[i] \in {"failed", "rejected"} => final # i
    /\ pc[i] = "comparing" \/ result[i] = "reinstalled" => Stands(i)

(* What the inductive invariant says of types.                             *)
Types ==
    /\ source \in Digests \ {0}
    /\ output \in {source, None} /\ approved \in {output, None}
    /\ final \in Installers \cup {None}
    /\ staged \in SUBSET Installers /\ final \notin staged
    /\ tree \in [Installers -> SUBSET Items]
    /\ data \in [Installers -> SUBSET Items]
    /\ disk \in [final : Installers \cup {None}, staged : SUBSET Installers,
                 tree : [Installers -> SUBSET Items]]
    /\ copy \in [Installers -> {source, 0, None}]
    /\ pc \in [Installers -> Stages]
    /\ result \in [Installers -> Results \cup {None}]
    /\ compared \in [Installers -> Installers \cup {None}]
    /\ filter \in {approved, None}
    /\ filter # None => filter \in Parseable
    /\ crashes \in 0..MaxCrashes

(* The inductive invariant.                                                *)
InstallInv ==
    /\ Types
    /\ StoreOK
    /\ \A i \in Installers : StageOK(i) /\ ResultOK(i)

(* Nothing is staged, published or reported at first.                      *)
LEMMA InstallInit == Init => InstallInv
<1> SUFFICES ASSUME Init PROVE InstallInv
  OBVIOUS
<1>1. Types
  BY InstallAssumption DEF Init, Types, Stages, Publishing
<1>2. StoreOK
  BY DEF Init, StoreOK
<1>3. ASSUME NEW i \in Installers PROVE StageOK(i) /\ ResultOK(i)
  BY InstallAssumption DEF Init, StageOK, ResultOK, Publishing, Results
<1> QED
  BY <1>1, <1>2, <1>3 DEF InstallInv

(* A step of installer i: what it must show about itself, given that it    *)
(* only touches its own tree and name, and either leaves the disk alone or *)
(* commits everything.                                                     *)
LEMMA InstallerStep ==
    ASSUME InstallInv, NEW i \in Installers, Types',
           UNCHANGED <<source, output, approved, filter, crashes>>,
           \A j \in Installers \ {i} :
               /\ tree'[j] = tree[j] /\ data'[j] = data[j] /\ copy'[j] = copy[j]
               /\ pc'[j] = pc[j] /\ result'[j] = result[j] /\ compared'[j] = compared[j]
               /\ j \in staged => j \in staged',
           \/ disk' = disk
           \/ disk' = [final |-> final', staged |-> staged', tree |-> tree'],
           \/ final' = final
           \/ final = None /\ final' = i
           \/ final = i /\ final' = None /\ result'[i] = "failed",
           result[i] = "failed" => result'[i] = "failed",
           final' = i => pc'[i] \in Publishing \cup {"done"} /\ tree'[i] = Whole /\ Ready(i)',
           disk.final = i => pc'[i] \in Publishing \cup {"cleanup", "done"} /\ Ready(i)',
           result[i] = "published" => result'[i] = "published",
           StageOK(i)', ResultOK(i)'
    PROVE  InstallInv'
<1>1. Types /\ StoreOK /\ \A j \in Installers : StageOK(j) /\ ResultOK(j)
  BY DEF InstallInv
<1>2. ASSUME NEW j \in Installers \ {i}, Ready(j) PROVE Ready(j)'
  BY <1>2 DEF Ready
<1>3. StoreOK'
  <2>1. final' # None => /\ pc'[final'] \in Publishing \cup {"done"}
                         /\ tree'[final'] = Whole /\ Ready(final)'
    <3>1. CASE final' = i
      BY <3>1 DEF Ready
    <3>2. CASE final' # i /\ final' # None
      <4>1. final' = final /\ final \in Installers \ {i}
        BY <1>1, <3>2 DEF Types
      <4>2. Ready(final) /\ pc[final] \in Publishing \cup {"done"} /\ tree[final] = Whole
        BY <1>1, <3>2, <4>1 DEF StoreOK
      <4> QED
        BY <4>1, <4>2 DEF Ready
    <3> QED
      BY <3>1, <3>2
  <2>2. CASE disk' = disk
    <3>1. CASE disk.final = i
      BY <1>1, <2>1, <2>2, <3>1 DEF StoreOK, Ready
    <3>2. CASE disk.final # i /\ disk.final # None
      <4>1. disk.final \in Installers \ {i}
        BY <1>1, <3>2 DEF Types
      <4>2. /\ Ready(disk.final) /\ pc[disk.final] \in Publishing \cup {"cleanup", "done"}
            /\ disk.tree[disk.final] = Whole /\ disk.final \notin disk.staged
        BY <1>1, <3>2 DEF StoreOK
      <4> QED
        BY <2>1, <2>2, <4>1, <4>2 DEF StoreOK, Ready
    <3>3. CASE disk.final = None
      BY <2>1, <2>2, <3>3 DEF StoreOK
    <3> QED
      BY <3>1, <3>2, <3>3
  <2>3. CASE disk' = [final |-> final', staged |-> staged', tree |-> tree']
    <3>1. disk'.final = final' /\ disk'.staged = staged' /\ disk'.tree = tree' /\ final' \notin staged'
      BY <2>3 DEF Types
    <3> QED
      BY <2>1, <3>1 DEF StoreOK, Ready
  <2> QED
    BY <2>2, <2>3
<1>4. ASSUME NEW j \in Installers, j # i PROVE StageOK(j)' /\ ResultOK(j)'
  <2>1. StageOK(j) /\ ResultOK(j) /\ j \in Installers \ {i}
    BY <1>1, <1>4
  <2>2. final = j => final' = j
    BY <1>4, <1>1, InstallAssumption DEF Types
  <2>3. final' = j => final = j
    BY <1>4, <2>1, InstallAssumption
  <2>4. disk'.final = disk.final \/ disk'.final = final'
    OBVIOUS
  <2>5. StageOK(j)'
    BY <1>2, <2>1, <2>2, <2>4 DEF StageOK, Publishing, Ready
  <2>6. Stands(j) => Stands(j)'
    BY <1>1, <2>1, InstallAssumption DEF Stands, Types
  <2>7. ResultOK(j)'
    BY <2>1, <2>2, <2>3, <2>4, <2>6 DEF ResultOK
  <2> QED
    BY <2>5, <2>7
<1> QED
  BY <1>1, <1>3, <1>4 DEF InstallInv

(* An installer's own steps up to the rename.                              *)
LEMMA StagingStep ==
    ASSUME InstallInv, NEW i \in Installers,
           \/ Prepare(i) \/ PrepareFails(i) \/ copyApprovedBundle(i) \/ extractApprovedBundle(i)
           \/ InstallRootFS(i) \/ Seal(i)
    PROVE  InstallInv'
<1>0. /\ Types /\ StageOK(i) /\ ResultOK(i) /\ StoreOK
      /\ final = i => pc[i] \in Publishing \cup {"done"} /\ tree[i] = Whole /\ Ready(i)
      /\ disk.final = i => pc[i] \in Publishing \cup {"cleanup", "done"} /\ Ready(i)
  BY InstallAssumption DEF InstallInv, StoreOK
<1> USE InstallAssumption DEF StageOK, ResultOK, Ready, Stands, Goto, Stop, store, Publishing
<1>1. CASE Prepare(i)
  <2>1. Types'
    BY <1>0, <1>1 DEF Prepare, Types, Stages
  <2>2. StageOK(i)' /\ ResultOK(i)'
    BY <1>0, <1>1 DEF Prepare, Types
  <2> QED
    BY <1>0, <1>1, <2>1, <2>2, InstallerStep DEF Prepare
<1>2. CASE PrepareFails(i)
  <2>1. Types'
    BY <1>0, <1>2 DEF PrepareFails, Results, Types, Stages
  <2>2. StageOK(i)' /\ ResultOK(i)'
    BY <1>0, <1>2 DEF PrepareFails, Results, Types
  <2> QED
    BY <1>0, <1>2, <2>1, <2>2, InstallerStep DEF PrepareFails, Results
<1>3. CASE copyApprovedBundle(i)
  <2>1. PICK bundle \in {output, 0} :
           /\ pc[i] = "staged" /\ copy' = [copy EXCEPT ![i] = bundle]
           /\ tree' = [tree EXCEPT ![i] = tree[i] \cup {"bundle.tar"}]
           /\ data' = [data EXCEPT ![i] = data[i] \cup {"bundle.tar"}]
           /\ IF bundle = approved THEN Goto(i, "copied") ELSE Stop(i, "rejected")
           /\ UNCHANGED <<source, output, approved, final, staged, disk, filter, crashes>>
    BY <1>3 DEF copyApprovedBundle, Write
  <2>2. final # i /\ disk.final # i /\ result[i] = None /\ result[i] \notin {"failed", "published"}
    BY <1>0, <2>1 DEF Types, Results
  <2>3. CASE bundle = approved
    <3>1. pc' = [pc EXCEPT ![i] = "copied"] /\ UNCHANGED <<result, compared>>
      BY <1>0, <2>1, <2>3
    <3>2. Types'
      BY <1>0, <2>1, <3>1 DEF Types, Stages, Results, Items
    <3>3. StageOK(i)' /\ ResultOK(i)'
      BY <1>0, <2>1, <2>3, <3>1 DEF Types, Items, Whole
    <3> HIDE DEF StageOK, ResultOK, Ready, Stands
    <3> QED
      BY <1>0, <2>1, <2>2, <3>1, <3>2, <3>3, InstallerStep
  <2>4. CASE bundle # approved
    <3>1. /\ pc' = [pc EXCEPT ![i] = "cleanup"] /\ result' = [result EXCEPT ![i] = "rejected"]
          /\ compared' = compared
      BY <1>0, <2>1, <2>4
    <3>2. Types'
      BY <1>0, <2>1, <3>1 DEF Types, Stages, Results, Items
    <3>3. StageOK(i)' /\ ResultOK(i)'
      BY <1>0, <2>1, <2>4, <3>1 DEF Types, Items, Whole
    <3> HIDE DEF StageOK, ResultOK, Ready, Stands
    <3> QED
      BY <1>0, <2>1, <2>2, <3>1, <3>2, <3>3, InstallerStep
  <2> QED
    BY <2>3, <2>4
<1>4. CASE extractApprovedBundle(i)
  <2>1. /\ pc[i] = "copied"
        /\ IF copy[i] \in Parseable
           THEN /\ tree' = [tree EXCEPT ![i] = tree[i] \cup {"components"}]
                /\ data' = [data EXCEPT ![i] = data[i] \cup {"components"}]
                /\ Goto(i, "extracting")
           ELSE Stop(i, "rejected") /\ UNCHANGED <<tree, data>>
        /\ UNCHANGED <<source, output, approved, final, staged, disk, copy, filter, crashes>>
    BY <1>4 DEF extractApprovedBundle, Write
  <2>2. final # i /\ disk.final # i /\ result[i] = None /\ result[i] \notin {"failed", "published"}
    BY <1>0, <2>1 DEF Types, Results
  <2>3. CASE copy[i] \in Parseable
    <3>1. /\ pc' = [pc EXCEPT ![i] = "extracting"] /\ UNCHANGED <<result, compared>>
          /\ tree' = [tree EXCEPT ![i] = tree[i] \cup {"components"}]
          /\ data' = [data EXCEPT ![i] = data[i] \cup {"components"}]
      BY <1>0, <2>1, <2>3
    <3>2. Types'
      BY <1>0, <2>1, <3>1 DEF Types, Stages, Results, Items
    <3>3. StageOK(i)' /\ ResultOK(i)'
      BY <1>0, <2>1, <2>3, <3>1 DEF Types, Items, Whole
    <3> QED
      BY <1>0, <2>1, <2>2, <3>1, <3>2, <3>3, InstallerStep
  <2>4. CASE copy[i] \notin Parseable
    <3>1. /\ pc' = [pc EXCEPT ![i] = "cleanup"] /\ result' = [result EXCEPT ![i] = "rejected"]
          /\ UNCHANGED <<compared, tree, data>>
      BY <1>0, <2>1, <2>4
    <3>2. Types'
      BY <1>0, <2>1, <3>1 DEF Types, Stages, Results, Items
    <3>3. StageOK(i)' /\ ResultOK(i)'
      BY <1>0, <2>1, <2>4, <3>1 DEF Types, Items, Whole
    <3> QED
      BY <1>0, <2>1, <2>2, <3>1, <3>2, <3>3, InstallerStep
  <2> QED
    BY <2>3, <2>4
<1>5. CASE InstallRootFS(i)
  <2>1. /\ pc[i] = "extracting"
        /\ IF copy[i] \in Extractable
           THEN makeDirectoriesReadOnly(i) /\ Goto(i, "extracted")
           ELSE Stop(i, "rejected") /\ UNCHANGED <<final, staged, tree, data, disk>>
        /\ UNCHANGED <<source, output, approved, copy, filter, crashes>>
    BY <1>5 DEF InstallRootFS
  <2>2. final # i /\ disk.final # i /\ result[i] = None /\ result[i] \notin {"failed", "published"}
    BY <1>0, <2>1 DEF Types, Results
  <2>3. CASE copy[i] \in Extractable
    <3>1. /\ pc' = [pc EXCEPT ![i] = "extracted"] /\ UNCHANGED <<result, compared, final, staged>>
          /\ tree' = [tree EXCEPT ![i] = tree[i] \cup {"rootfs"}]
          /\ data' = [data EXCEPT ![i] = data[i] \cup {"rootfs"}]
          /\ disk' = [final |-> final', staged |-> staged', tree |-> tree']
      BY <1>0, <2>1, <2>3 DEF makeDirectoriesReadOnly, Write, Commit
    <3>2. Types'
      BY <1>0, <2>1, <3>1 DEF Types, Stages, Results, Items
    <3>3. StageOK(i)' /\ ResultOK(i)'
      BY <1>0, <2>1, <2>3, <3>1 DEF Types, Items, Whole
    <3> HIDE DEF StageOK, ResultOK, Ready, Stands
    <3> QED
      BY <1>0, <2>1, <2>2, <3>1, <3>2, <3>3, InstallerStep
  <2>4. CASE copy[i] \notin Extractable
    <3>1. /\ pc' = [pc EXCEPT ![i] = "cleanup"] /\ result' = [result EXCEPT ![i] = "rejected"]
          /\ UNCHANGED <<compared, final, staged, tree, data, disk>>
      BY <1>0, <2>1, <2>4
    <3>2. Types'
      BY <1>0, <2>1, <3>1 DEF Types, Stages, Results, Items
    <3>3. StageOK(i)' /\ ResultOK(i)'
      BY <1>0, <2>1, <2>4, <3>1 DEF Types, Items, Whole
    <3> HIDE DEF StageOK, ResultOK, Ready, Stands
    <3> QED
      BY <1>0, <2>1, <2>2, <3>1, <3>2, <3>3, InstallerStep
  <2> QED
    BY <2>3, <2>4
<1>6. CASE Seal(i)
  <2>1. Types'
    BY <1>0, <1>6 DEF Seal, Commit, Items, Whole, Types, Stages
  <2>2. StageOK(i)' /\ ResultOK(i)'
    BY <1>0, <1>6 DEF Seal, Commit, Items, Whole, Types
  <2> QED
    BY <1>0, <1>6, <2>1, <2>2, InstallerStep, SMTT(30) DEF Seal, Commit, Items, Whole
<1> QED
  BY <1>1, <1>2, <1>3, <1>4, <1>5, <1>6

(* Publication, comparison with an identity that is there, and cleanup.    *)
LEMMA PublishingStep ==
    ASSUME InstallInv, NEW i \in Installers,
           \/ Rename(i) \/ OpenExisting(i) \/ installedTreesEqual(i)
           \/ SyncIdentities(i) \/ SyncStaging(i) \/ Return(i)
           \/ Rollback(i) \/ RollbackFails(i) \/ Fail(i) \/ Cleanup(i) \/ CleanupFails(i)
    PROVE  InstallInv'
<1>0. /\ Types /\ StageOK(i) /\ ResultOK(i) /\ StoreOK
      /\ final = i => pc[i] \in Publishing \cup {"done"} /\ tree[i] = Whole /\ Ready(i)
      /\ disk.final = i => pc[i] \in Publishing \cup {"cleanup", "done"} /\ Ready(i)
  BY InstallAssumption DEF InstallInv, StoreOK
<1> USE InstallAssumption DEF StageOK, ResultOK, Ready, Stands, Goto, Stop, store, Publishing
<1>1. CASE Rename(i)
  <2>1. /\ pc[i] = "sealed" /\ final = None /\ final' = i /\ staged' = staged \ {i}
        /\ pc' = [pc EXCEPT ![i] = "renamed"]
        /\ UNCHANGED <<source, output, approved, tree, data, disk, copy, result, compared, filter, crashes>>
    BY <1>1 DEF Rename
  <2>2. Types'
    BY <1>0, <2>1 DEF Types, Stages
  <2>3. StageOK(i)'
    BY <1>0, <2>1 DEF Types
  <2>4. ResultOK(i)'
    BY <1>0, <2>1 DEF Types, Results
  <2> QED
    BY <1>0, <2>1, <2>2, <2>3, <2>4, InstallerStep
<1>2. CASE OpenExisting(i)
  <2>1. /\ pc[i] = "sealed"
        /\ IF final = None THEN Stop(i, "failed")
           ELSE /\ compared' = [compared EXCEPT ![i] = final]
                /\ pc' = [pc EXCEPT ![i] = "comparing"]
                /\ UNCHANGED result
        /\ UNCHANGED <<source, output, approved, final, staged, tree, data, disk, copy, filter, crashes>>
    BY <1>2 DEF OpenExisting
  <2>2. CASE final = None
    <3>1. /\ pc' = [pc EXCEPT ![i] = "cleanup"] /\ result' = [result EXCEPT ![i] = "failed"]
          /\ compared' = compared
      BY <1>0, <2>1, <2>2
    <3>2. Types'
      BY <1>0, <2>1, <3>1 DEF Types, Stages, Results, Items
    <3>3. StageOK(i)' /\ ResultOK(i)'
      BY <1>0, <2>1, <2>2, <3>1 DEF Types, Items, Whole
    <3> QED
      BY <1>0, <2>1, <3>1, <3>2, <3>3, InstallerStep
  <2>3. CASE final # None
    <3>1. /\ compared' = [compared EXCEPT ![i] = final] /\ pc' = [pc EXCEPT ![i] = "comparing"]
          /\ result' = result
      BY <1>0, <2>1, <2>3
    <3>2. Types'
      BY <1>0, <2>1, <3>1 DEF Types, Stages, Results, Items
    <3>3. StageOK(i)' /\ ResultOK(i)'
      BY <1>0, <2>1, <2>3, <3>1 DEF Types, Items, Whole
    <3> QED
      BY <1>0, <2>1, <3>1, <3>2, <3>3, InstallerStep
  <2> QED
    BY <2>2, <2>3
<1>3. CASE installedTreesEqual(i)
  <2>1. /\ pc[i] = "comparing" /\ final # i /\ pc' = [pc EXCEPT ![i] = "cleanup"] /\ compared' = compared
        /\ UNCHANGED <<source, output, approved, final, staged, tree, data, disk, copy, filter, crashes>>
    BY <1>0, <1>3 DEF installedTreesEqual, Types
  <2>2. final # i /\ disk.final # i /\ result[i] = None /\ result[i] \notin {"failed", "published"}
    BY <1>0, <2>1 DEF Types, Results
  <2>3. CASE tree[compared[i]] = tree[i] /\ copy[compared[i]] = copy[i]
    <3>1. result' = [result EXCEPT ![i] = "reinstalled"]
      BY <1>3, <2>3 DEF installedTreesEqual
    <3>2. Types'
      BY <1>0, <2>1, <3>1 DEF Types, Stages, Results, Items
    <3>3. StageOK(i)'
      BY <1>0, <2>1, <3>1 DEF Types
    <3>4. Stands(i) /\ (compared[i] # i \/ crashes # 0)
      BY <1>0, <2>1, <2>2 DEF Results
    <3>5. Stands(i)'
      BY <1>0, <2>1, <3>1, <3>4 DEF Types
    <3>6. ResultOK(i)'
      BY <1>0, <2>1, <2>2, <3>1, <3>5 DEF Types
    <3> QED
      BY <1>0, <2>1, <2>2, <3>1, <3>2, <3>3, <3>6, InstallerStep
  <2>4. CASE ~(tree[compared[i]] = tree[i] /\ copy[compared[i]] = copy[i])
    <3>1. result' = [result EXCEPT ![i] = "failed"]
      BY <1>3, <2>4 DEF installedTreesEqual
    <3>2. Types'
      BY <1>0, <2>1, <3>1 DEF Types, Stages, Results, Items
    <3>3. StageOK(i)' /\ ResultOK(i)'
      BY <1>0, <2>1, <2>4, <3>1 DEF Types, Items, Whole
    <3> QED
      BY <1>0, <2>1, <2>2, <3>1, <3>2, <3>3, InstallerStep
  <2> QED
    BY <2>3, <2>4
<1>4. CASE SyncIdentities(i)
  <2>1. Types'
    BY <1>0, <1>4 DEF SyncIdentities, SyncDirectory, Commit, Types, Stages
  <2>2. StageOK(i)' /\ ResultOK(i)'
    BY <1>0, <1>4 DEF SyncIdentities, SyncDirectory, Commit, Types
  <2> QED
    BY <1>0, <1>4, <2>1, <2>2, InstallerStep DEF SyncIdentities, SyncDirectory, Commit
<1>5. CASE SyncStaging(i)
  <2>1. Types'
    BY <1>0, <1>5 DEF SyncStaging, SyncDirectory, Commit, Types, Stages
  <2>2. StageOK(i)' /\ ResultOK(i)'
    BY <1>0, <1>5 DEF SyncStaging, SyncDirectory, Commit, Types
  <2> QED
    BY <1>0, <1>5, <2>1, <2>2, InstallerStep DEF SyncStaging, SyncDirectory, Commit
<1>6. CASE Return(i)
  <2>1. Types'
    BY <1>0, <1>6 DEF Return, Results, Types, Stages
  <2>2. StageOK(i)' /\ ResultOK(i)'
    BY <1>0, <1>6 DEF Return, Results, Types
  <2> QED
    BY <1>0, <1>6, <2>1, <2>2, InstallerStep DEF Return, Results
<1>7. CASE Rollback(i)
  <2>1. /\ pc[i] \in Publishing /\ final = i /\ final' = None /\ staged' = staged \cup {i}
        /\ pc' = [pc EXCEPT ![i] = "cleanup"] /\ result' = [result EXCEPT ![i] = "failed"]
        /\ UNCHANGED <<source, output, approved, tree, data, disk, copy, compared, filter, crashes>>
    BY <1>0, <1>7 DEF Rollback
  <2>2. Types'
    BY <1>0, <2>1 DEF Types, Stages, Results
  <2>3. StageOK(i)' /\ ResultOK(i)'
    BY <1>0, <2>1 DEF Types
  <2>4. result'[i] = "failed" /\ pc'[i] = "cleanup"
    BY <1>0, <2>1 DEF Types
  <2> QED
    BY <1>0, <2>1, <2>2, <2>3, <2>4, InstallerStep
<1>8. CASE RollbackFails(i)
  <2>1. Types'
    BY <1>0, <1>8 DEF RollbackFails, Results, Types, Stages
  <2>2. StageOK(i)' /\ ResultOK(i)'
    BY <1>0, <1>8 DEF RollbackFails, Results, Types
  <2> QED
    BY <1>0, <1>8, <2>1, <2>2, InstallerStep DEF RollbackFails, Results
<1>9. CASE Fail(i)
  <2>1. Types'
    BY <1>0, <1>9 DEF Fail, Results, Types, Stages
  <2>2. StageOK(i)' /\ ResultOK(i)'
    BY <1>0, <1>9 DEF Fail, Results, Types
  <2> QED
    BY <1>0, <1>9, <2>1, <2>2, InstallerStep DEF Fail, Results
<1>10. CASE Cleanup(i)
  <2>1. Types'
    BY <1>0, <1>10 DEF Cleanup, Types, Stages
  <2>2. StageOK(i)' /\ ResultOK(i)'
    BY <1>0, <1>10 DEF Cleanup, Types
  <2> QED
    BY <1>0, <1>10, <2>1, <2>2, InstallerStep DEF Cleanup
<1>11. CASE CleanupFails(i)
  <2>1. Types'
    BY <1>0, <1>11 DEF CleanupFails, Results, Types, Stages
  <2>2. StageOK(i)' /\ ResultOK(i)'
    BY <1>0, <1>11 DEF CleanupFails, Results, Types
  <2> QED
    BY <1>0, <1>11, <2>1, <2>2, InstallerStep DEF CleanupFails, Results
<1> QED
  BY <1>1, <1>2, <1>3, <1>4, <1>5, <1>6, <1>7, <1>8, <1>9, <1>10, <1>11

(* The journal's own commit.                                               *)
LEMMA JournalStep ==
    ASSUME InstallInv, JournalCommits
    PROVE  InstallInv'
<1>1. /\ disk' = [final |-> final, staged |-> staged, tree |-> tree]
      /\ UNCHANGED <<source, output, approved, final, staged, tree, data, copy, pc, result, compared,
                     filter, crashes>>
  BY DEF JournalCommits, Commit, store, progress
<1>2. Types /\ StoreOK /\ \A i \in Installers : StageOK(i) /\ ResultOK(i)
  BY DEF InstallInv
<1>3. Types'
  BY <1>1, <1>2 DEF Types
<1>4. StoreOK'
  BY <1>1, <1>2 DEF Types, StoreOK, Ready
<1>5. ASSUME NEW i \in Installers PROVE StageOK(i)' /\ ResultOK(i)'
  BY <1>1, <1>2 DEF StageOK, ResultOK, Ready, Stands, Publishing
<1> QED
  BY <1>3, <1>4, <1>5 DEF InstallInv

(* A crash puts the snapshot in the place of the store.  The identity it   *)
(* names was whole when it was taken, and its files are synced.            *)
LEMMA CrashStep ==
    ASSUME InstallInv, Crash
    PROVE  InstallInv'
<1>1. Types /\ StoreOK /\ \A i \in Installers : StageOK(i) /\ ResultOK(i)
  BY DEF InstallInv
<1>2. /\ crashes < MaxCrashes /\ crashes' = crashes + 1 /\ filter' = None
      /\ final' = disk.final /\ staged' = disk.staged
      /\ tree' = [i \in Installers |-> disk.tree[i] \cap data[i]]
      /\ disk' = [final |-> final', staged |-> staged', tree |-> tree']
      /\ pc' = [i \in Installers |-> IF pc[i] = "start" THEN "start" ELSE "done"]
      /\ result' = [i \in Installers |-> IF pc[i] \in {"start", "done"} THEN result[i] ELSE "crashed"]
      /\ UNCHANGED <<source, output, approved, data, copy, compared>>
  BY DEF Crash, Commit
<1>3. final' \notin staged'
  BY <1>1, <1>2, InstallAssumption DEF Types, StoreOK
<1>4. Types'
  <2>1. tree' \in [Installers -> SUBSET Items]
    BY <1>1, <1>2 DEF Types
  <2>2. pc' \in [Installers -> Stages] /\ result' \in [Installers -> Results \cup {None}]
    BY <1>1, <1>2 DEF Types, Stages, Results
  <2>3. crashes' \in 0..MaxCrashes
    BY <1>1, <1>2, InstallAssumption DEF Types
  <2> QED
    BY <1>1, <1>2, <1>3, <2>1, <2>2, <2>3 DEF Types
<1>5. StoreOK'
  <2> SUFFICES ASSUME disk.final # None
               PROVE  /\ pc'[disk.final] = "done" /\ tree'[disk.final] = Whole /\ Ready(disk.final)
    BY <1>2, <1>3 DEF StoreOK, Ready
  <2>1. disk.final \in Installers
    BY <1>1 DEF Types
  <2>2. Ready(disk.final) /\ disk.tree[disk.final] = Whole /\ pc[disk.final] # "start"
    BY <1>1 DEF StoreOK, Publishing
  <2>3. tree'[disk.final] = Whole
    BY <1>2, <2>1, <2>2 DEF Ready
  <2> QED
    BY <1>2, <2>1, <2>2, <2>3
<1>6. ASSUME NEW i \in Installers PROVE StageOK(i)' /\ ResultOK(i)'
  <2>1. StageOK(i) /\ ResultOK(i) /\ crashes' # 0
    BY <1>1, <1>2 DEF Types
  <2>2. StageOK(i)'
    BY <1>2, <2>1 DEF StageOK, Publishing
  <2>3. ResultOK(i)'
    BY <1>2, <2>1, InstallAssumption DEF ResultOK, Stands, Results
  <2> QED
    BY <2>2, <2>3
<1> QED
  BY <1>4, <1>5, <1>6 DEF InstallInv

(* Build, and the selection of the identity.                               *)
LEMMA OutsideStep ==
    ASSUME InstallInv, Build \/ BuildUnsynced \/ Launch
    PROVE  InstallInv'
<1>1. Types /\ StoreOK /\ \A i \in Installers : StageOK(i) /\ ResultOK(i)
  BY DEF InstallInv
<1>2. ASSUME NEW at \in {source, approved}, Built(at) PROVE InstallInv'
  <2>1. /\ output = None /\ approved = None /\ output' = source /\ approved' \in {source, None}
        /\ UNCHANGED <<source, final, staged, tree, data, disk, copy, pc, result, compared, filter, crashes>>
    BY <1>1, <1>2 DEF Built, Types, store, progress
  <2>2. approved \notin Parseable
    BY <2>1, InstallAssumption DEF Parseable
  <2>3. \A i \in Installers : pc[i] = "start"
    BY <1>1, <2>1 DEF StageOK
  <2>4. final = None /\ disk.final = None /\ filter = None
    BY <1>1, <2>1, <2>2 DEF StoreOK, Ready, Types
  <2>5. Types' /\ StoreOK'
    BY <1>1, <2>1, <2>4 DEF Types, StoreOK
  <2>6. ASSUME NEW i \in Installers PROVE StageOK(i)' /\ ResultOK(i)'
    BY <1>1, <2>1, <2>3, InstallAssumption
       DEF StageOK, ResultOK, Stands, Publishing, Results
  <2> QED
    BY <2>5, <2>6 DEF InstallInv
<1>3. CASE Launch
  <2>1. /\ final # None /\ copy[final] \in Parseable /\ filter' = copy[final]
        /\ UNCHANGED <<source, output, approved, final, staged, tree, data, disk, copy, pc, result,
                       compared, crashes>>
    BY <1>3 DEF Launch, workloadSystemCallFilter, store, progress
  <2>2. filter' = approved
    BY <1>1, <2>1 DEF StoreOK, Ready
  <2>3. Types' /\ StoreOK'
    BY <1>1, <2>1, <2>2 DEF Types, StoreOK, Ready
  <2>4. ASSUME NEW i \in Installers PROVE StageOK(i)' /\ ResultOK(i)'
    BY <1>1, <2>1 DEF StageOK, ResultOK, Stands, Ready
  <2> QED
    BY <2>3, <2>4 DEF InstallInv
<1> QED
  BY <1>2, <1>3 DEF Build, BuildUnsynced

(* Every step preserves the invariant.                                     *)
LEMMA InstallNext == InstallInv /\ [Next]_vars => InstallInv'
<1> SUFFICES ASSUME InstallInv, [Next]_vars PROVE InstallInv'
  OBVIOUS
<1>1. CASE UNCHANGED vars
  BY <1>1 DEF vars, InstallInv, Types, StoreOK, StageOK, ResultOK, Stands, Ready
<1>2. CASE Next
  <2>1. ASSUME NEW i \in Installers, Step(i) PROVE InstallInv'
    BY <2>1, StagingStep, PublishingStep DEF Step
  <2> QED
    BY <1>2, <2>1, JournalStep, CrashStep, OutsideStep DEF Next
<1> QED
  BY <1>1, <1>2

(* The inductive invariant holds throughout.                               *)
THEOREM InstallInvariant == Spec => []InstallInv
<1> QED
  BY InstallInit, InstallNext, PTL DEF Spec

(* Types, one name for each tree, and the name an installer will remove.   *)
THEOREM InstallTypeOK == Spec => []TypeOK
<1>1. InstallInv => TypeOK
  BY DEF InstallInv, Types, StageOK, TypeOK
<1> QED
  BY <1>1, InstallInvariant, PTL

(* The final name never shows less than the whole approved Bundle.         *)
THEOREM InstallFinalIsWhole == Spec => []FinalIsWhole
<1>1. InstallInv => FinalIsWhole
  BY DEF InstallInv, StoreOK, Ready, Whole, FinalIsWhole
<1> QED
  BY <1>1, InstallInvariant, PTL

(* What Install reports is true, also after a crash.                       *)
THEOREM InstallReportIsTrue == Spec => []ReportIsTrue
<1>1. InstallInv => ReportIsTrue
  BY InstallAssumption DEF InstallInv, Types, ResultOK, Stands, ReportIsTrue
<1> QED
  BY <1>1, InstallInvariant, PTL

(* The filter a Workload runs under is compiled from the approved Bundle,  *)
(* whose policy parses, whatever was at the paths in between.              *)
THEOREM InstallFilterIsApproved ==
    Spec => [](filter # None => filter = approved /\ filter \in Parseable)
<1>1. InstallInv => (filter # None => filter = approved /\ filter \in Parseable)
  BY DEF InstallInv, Types
<1> QED
  BY <1>1, InstallInvariant, PTL

(* The filter a Workload runs under decides every call as the approved     *)
(* policy reads: nothing but the approved Bundle's policy is compiled, and *)
(* the compiler is right.                                                  *)
THEOREM InstallFilterIsThePolicy == Spec => []FilterIsThePolicy
<1>1. ASSUME NEW digest \in Parseable
      PROVE  digest \in Enforced
  <2> DEFINE policy == Bundle[digest].policy
  <2>1. digest \in Digests /\ Parse(policy) /\ policy \in Policies
    BY PolicyAssumption DEF Parseable
  <2>2. \A call \in Calls : call \in SystemCallData
    BY PolicyAssumption
  <2> HIDE DEF policy
  <2>3. \A call \in Calls : Enforces(compileInstructions(policy), policy, call)
    BY <2>1, <2>2, CompilerIsRight
  <2>4. policy \in {Bundle[d].policy : d \in Parseable}
    BY DEF policy
  <2>5. policy \in EnforcedPolicies
    BY <2>3, <2>4, Zenon DEF EnforcedPolicies
  <2> QED
    BY <2>1, <2>5 DEF Enforced, policy
<1>2. (filter # None => filter = approved /\ filter \in Parseable) => FilterIsThePolicy
  BY <1>1 DEF FilterIsThePolicy
<1> QED
  BY <1>2, InstallFilterIsApproved, PTL

-----------------------------------------------------------------------------
(* The recursive functions of the root filesystem: each is the function    *)
(* that its definition describes, and so may be unfolded one step.         *)

(* A path on its way through a tree.                                       *)
Walk(at, rest) == [at |-> at, rest |-> rest, lost |-> FALSE]

(* The bound on a walk is a number.                                        *)
LEMMA ResolveLimitIsNat == ResolveLimit \in Nat
<1>1. \A m, n \in Nat : 2 * n * m \in Nat
  OBVIOUS
<1>2. SymlinkLimit \in Nat /\ maximumRootFSItems \in Nat
  BY RootFSAssumption
<1> QED
  BY <1>1, <1>2, Zenon DEF ResolveLimit

(* Cleaning is what its definition says.                                   *)
LEMMA CleaningDef ==
    ASSUME NEW path, Len(path) \in Nat
    PROVE  Cleaning(path) = [n \in 0..Len(path) |->
               IF n = 0 THEN <<>> ELSE AfterSegment(Cleaning(path)[n - 1], path[n])]
<1> DEFINE N == Len(path)
           b == <<>>
           round(x, n) == AfterSegment(x, path[n])
           Is(f, m) == f = [n \in 0..m |-> IF n = 0 THEN b ELSE round(f[n - 1], n)]
           S == {m \in 0..N : \E f : Is(f, m)}
<1>0. N \in Nat
  OBVIOUS
<1> HIDE DEF round, b, N
<1>1. 0 \in S
  <2>1. Is([n \in 0..0 |-> b], 0)
    OBVIOUS
  <2>2. \E f : Is(f, 0)
    BY <2>1
  <2> QED
    BY <1>0, <2>2
<1>2. ASSUME NEW m \in 0..N, m # N, m \in S
      PROVE  m + 1 \in S
  <2>1. PICK f : Is(f, m)
    BY <1>2
  <2> DEFINE g == [n \in 0..(m + 1) |-> IF n = m + 1 THEN round(f[m], m + 1) ELSE f[n]]
  <2>2. ASSUME NEW n \in 0..(m + 1) PROVE g[n] = IF n = 0 THEN b ELSE round(g[n - 1], n)
    BY <1>0, <2>1
  <2>3. Is(g, m + 1)
    BY <1>0, <2>2
  <2>4. \E f1 : Is(f1, m + 1)
    BY <2>3
  <2>5. m + 1 \in 0..N
    BY <1>0, <1>2
  <2> QED
    BY <2>4, <2>5, Zenon
<1>3. \E f : Is(f, N)
  <2> HIDE DEF S
  <2>1. 0..N \subseteq S
    BY <1>0, <1>1, <1>2, Induction
  <2> QED
    BY <1>0, <2>1 DEF S
<1> QED
  BY <1>3 DEF Cleaning, N, round, b

(* Its first value, and one segment of it.                                 *)
LEMMA CleaningSteps ==
    ASSUME NEW path, Len(path) \in Nat
    PROVE  /\ Cleaning(path)[0] = <<>>
           /\ \A n \in 0..Len(path) :
                 n # Len(path) => Cleaning(path)[n + 1] = AfterSegment(Cleaning(path)[n], path[n + 1])
<1>0. Len(path) \in Nat
  OBVIOUS
<1> DEFINE f == Cleaning(path)
           round(x, n) == AfterSegment(x, path[n])
<1>a. f = [n \in 0..Len(path) |-> IF n = 0 THEN <<>> ELSE round(f[n - 1], n)]
  BY CleaningDef
<1> HIDE DEF f, round
<1>1. f[0] = <<>>
  BY <1>0, <1>a
<1>2. ASSUME NEW n \in 0..Len(path), n # Len(path)
      PROVE  f[n + 1] = round(f[n], n + 1)
  <2>1. n + 1 \in 0..Len(path) /\ n + 1 # 0 /\ (n + 1) - 1 = n
    BY <1>0, <1>2
  <2> QED
    BY <2>1, <1>a
<1> QED
  BY <1>1, <1>2 DEF f, round

(* Extracting is what its definition says.                                 *)
LEMMA ExtractingDef ==
    ASSUME NEW archive, Len(archive) \in Nat
    PROVE  Extracting(archive) = [n \in 0..Len(archive) |->
               IF n = 0 THEN EmptyTree ELSE Extracted(Extracting(archive)[n - 1], archive[n])]
<1> DEFINE N == Len(archive)
           b == EmptyTree
           round(x, n) == Extracted(x, archive[n])
           Is(f, m) == f = [n \in 0..m |-> IF n = 0 THEN b ELSE round(f[n - 1], n)]
           S == {m \in 0..N : \E f : Is(f, m)}
<1>0. N \in Nat
  OBVIOUS
<1> HIDE DEF round, b, N
<1>1. 0 \in S
  <2>1. Is([n \in 0..0 |-> b], 0)
    OBVIOUS
  <2>2. \E f : Is(f, 0)
    BY <2>1
  <2> QED
    BY <1>0, <2>2
<1>2. ASSUME NEW m \in 0..N, m # N, m \in S
      PROVE  m + 1 \in S
  <2>1. PICK f : Is(f, m)
    BY <1>2
  <2> DEFINE g == [n \in 0..(m + 1) |-> IF n = m + 1 THEN round(f[m], m + 1) ELSE f[n]]
  <2>2. ASSUME NEW n \in 0..(m + 1) PROVE g[n] = IF n = 0 THEN b ELSE round(g[n - 1], n)
    BY <1>0, <2>1
  <2>3. Is(g, m + 1)
    BY <1>0, <2>2
  <2>4. \E f1 : Is(f1, m + 1)
    BY <2>3
  <2>5. m + 1 \in 0..N
    BY <1>0, <1>2
  <2> QED
    BY <2>4, <2>5, Zenon
<1>3. \E f : Is(f, N)
  <2> HIDE DEF S
  <2>1. 0..N \subseteq S
    BY <1>0, <1>1, <1>2, Induction
  <2> QED
    BY <1>0, <2>1 DEF S
<1> QED
  BY <1>3 DEF Extracting, N, round, b

(* Its first value, and one entry of it.                                   *)
LEMMA ExtractingSteps ==
    ASSUME NEW archive, Len(archive) \in Nat
    PROVE  /\ Extracting(archive)[0] = EmptyTree
           /\ \A n \in 0..Len(archive) :
                 n # Len(archive) =>
                    Extracting(archive)[n + 1] = Extracted(Extracting(archive)[n], archive[n + 1])
<1>0. Len(archive) \in Nat
  OBVIOUS
<1> DEFINE f == Extracting(archive)
           round(x, n) == Extracted(x, archive[n])
<1>a. f = [n \in 0..Len(archive) |-> IF n = 0 THEN EmptyTree ELSE round(f[n - 1], n)]
  BY ExtractingDef
<1> HIDE DEF f, round
<1>1. f[0] = EmptyTree
  BY <1>0, <1>a
<1>2. ASSUME NEW n \in 0..Len(archive), n # Len(archive)
      PROVE  f[n + 1] = round(f[n], n + 1)
  <2>1. n + 1 \in 0..Len(archive) /\ n + 1 # 0 /\ (n + 1) - 1 = n
    BY <1>0, <1>2
  <2> QED
    BY <2>1, <1>a
<1> QED
  BY <1>1, <1>2 DEF f, round

(* Resolving is what its definition says.                                  *)
LEMMA ResolvingDef ==
    ASSUME NEW root, NEW path, NEW call
    PROVE  Resolving(root, path, call) = [n \in 0..ResolveLimit |->
               IF n = 0 THEN Walk(<<>>, path) ELSE ResolveStep(root, call, Resolving(root, path, call)[n - 1])]
<1> DEFINE N == ResolveLimit
           b == Walk(<<>>, path)
           round(x, n) == ResolveStep(root, call, x)
           Is(f, m) == f = [n \in 0..m |-> IF n = 0 THEN b ELSE round(f[n - 1], n)]
           S == {m \in 0..N : \E f : Is(f, m)}
<1>0. N \in Nat
  BY ResolveLimitIsNat
<1> HIDE DEF round, b, N
<1>1. 0 \in S
  <2>1. Is([n \in 0..0 |-> b], 0)
    OBVIOUS
  <2>2. \E f : Is(f, 0)
    BY <2>1
  <2> QED
    BY <1>0, <2>2
<1>2. ASSUME NEW m \in 0..N, m # N, m \in S
      PROVE  m + 1 \in S
  <2>1. PICK f : Is(f, m)
    BY <1>2
  <2> DEFINE g == [n \in 0..(m + 1) |-> IF n = m + 1 THEN round(f[m], m + 1) ELSE f[n]]
  <2>2. ASSUME NEW n \in 0..(m + 1) PROVE g[n] = IF n = 0 THEN b ELSE round(g[n - 1], n)
    BY <1>0, <2>1
  <2>3. Is(g, m + 1)
    BY <1>0, <2>2
  <2>4. \E f1 : Is(f1, m + 1)
    BY <2>3
  <2>5. m + 1 \in 0..N
    BY <1>0, <1>2
  <2> QED
    BY <2>4, <2>5, Zenon
<1>3. \E f : Is(f, N)
  <2> HIDE DEF S
  <2>1. 0..N \subseteq S
    BY <1>0, <1>1, <1>2, Induction
  <2> QED
    BY <1>0, <2>1 DEF S
<1> QED
  BY <1>3 DEF Resolving, Walk, N, round, b

(* Its first value, and one step of it.                                    *)
LEMMA ResolvingSteps ==
    ASSUME NEW root, NEW path, NEW call
    PROVE  /\ Resolving(root, path, call)[0] = Walk(<<>>, path)
           /\ \A n \in 0..ResolveLimit :
                 n # ResolveLimit =>
                    Resolving(root, path, call)[n + 1]
                        = ResolveStep(root, call, Resolving(root, path, call)[n])
<1>0. ResolveLimit \in Nat
  BY ResolveLimitIsNat
<1> DEFINE f == Resolving(root, path, call)
           round(x, n) == ResolveStep(root, call, x)
<1>a. f = [n \in 0..ResolveLimit |-> IF n = 0 THEN Walk(<<>>, path) ELSE round(f[n - 1], n)]
  BY ResolvingDef
<1> HIDE DEF f, round
<1>1. f[0] = Walk(<<>>, path)
  BY <1>0, <1>a
<1>2. ASSUME NEW n \in 0..ResolveLimit, n # ResolveLimit
      PROVE  f[n + 1] = round(f[n], n + 1)
  <2>1. n + 1 \in 0..ResolveLimit /\ n + 1 # 0 /\ (n + 1) - 1 = n
    BY <1>0, <1>2
  <2> QED
    BY <2>1, <1>a
<1> QED
  BY <1>1, <1>2 DEF f, round

(* InstalledNames is what its definition says.                             *)
LEMMA InstalledNamesDef ==
    ASSUME NEW root, NEW entrypoint
    PROVE  InstalledNames(root, entrypoint) = [n \in 0..(SymlinkLimit - 1) |->
               IF n = 0 THEN entrypoint ELSE InstalledStep(root, InstalledNames(root, entrypoint)[n - 1])]
<1> DEFINE N == (SymlinkLimit - 1)
           b == entrypoint
           round(x, n) == InstalledStep(root, x)
           Is(f, m) == f = [n \in 0..m |-> IF n = 0 THEN b ELSE round(f[n - 1], n)]
           S == {m \in 0..N : \E f : Is(f, m)}
<1>0. N \in Nat
  BY RootFSAssumption
<1> HIDE DEF round, b, N
<1>1. 0 \in S
  <2>1. Is([n \in 0..0 |-> b], 0)
    OBVIOUS
  <2>2. \E f : Is(f, 0)
    BY <2>1
  <2> QED
    BY <1>0, <2>2
<1>2. ASSUME NEW m \in 0..N, m # N, m \in S
      PROVE  m + 1 \in S
  <2>1. PICK f : Is(f, m)
    BY <1>2
  <2> DEFINE g == [n \in 0..(m + 1) |-> IF n = m + 1 THEN round(f[m], m + 1) ELSE f[n]]
  <2>2. ASSUME NEW n \in 0..(m + 1) PROVE g[n] = IF n = 0 THEN b ELSE round(g[n - 1], n)
    BY <1>0, <2>1
  <2>3. Is(g, m + 1)
    BY <1>0, <2>2
  <2>4. \E f1 : Is(f1, m + 1)
    BY <2>3
  <2>5. m + 1 \in 0..N
    BY <1>0, <1>2
  <2> QED
    BY <2>4, <2>5, Zenon
<1>3. \E f : Is(f, N)
  <2> HIDE DEF S
  <2>1. 0..N \subseteq S
    BY <1>0, <1>1, <1>2, Induction
  <2> QED
    BY <1>0, <2>1 DEF S
<1> QED
  BY <1>3 DEF InstalledNames, N, round, b

(* Its first value, and one link of it.                                    *)
LEMMA InstalledNamesSteps ==
    ASSUME NEW root, NEW entrypoint
    PROVE  /\ InstalledNames(root, entrypoint)[0] = entrypoint
           /\ \A n \in 0..(SymlinkLimit - 1) :
                 n # (SymlinkLimit - 1) =>
                    InstalledNames(root, entrypoint)[n + 1]
                        = InstalledStep(root, InstalledNames(root, entrypoint)[n])
<1>0. (SymlinkLimit - 1) \in Nat
  BY RootFSAssumption
<1> DEFINE f == InstalledNames(root, entrypoint)
           round(x, n) == InstalledStep(root, x)
<1>a. f = [n \in 0..(SymlinkLimit - 1) |-> IF n = 0 THEN entrypoint ELSE round(f[n - 1], n)]
  BY InstalledNamesDef
<1> HIDE DEF f, round
<1>1. f[0] = entrypoint
  BY <1>0, <1>a
<1>2. ASSUME NEW n \in 0..(SymlinkLimit - 1), n # (SymlinkLimit - 1)
      PROVE  f[n + 1] = round(f[n], n + 1)
  <2>1. n + 1 \in 0..(SymlinkLimit - 1) /\ n + 1 # 0 /\ (n + 1) - 1 = n
    BY <1>0, <1>2
  <2> QED
    BY <2>1, <1>a
<1> QED
  BY <1>1, <1>2 DEF f, round


(* Pieces of a path.                                                       *)
LEMMA Pieces ==
    ASSUME NEW T, NEW s \in Seq(T), NEW m \in 1..(Len(s) + 1), NEW n \in (m - 1)..Len(s)
    PROVE  /\ SubSeq(s, m, n) \in Seq(T)
           /\ Len(SubSeq(s, m, n)) = n - m + 1
           /\ \A i \in 1..(n - m + 1) : SubSeq(s, m, n)[i] = s[m + i - 1]
           /\ n < Len(s) => Append(SubSeq(s, m, n), s[n + 1]) = SubSeq(s, m, n + 1)
<1>0. Len(s) \in Nat /\ \A i \in 1..Len(s) : s[i] \in T
  BY ElementOfSeq
<1>1. /\ m \in Int /\ n \in Int
      /\ \A i \in m..n : s[i] \in T
  BY <1>0
<1>2. /\ SubSeq(s, m, n) \in Seq(T)
      /\ Len(SubSeq(s, m, n)) = n - m + 1
      /\ \A i \in 1..(n - m + 1) : SubSeq(s, m, n)[i] = s[m + i - 1]
  BY <1>0, <1>1, SubSeqProperties
<1>3. ASSUME n < Len(s) PROVE Append(SubSeq(s, m, n), s[n + 1]) = SubSeq(s, m, n + 1)
  <2>1. m \in 1..Len(s) /\ n + 1 \in m..Len(s) /\ (n + 1) - 1 = n /\ s[n + 1] \in T
    BY <1>0, <1>3
  <2>2. SubSeq(s, m, n + 1) = SubSeq(s, m, n) \o <<s[n + 1]>>
    BY <2>1, SubSeqRecursiveSecond
  <2> QED
    BY <1>2, <2>1, <2>2, AppendIsConcat
<1> QED
  BY <1>2, <1>3

(* What is above a path that is not empty, and its last segment.           *)
LEMMA FrontOfPiece ==
    ASSUME NEW T, NEW s \in Seq(T), NEW n \in 1..Len(s)
    PROVE  /\ Front(SubSeq(s, 1, n)) = SubSeq(s, 1, n - 1)
           /\ Last(SubSeq(s, 1, n)) = s[n]
           /\ SubSeq(s, 1, n) # <<>>
<1>0. Len(s) \in Nat
  OBVIOUS
<1>1. /\ SubSeq(s, 1, n) \in Seq(T) /\ Len(SubSeq(s, 1, n)) = n
      /\ \A i \in 1..n : SubSeq(s, 1, n)[i] = s[i]
  <2>1. 1 \in 1..(Len(s) + 1) /\ n \in (1 - 1)..Len(s) /\ n - 1 + 1 = n
    BY <1>0
  <2>2. \A i \in 1..n : 1 + i - 1 = i
    OBVIOUS
  <2> QED
    BY <2>1, <2>2, Pieces
<1>2. Len(<<>>) = 0 /\ n # 0
  OBVIOUS
<1>3. Front(SubSeq(s, 1, n)) = SubSeq(SubSeq(s, 1, n), 1, n - 1)
  BY <1>1 DEF Front
<1>4. SubSeq(SubSeq(s, 1, n), 1, n - 1) = SubSeq(s, 1, n - 1)
  <2>1. CASE n = 1
    <3>1. n - 1 = 0
      BY <2>1
    <3>2. SubSeq(SubSeq(s, 1, n), 1, 0) = <<>> /\ SubSeq(s, 1, 0) = <<>>
      BY SubSeqEmpty
    <3> QED
      BY <3>1, <3>2
  <2>2. CASE n # 1
    <3>1. /\ 1 \in 1..Len(s) /\ n \in 1..Len(s) /\ 1 \in 1..(n - 1 + 1) /\ n - 1 \in 1..(n - 1 + 1)
          /\ 1 + 1 - 1 = 1 /\ 1 + (n - 1) - 1 = n - 1
      BY <1>0, <2>2
    <3>2. SubSeq(SubSeq(s, 1, n), 1, n - 1) = SubSeq(s, 1 + 1 - 1, 1 + (n - 1) - 1)
      BY <3>1, SubSeqOfSubSeq
    <3> QED
      BY <3>1, <3>2
  <2> QED
    BY <2>1, <2>2
<1>5. Last(SubSeq(s, 1, n)) = s[n]
  BY <1>1 DEF Last
<1> QED
  BY <1>1, <1>2, <1>3, <1>4, <1>5

(* The names before any "..": they are kept.                               *)
LEMMA CleansNames ==
    ASSUME NEW path \in Seq(Segments), NEW l \in 0..Len(path), \A i \in 1..l : path[i] # Up
    PROVE  Cleaning(path)[l] = SubSeq(path, 1, l)
<1> DEFINE done == Cleaning(path)
           S == {n \in 0..l : done[n] = SubSeq(path, 1, n)}
<1>0. Len(path) \in Nat /\ l \in Nat
  OBVIOUS
<1>1. /\ done[0] = <<>>
      /\ \A n \in 0..Len(path) : n # Len(path) => done[n + 1] = AfterSegment(done[n], path[n + 1])
  BY <1>0, CleaningSteps
<1> HIDE DEF done
<1>2. 0 \in S
  <2>1. SubSeq(path, 1, 0) = <<>>
    BY SubSeqEmpty
  <2>2. 0 \in 0..l
    BY <1>0
  <2> QED
    BY <1>1, <2>1, <2>2
<1>3. ASSUME NEW n \in 0..l, n # l, n \in S PROVE n + 1 \in S
  <2>1. n + 1 \in 1..l /\ n \in 0..Len(path) /\ n # Len(path) /\ n < Len(path) /\ n + 1 \in 0..l
    BY <1>0, <1>3
  <2>2. done[n + 1] = Append(SubSeq(path, 1, n), path[n + 1])
    BY <1>1, <1>3, <2>1 DEF AfterSegment
  <2>3. 1 \in 1..(Len(path) + 1) /\ n \in (1 - 1)..Len(path)
    BY <1>0, <2>1
  <2>4. done[n + 1] = SubSeq(path, 1, n + 1)
    BY <2>1, <2>2, <2>3, Pieces
  <2> QED
    BY <2>1, <2>4
<1> HIDE DEF S
<1>4. 0..l \subseteq S
  <2>1. \A n \in 0..l : n # l /\ n \in S => n + 1 \in S
    BY <1>3, Zenon
  <2> QED
    BY <1>0, <1>2, <2>1, Induction, Zenon
<1>5. l \in S
  BY <1>0, <1>4
<1> QED
  BY <1>5 DEF S, done

(* Then every ".." takes back one of them, while there is one.             *)
LEMMA CleansUps ==
    ASSUME NEW path \in Seq(Segments), NEW l \in 0..Len(path), \A i \in 1..l : path[i] # Up,
           NEW k \in 0..l, l + k <= Len(path), \A i \in 1..k : path[l + i] = Up
    PROVE  Cleaning(path)[l + k] = SubSeq(path, 1, l - k)
<1> DEFINE done == Cleaning(path)
           S == {n \in 0..k : done[l + n] = SubSeq(path, 1, l - n)}
<1>0. Len(path) \in Nat /\ l \in Nat /\ k \in Nat /\ l + 0 = l /\ l - 0 = l
  OBVIOUS
<1>1. \A n \in 0..Len(path) : n # Len(path) => done[n + 1] = AfterSegment(done[n], path[n + 1])
  BY <1>0, CleaningSteps
<1>a. done[l] = SubSeq(path, 1, l)
  BY CleansNames
<1> HIDE DEF done
<1>2. 0 \in S
  BY <1>0, <1>a
<1>3. ASSUME NEW n \in 0..k, n # k, n \in S PROVE n + 1 \in S
  <2>1. /\ n + 1 \in 1..k /\ l + n \in 0..Len(path) /\ l + n # Len(path) /\ n + 1 \in 0..k
        /\ l + n + 1 = l + (n + 1) /\ l - n \in 1..Len(path) /\ l - n \in 1..l
        /\ l - n - 1 = l - (n + 1)
    BY <1>0, <1>3
  <2>2. path[l + n + 1] = Up /\ path[l - n] # Up
    BY <2>1
  <2>3. /\ Front(SubSeq(path, 1, l - n)) = SubSeq(path, 1, l - n - 1)
        /\ Last(SubSeq(path, 1, l - n)) = path[l - n] /\ SubSeq(path, 1, l - n) # <<>>
    BY <2>1, FrontOfPiece
  <2>4. done[l + n + 1] = AfterSegment(SubSeq(path, 1, l - n), path[l + n + 1])
    BY <1>1, <1>3, <2>1
  <2>5. done[l + (n + 1)] = SubSeq(path, 1, l - (n + 1))
    BY <2>1, <2>2, <2>3, <2>4 DEF AfterSegment
  <2> QED
    BY <2>1, <2>5
<1> HIDE DEF S
<1>b. k \in 0..k
  BY <1>0
<1>c. \A n \in 0..k : n # k /\ n \in S => n + 1 \in S
  BY <1>3, Zenon
<1>d. 0..k \subseteq S
  BY <1>0, <1>2, <1>c, Induction, Zenon
<1>4. k \in S
  BY <1>b, <1>d, Zenon
<1> QED
  BY <1>4 DEF S, done

(* And the names after the last ".." are kept again.                       *)
LEMMA CleansRest ==
    ASSUME NEW path \in Seq(Segments), NEW l \in 0..Len(path), \A i \in 1..l : path[i] # Up,
           NEW k \in 0..l, l + k <= Len(path), \A i \in 1..k : path[l + i] = Up,
           \A i \in (l + k + 1)..Len(path) : path[i] # Up
    PROVE  Cleaned(path) = SubSeq(path, 1, l - k) \o SubSeq(path, l + k + 1, Len(path))
<1> DEFINE done == Cleaning(path)
           h == l + k
           top == SubSeq(path, 1, l - k)
           S == {n \in 0..(Len(path) - h) : done[h + n] = top \o SubSeq(path, h + 1, h + n)}
<1>0. /\ Len(path) \in Nat /\ l \in Nat /\ k \in Nat /\ h \in Nat /\ h + 0 = h
      /\ Len(path) - h \in Nat /\ h + (Len(path) - h) = Len(path)
  OBVIOUS
<1>1. \A n \in 0..Len(path) : n # Len(path) => done[n + 1] = AfterSegment(done[n], path[n + 1])
  BY <1>0, CleaningSteps
<1>a. done[h] = top
  BY CleansUps
<1>b. top \in Seq(Segments)
  <2>1. 1 \in 1..(Len(path) + 1) /\ l - k \in (1 - 1)..Len(path)
    BY <1>0
  <2> QED
    BY <2>1, Pieces
<1>c. \A i \in (h + 1)..Len(path) : path[i] # Up
  OBVIOUS
<1> HIDE DEF done, top, h
<1>2. 0 \in S
  <2>1. SubSeq(path, h + 1, h + 0) = <<>>
    BY <1>0, SubSeqEmpty
  <2>2. top \o <<>> = top
    BY <1>b, ConcatEmptySeq
  <2>3. 0 \in 0..(Len(path) - h)
    BY <1>0
  <2> QED
    BY <1>0, <1>a, <2>1, <2>2, <2>3
<1>3. ASSUME NEW n \in 0..(Len(path) - h), n # Len(path) - h, n \in S PROVE n + 1 \in S
  <2> DEFINE piece == SubSeq(path, h + 1, h + n)
             x == path[h + n + 1]
  <2> DEFINE m == Len(path)
  <2>a. m \in Nat /\ m - h \in Nat
    BY <1>0
  <2>b. n \in 0..(m - h) /\ n # m - h
    BY <1>3
  <2> HIDE DEF m
  <2>c. /\ h + n \in 0..m /\ h + n # m /\ h + n < m
        /\ h + n + 1 \in (h + 1)..m /\ h + n + 1 \in 1..m
        /\ h + 1 \in 1..(m + 1) /\ h + n \in ((h + 1) - 1)..m
        /\ h + n + 1 = h + (n + 1) /\ n + 1 \in 0..(m - h)
    BY <1>0, <2>a, <2>b
  <2>1. /\ h + n \in 0..Len(path) /\ h + n # Len(path) /\ h + n < Len(path)
        /\ h + n + 1 \in (h + 1)..Len(path) /\ h + n + 1 \in 1..Len(path)
        /\ h + 1 \in 1..(Len(path) + 1) /\ h + n \in ((h + 1) - 1)..Len(path)
        /\ h + n + 1 = h + (n + 1) /\ n + 1 \in 0..(Len(path) - h)
    BY <2>c DEF m
  <2>2. x # Up /\ x \in Segments
    BY <1>c, <2>1, ElementOfSeq
  <2>3. piece \in Seq(Segments) /\ Append(piece, x) = SubSeq(path, h + 1, h + n + 1)
    <3> DEFINE a == h + 1
               c == h + n
    <3>1. a \in 1..(Len(path) + 1) /\ c \in (a - 1)..Len(path) /\ c < Len(path)
      BY <2>1
    <3> HIDE DEF a, c
    <3>2. SubSeq(path, a, c) \in Seq(Segments)
          /\ Append(SubSeq(path, a, c), path[c + 1]) = SubSeq(path, a, c + 1)
      BY <3>1, Pieces
    <3> QED
      BY <3>2 DEF a, c
  <2>4. done[h + n + 1] = Append(top \o piece, x)
    BY <1>1, <1>3, <2>1, <2>2 DEF AfterSegment
  <2> HIDE DEF piece, x
  <2>5. Append(top \o piece, x) = top \o Append(piece, x)
    <3>1. top \o piece \in Seq(Segments) /\ <<x>> \in Seq(Segments)
      BY <1>b, <2>2, <2>3, ConcatProperties
    <3>2. Append(top \o piece, x) = (top \o piece) \o <<x>> /\ Append(piece, x) = piece \o <<x>>
      BY <2>2, <2>3, <3>1, AppendIsConcat
    <3>3. (top \o piece) \o <<x>> = top \o (piece \o <<x>>)
      <4> DEFINE w == <<x>>
      <4>1. top \in Seq(Segments) /\ piece \in Seq(Segments) /\ w \in Seq(Segments)
        BY <1>b, <2>3, <3>1
      <4> HIDE DEF w
      <4>2. (top \o piece) \o w = top \o (piece \o w)
        BY ONLY <4>1, ConcatAssociative, SMTT(30)
      <4> QED
        BY <4>2 DEF w
    <3> QED
      BY <3>2, <3>3
  <2>6. done[h + (n + 1)] = top \o SubSeq(path, h + 1, h + (n + 1))
    BY <2>1, <2>3, <2>4, <2>5
  <2> QED
    BY <2>1, <2>6
<1> HIDE DEF S
<1> DEFINE N == Len(path) - h
<1>e. N \in Nat /\ N \in 0..N
  BY <1>0
<1>f. \A n \in 0..N : n # N /\ n \in S => n + 1 \in S
  BY <1>3
<1> HIDE DEF N
<1>d. 0..N \subseteq S
  BY <1>2, <1>e, <1>f, Induction
<1>4. Len(path) - h \in S
  BY <1>e, <1>d DEF N
<1>5. done[Len(path)] = top \o SubSeq(path, h + 1, Len(path))
  BY <1>0, <1>4 DEF S
<1> QED
  BY <1>5 DEF done, top, h, Cleaned

(* A ".." more than there are names stays in front for good.               *)
LEMMA CleansAbove ==
    ASSUME NEW path \in Seq(Segments), NEW l \in 0..Len(path), \A i \in 1..l : path[i] # Up,
           2 * l + 1 <= Len(path), \A i \in 1..(l + 1) : path[l + i] = Up
    PROVE  Cleaned(path) # <<>> /\ Head(Cleaned(path)) = Up
<1> DEFINE done == Cleaning(path)
           h == 2 * l + 1
           Above(p) == p \in Seq(Segments) /\ p # <<>> /\ p[1] = Up
           S == {n \in 0..(Len(path) - h) : Above(done[h + n])}
<1>0. /\ Len(path) \in Nat /\ l \in Nat /\ h \in Nat /\ h + 0 = h /\ l + l = 2 * l
      /\ Len(path) - h \in Nat /\ h + (Len(path) - h) = Len(path) /\ l - l = 0
  OBVIOUS
<1>1. \A n \in 0..Len(path) : n # Len(path) => done[n + 1] = AfterSegment(done[n], path[n + 1])
  BY <1>0, CleaningSteps
<1>2. 0 \in S
  <2>1. l \in 0..l /\ l + l <= Len(path) /\ 2 * l \in 0..Len(path) /\ 2 * l # Len(path)
        /\ l + 1 \in 1..(l + 1) /\ l + (l + 1) = 2 * l + 1 /\ \A i \in 1..l : i \in 1..(l + 1)
    BY <1>0
  <2>2. done[2 * l] = <<>>
    <3>1. SubSeq(path, 1, 0) = <<>>
      BY SubSeqEmpty
    <3>2. done[l + l] = SubSeq(path, 1, l - l)
      BY <2>1, CleansUps
    <3> QED
      BY <1>0, <3>1, <3>2
  <2> HIDE DEF done
  <2>3. done[2 * l + 1] = Append(<<>>, Up)
    BY <1>1, <2>1, <2>2 DEF AfterSegment
  <2>4. Above(Append(<<>>, Up))
    BY DEF Segments, Up
  <2>5. 0 \in 0..(Len(path) - h)
    BY <1>0
  <2> QED
    BY <1>0, <2>3, <2>4, <2>5
<1> HIDE DEF done
<1>3. ASSUME NEW n \in 0..(Len(path) - h), n # Len(path) - h, n \in S PROVE n + 1 \in S
  <2> DEFINE p == done[h + n]
             x == path[h + n + 1]
  <2>1. /\ h + n \in 0..Len(path) /\ h + n # Len(path) /\ h + n + 1 \in 1..Len(path)
        /\ h + n + 1 = h + (n + 1) /\ n + 1 \in 0..(Len(path) - h)
    BY <1>0, <1>3
  <2>2. x \in Segments /\ Above(p) /\ done[h + n + 1] = AfterSegment(p, x)
    BY <1>1, <1>3, <2>1, ElementOfSeq
  <2> HIDE DEF p, x
  <2>3. Len(p) \in Nat /\ Len(p) # 0 /\ 1 \in 1..Len(p)
    BY <2>2, EmptySeq
  <2>4. CASE x = Up /\ Last(p) # Up
    <3>1. Len(p) # 1
      BY <2>2, <2>4 DEF Last
    <3>2. /\ 1 \in 1..(Len(p) + 1) /\ Len(p) - 1 \in (1 - 1)..Len(p)
          /\ Len(p) - 1 - 1 + 1 = Len(p) - 1 /\ 1 \in 1..(Len(p) - 1 - 1 + 1) /\ 1 + 1 - 1 = 1
          /\ Len(p) - 1 # 0
      <4>1. \A q \in Nat : q # 0 /\ q # 1 =>
               /\ 1 \in 1..(q + 1) /\ q - 1 \in (1 - 1)..q
               /\ q - 1 - 1 + 1 = q - 1 /\ 1 \in 1..(q - 1 - 1 + 1) /\ 1 + 1 - 1 = 1
               /\ q - 1 # 0
        OBVIOUS
      <4> QED
        BY <2>3, <3>1, <4>1, Zenon
    <3>3. Front(p) \in Seq(Segments) /\ Len(Front(p)) = Len(p) - 1 /\ Front(p)[1] = p[1]
      BY <2>2, <3>2, Pieces DEF Front
    <3>4. Front(p) # <<>>
      BY <3>2, <3>3, EmptySeq
    <3>5. AfterSegment(p, x) = Front(p)
      BY <2>2, <2>4 DEF AfterSegment
    <3>6. Above(done[h + (n + 1)])
      BY <2>1, <2>2, <3>3, <3>4, <3>5
    <3> QED
      BY <2>1, <3>6
  <2>5. CASE ~(x = Up /\ Last(p) # Up)
    <3>1. AfterSegment(p, x) = Append(p, x)
      BY <2>2, <2>5 DEF AfterSegment
    <3>2. Append(p, x) \in Seq(Segments) /\ Append(p, x) # <<>> /\ Append(p, x)[1] = p[1]
      BY <2>2, <2>3, AppendProperties
    <3>3. Above(done[h + (n + 1)])
      BY <2>1, <2>2, <3>1, <3>2
    <3> QED
      BY <2>1, <3>3
  <2> QED
    BY <2>4, <2>5
<1> HIDE DEF S
<1> DEFINE N == Len(path) - h
<1>b. N \in Nat /\ N \in 0..N
  BY <1>0
<1>c. \A n \in 0..N : n # N /\ n \in S => n + 1 \in S
  BY <1>3
<1> HIDE DEF N
<1>d. 0..N \subseteq S
  BY <1>2, <1>b, <1>c, Induction
<1>4. Len(path) - h \in S
  BY <1>b, <1>d DEF N
<1>5. Above(done[Len(path)])
  BY <1>0, <1>4 DEF S
<1> QED
  BY <1>5 DEF done, Cleaned

(* A target that goes up first, cleaned where its link is.                 *)
LEMMA CleansTarget ==
    ASSUME NEW a \in Seq(Nat), NEW t \in Seq(Segments), NEW k \in 0..Len(t),
           \A n \in DOMAIN t : t[n] = Up <=> n <= k,
           Cleaned(a \o t) = <<>> \/ Head(Cleaned(a \o t)) # Up
    PROVE  /\ k <= Len(a)
           /\ Cleaned(a \o t) = SubSeq(a, 1, Len(a) - k) \o SubSeq(t, k + 1, Len(t))
<1> DEFINE path == a \o t
           l == Len(a)
           m == Len(t)
<1>0. l \in Nat /\ m \in Nat /\ k \in Nat /\ k <= m /\ DOMAIN t = 1..m
  BY LenProperties
<1>a. a \in Seq(Segments)
  BY SeqMonotonic DEF Segments
<1>1. /\ path \in Seq(Segments) /\ Len(path) = l + m
      /\ \A i \in 1..(l + m) : path[i] = IF i <= l THEN a[i] ELSE t[i - l]
  BY <1>a, ConcatProperties
<1>2. \A i \in 1..l : path[i] # Up
  <2>1. \A i \in 1..l : a[i] \in Nat /\ i \in 1..(l + m) /\ i <= l
    BY <1>0, ElementOfSeq
  <2> QED
    BY <1>1, <2>1 DEF Up
<1>3. \A i \in 1..m : path[l + i] = t[i] /\ (t[i] = Up <=> i <= k)
  <2>1. \A i \in 1..m : l + i \in 1..(l + m) /\ ~(l + i <= l) /\ l + i - l = i
    BY <1>0
  <2>2. ASSUME NEW i \in 1..m PROVE path[l + i] = t[i] /\ i \in DOMAIN t
    <3> DEFINE x == l + i
    <3>1. x \in 1..(l + m) /\ ~(x <= l) /\ x - l = i
      BY <2>1
    <3> HIDE DEF path, l, m, x
    <3>2. path[x] = IF x <= l THEN a[x] ELSE t[x - l]
      BY <1>1, <3>1, Zenon
    <3>3. path[x] = t[i]
      BY <3>1, <3>2, Zenon
    <3> QED
      BY <1>0, <3>3 DEF x
  <2> QED
    BY <2>2, Zenon
<1>b. Cleaned(path) = <<>> \/ Head(Cleaned(path)) # Up
  OBVIOUS
<1>c. l \in 0..Len(path)
  BY <1>0, <1>1
<1> HIDE DEF path, l, m
<1>4. k <= l
  <2> SUFFICES ASSUME k > l PROVE FALSE
    BY <1>0
  <2>1. 2 * l + 1 <= Len(path) /\ \A i \in 1..(l + 1) : i \in 1..m /\ i <= k
    BY <1>0, <1>1
  <2>2. \A i \in 1..(l + 1) : path[l + i] = Up
    BY <1>3, <2>1
  <2> QED
    BY <1>1, <1>2, <1>b, <1>c, <2>1, <2>2, CleansAbove
<1>5. Cleaned(path) = SubSeq(path, 1, l - k) \o SubSeq(path, l + k + 1, Len(path))
  <2>1. k \in 0..l /\ l + k <= Len(path) /\ \A i \in 1..k : i \in 1..m /\ i <= k
    BY <1>0, <1>1, <1>4
  <2>2. \A i \in 1..k : path[l + i] = Up
    BY <1>3, <2>1
  <2>3. \A i \in (l + k + 1)..Len(path) : path[i] # Up
    <3>1. \A i \in (l + k + 1)..Len(path) : i - l \in 1..m /\ ~(i - l <= k) /\ l + (i - l) = i
      BY <1>0, <1>1, <1>4
    <3> QED
      BY <1>3, <3>1
  <2> QED
    BY <1>1, <1>2, <1>c, <2>1, <2>2, <2>3, CleansRest
<1>6. SubSeq(path, 1, l - k) = SubSeq(a, 1, l - k)
  <2>1. CASE l - k = 0
    <3>1. SubSeq(path, 1, 0) = <<>> /\ SubSeq(a, 1, 0) = <<>>
      BY SubSeqEmpty
    <3> QED
      BY <2>1, <3>1
  <2>2. CASE l - k # 0
    <3>1. 1 \in 1..l /\ l - k \in 1..l
      BY <1>0, <1>4, <2>2
    <3> QED
      BY <1>a, <3>1, SubSeqOfConcat1 DEF path, l
  <2> QED
    BY <2>1, <2>2
<1>7. SubSeq(path, l + k + 1, Len(path)) = SubSeq(t, k + 1, m)
  <2>1. CASE k = m
    <3>1. SubSeq(path, l + k + 1, Len(path)) = <<>> /\ SubSeq(t, k + 1, m) = <<>>
      BY <1>0, <1>1, <2>1, SubSeqEmpty
    <3> QED
      BY <3>1
  <2>2. CASE k # m
    <3>1. /\ l + k + 1 \in (l + 1)..(l + m) /\ l + m \in (l + 1)..(l + m)
          /\ l + k + 1 - l = k + 1 /\ l + m - l = m
      BY <1>0, <1>4, <2>2
    <3> DEFINE c == l + k + 1
               d == l + m
    <3>a. c \in (l + 1)..(l + m) /\ d \in (l + 1)..(l + m)
      BY <3>1
    <3>3. c - l = k + 1 /\ d - l = m
      BY <1>0
    <3> HIDE DEF c, d
    <3>2. SubSeq(path, c, d) = SubSeq(t, c - l, d - l)
      BY <1>a, <3>a, SubSeqOfConcat2 DEF path, l, m
    <3>5. Len(path) = d
      BY <1>1 DEF d
    <3>4. SubSeq(path, c, Len(path)) = SubSeq(t, k + 1, m)
      BY <3>2, <3>3, <3>5
    <3> QED
      BY <3>4 DEF c
  <2> QED
    BY <2>1, <2>2
<1> QED
  BY <1>4, <1>5, <1>6, <1>7 DEF path, l, m

-----------------------------------------------------------------------------
(* Walks through a tree.                                                   *)

(* A walk goes on.                                                         *)
LEMMA WalkGoesOn ==
    ASSUME NEW at, NEW rest, NEW left
    PROVE  [Walk(at, rest) EXCEPT !.rest = left] = Walk(at, left)
<1> DEFINE walk == Walk(at, rest)
<1>1. ASSUME NEW A, NEW R, walk \in [at : A, rest : R, lost : BOOLEAN]
      PROVE  [walk EXCEPT !.rest = left] = [at |-> walk.at, rest |-> left, lost |-> walk.lost]
  <2> HIDE DEF walk
  <2> QED
    BY <1>1
<1>2. walk \in [at : {at}, rest : {rest}, lost : BOOLEAN]
  BY DEF Walk
<1>3. walk.at = at /\ walk.lost = FALSE
  BY DEF Walk
<1> QED
  BY <1>1, <1>2, <1>3 DEF Walk

(* One segment down, into a directory.                                     *)
LEMMA StepDown ==
    ASSUME NEW root, NEW call, NEW name \in Seq(Nat), NEW p \in Nat, p + 1 < Len(name),
           SubSeq(name, 1, p + 1) \in root.directories,
           Named(root.links, SubSeq(name, 1, p + 1)) = {}
    PROVE  ResolveStep(root, call, Walk(SubSeq(name, 1, p), SubSeq(name, p + 1, Len(name))))
               = Walk(SubSeq(name, 1, p + 1), SubSeq(name, p + 2, Len(name)))
<1> DEFINE at == SubSeq(name, 1, p)
           rest == SubSeq(name, p + 1, Len(name))
           walk == Walk(at, rest)
<1>0. /\ Len(name) \in Nat /\ p + 1 \in 1..Len(name) /\ Len(name) \in (p + 1)..Len(name)
      /\ 1 \in 1..(Len(name) + 1) /\ p \in (1 - 1)..Len(name) /\ p < Len(name)
      /\ p + 1 + 1 = p + 2 /\ p + 2 \in 1..Len(name) /\ Len(name) \in (p + 2)..Len(name)
  OBVIOUS
<1>1. Head(rest) = name[p + 1] /\ Tail(rest) = SubSeq(name, p + 2, Len(name))
  BY <1>0, HeadTailOfSubSeq
<1>2. Append(at, name[p + 1]) = SubSeq(name, 1, p + 1)
  BY <1>0, Pieces
<1>3. name[p + 1] # Up
  BY <1>0, ElementOfSeq DEF Up
<1>4. rest # <<>> /\ Tail(rest) # <<>>
  <2>1. /\ \A i \in (p + 1)..Len(name) : name[i] \in Nat
        /\ \A i \in (p + 2)..Len(name) : name[i] \in Nat
    <3>1. \A q, l \in Nat : \A i \in (q + 1)..l : i \in 1..l
      OBVIOUS
    <3>2. \A i \in (p + 1)..Len(name) : i \in 1..Len(name)
      BY <1>0, <3>1, Zenon
    <3>3. \A i \in (p + 2)..Len(name) : i \in 1..Len(name)
      <4>1. \A i \in (p + 2)..Len(name) : i \in (p + 1)..Len(name)
        BY <1>0
      <4> QED
        BY <3>2, <4>1, Zenon
    <3> QED
      BY <3>2, <3>3, ElementOfSeq, Zenon
  <2>2. Len(rest) = Len(name) - (p + 1) + 1 /\ Len(SubSeq(name, p + 2, Len(name))) = Len(name) - (p + 2) + 1
    BY <1>0, <2>1, SubSeqProperties
  <2>3. \A n \in Nat : p + 1 < n => n - (p + 1) + 1 # 0 /\ n - (p + 2) + 1 # 0
    OBVIOUS
  <2>4. Len(rest) # 0 /\ Len(Tail(rest)) # 0
    BY <1>0, <1>1, <2>2, <2>3, Zenon
  <2> QED
    BY <2>4, EmptySeq
<1>5. walk.at = at /\ walk.rest = rest /\ walk.lost = FALSE
  BY DEF Walk
<1> HIDE DEF at, rest, walk
<1>6. ResolveStep(root, call, walk)
          = [at |-> SubSeq(name, 1, p + 1), rest |-> Tail(rest),
             lost |-> Tail(rest) # <<>> /\ SubSeq(name, 1, p + 1) \notin root.directories]
  BY <1>1, <1>2, <1>3, <1>4, <1>5 DEF ResolveStep
<1> QED
  BY <1>1, <1>6 DEF Walk, walk, at, rest

(* The last segment, of something that is not followed.                    *)
LEMMA StepOnto ==
    ASSUME NEW root, NEW call, NEW name \in Seq(Nat), name # <<>>,
           call # "exec" \/ Named(root.links, name) = {}
    PROVE  ResolveStep(root, call, Walk(SubSeq(name, 1, Len(name) - 1),
                                        SubSeq(name, Len(name), Len(name))))
               = Walk(name, <<>>)
<1> DEFINE n == Len(name)
           at == SubSeq(name, 1, n - 1)
           rest == SubSeq(name, n, n)
           walk == Walk(at, rest)
<1>0. /\ n \in Nat /\ n \in 1..n /\ n \in n..n /\ n - 1 + 1 = n
      /\ 1 \in 1..(n + 1) /\ n - 1 \in (1 - 1)..n /\ n - 1 < n /\ n + 1 > n
  BY EmptySeq
<1>1. Head(rest) = name[n] /\ Tail(rest) = <<>>
  <2>1. Head(rest) = name[n] /\ Tail(rest) = SubSeq(name, n + 1, n)
    BY <1>0, HeadTailOfSubSeq
  <2>2. SubSeq(name, n + 1, n) = <<>>
    BY <1>0, SubSeqEmpty
  <2> QED
    BY <2>1, <2>2
<1>2. Append(at, name[n]) = name
  <2> DEFINE c == n - 1
  <2>a. c \in (1 - 1)..n /\ c < n
    BY <1>0
  <2> HIDE DEF c
  <2>b. Append(SubSeq(name, 1, c), name[c + 1]) = SubSeq(name, 1, c + 1)
    BY <1>0, <2>a, Pieces
  <2>1. Append(at, name[n - 1 + 1]) = SubSeq(name, 1, n - 1 + 1)
    BY <2>b DEF c
  <2> QED
    BY <1>0, <2>1, SubSeqFull
<1>3. name[n] # Up
  BY <1>0, ElementOfSeq DEF Up
<1>4. rest # <<>>
  <2>1. \A i \in n..n : name[i] \in Nat
    BY <1>0, ElementOfSeq
  <2>2. Len(rest) = n - n + 1
    BY <1>0, <2>1, SubSeqProperties
  <2> QED
    BY <1>0, <2>2, EmptySeq
<1>5. walk.at = at /\ walk.rest = rest /\ walk.lost = FALSE
  BY DEF Walk
<1> HIDE DEF at, rest, walk, n
<1>6. ResolveStep(root, call, walk) = [at |-> name, rest |-> <<>>, lost |-> FALSE]
  BY <1>1, <1>2, <1>3, <1>4, <1>5 DEF ResolveStep
<1> QED
  BY <1>6 DEF Walk, walk, at, rest, n

(* The last segment, of a link that is followed.                           *)
LEMMA StepThrough ==
    ASSUME NEW root, NEW name \in Seq(Nat), name # <<>>, NEW e \in root.links,
           Named(root.links, name) = {e}, e.target \in Seq(Segments)
    PROVE  ResolveStep(root, "exec", Walk(SubSeq(name, 1, Len(name) - 1),
                                          SubSeq(name, Len(name), Len(name))))
               = Walk(SubSeq(name, 1, Len(name) - 1), e.target)
<1> DEFINE n == Len(name)
           at == SubSeq(name, 1, n - 1)
           rest == SubSeq(name, n, n)
           walk == Walk(at, rest)
<1>0. /\ n \in Nat /\ n \in 1..n /\ n \in n..n /\ n - 1 + 1 = n
      /\ 1 \in 1..(n + 1) /\ n - 1 \in (1 - 1)..n /\ n - 1 < n /\ n + 1 > n
  BY EmptySeq
<1>1. Head(rest) = name[n] /\ Tail(rest) = <<>>
  <2>1. Head(rest) = name[n] /\ Tail(rest) = SubSeq(name, n + 1, n)
    BY <1>0, HeadTailOfSubSeq
  <2>2. SubSeq(name, n + 1, n) = <<>>
    BY <1>0, SubSeqEmpty
  <2> QED
    BY <2>1, <2>2
<1>2. Append(at, name[n]) = name
  <2> DEFINE c == n - 1
  <2>a. c \in (1 - 1)..n /\ c < n
    BY <1>0
  <2> HIDE DEF c
  <2>b. Append(SubSeq(name, 1, c), name[c + 1]) = SubSeq(name, 1, c + 1)
    BY <1>0, <2>a, Pieces
  <2>1. Append(at, name[n - 1 + 1]) = SubSeq(name, 1, n - 1 + 1)
    BY <2>b DEF c
  <2> QED
    BY <1>0, <2>1, SubSeqFull
<1>3. name[n] # Up
  BY <1>0, ElementOfSeq DEF Up
<1>4. rest # <<>>
  <2>1. \A i \in n..n : name[i] \in Nat
    BY <1>0, ElementOfSeq
  <2>2. Len(rest) = n - n + 1
    BY <1>0, <2>1, SubSeqProperties
  <2> QED
    BY <1>0, <2>2, EmptySeq
<1> HIDE DEF at, rest
<1>5. /\ walk.at = at /\ walk.rest = rest /\ walk.lost = FALSE
  BY DEF Walk
<1>b. [walk EXCEPT !.rest = e.target] = Walk(at, e.target)
  BY WalkGoesOn
<1>a. e.target \o <<>> = e.target /\ (CHOOSE d \in {e} : TRUE) = e
  BY ConcatEmptySeq
<1> HIDE DEF walk, n
<1>6. ResolveStep(root, "exec", walk) = [walk EXCEPT !.rest = e.target]
  BY <1>1, <1>2, <1>3, <1>4, <1>5, <1>a DEF ResolveStep
<1> QED
  BY <1>b, <1>6 DEF walk, at, rest, n

(* One segment up.                                                         *)
LEMMA StepUp ==
    ASSUME NEW root, NEW call, NEW a \in Seq(Nat), NEW t \in Seq(Segments),
           NEW p \in 1..Len(a), NEW n \in 1..Len(t), t[n] = Up
    PROVE  ResolveStep(root, call, Walk(SubSeq(a, 1, p), SubSeq(t, n, Len(t))))
               = Walk(SubSeq(a, 1, p - 1), SubSeq(t, n + 1, Len(t)))
<1> DEFINE at == SubSeq(a, 1, p)
           rest == SubSeq(t, n, Len(t))
           walk == Walk(at, rest)
<1>0. Len(t) \in Nat /\ Len(t) \in n..Len(t)
  OBVIOUS
<1>1. Head(rest) = Up /\ Tail(rest) = SubSeq(t, n + 1, Len(t))
  BY <1>0, HeadTailOfSubSeq
<1>2. rest # <<>>
  <2>1. \A i \in n..Len(t) : t[i] \in Segments
    BY <1>0, ElementOfSeq
  <2>2. Len(rest) = Len(t) - n + 1
    BY <1>0, <2>1, SubSeqProperties
  <2>3. Len(rest) # 0
    BY <1>0, <2>2
  <2> QED
    BY <2>3, EmptySeq
<1>3. at # <<>> /\ Front(at) = SubSeq(a, 1, p - 1)
  BY FrontOfPiece
<1> HIDE DEF at, rest
<1>5. /\ walk.at = at /\ walk.rest = rest /\ walk.lost = FALSE
  BY DEF Walk
<1> HIDE DEF walk
<1>6. ResolveStep(root, call, walk)
          = [at |-> Front(at), rest |-> Tail(rest), lost |-> FALSE]
  BY <1>1, <1>2, <1>3, <1>5 DEF ResolveStep
<1> QED
  BY <1>1, <1>3, <1>6 DEF walk, at, rest, Walk

(* Whatever is above a name is a directory, and no link.                   *)
Clear(root, name) ==
    \A i \in 1..(Len(name) - 1) :
        SubSeq(name, 1, i) \in root.directories /\ Named(root.links, SubSeq(name, 1, i)) = {}

(* A walk with no link above its name comes to the last segment.           *)
LEMMA WalksDown ==
    ASSUME NEW root, NEW path, NEW call, NEW name \in Seq(Nat), Clear(root, name),
           NEW p \in Nat, p < Len(name), NEW j \in Nat, j + (Len(name) - p) <= ResolveLimit,
           Resolving(root, path, call)[j] = Walk(SubSeq(name, 1, p), SubSeq(name, p + 1, Len(name)))
    PROVE  Resolving(root, path, call)[j + (Len(name) - p - 1)]
               = Walk(SubSeq(name, 1, Len(name) - 1), SubSeq(name, Len(name), Len(name)))
<1> DEFINE walk == Resolving(root, path, call)
           l == Len(name)
           N == l - p - 1
           On(n) == Walk(SubSeq(name, 1, p + n), SubSeq(name, p + n + 1, l))
           S == {n \in 0..N : walk[j + n] = On(n)}
<1>0. l \in Nat /\ N \in Nat /\ N \in 0..N /\ p + 0 = p /\ j + 0 = j /\ p + N = l - 1 /\ p + N + 1 = l
  OBVIOUS
<1>1. \A n \in 0..ResolveLimit : n # ResolveLimit => walk[n + 1] = ResolveStep(root, call, walk[n])
  BY ResolvingSteps
<1>2. 0 \in S
  BY <1>0
<1>a. j + (l - p) <= ResolveLimit /\ ResolveLimit \in Nat
  BY ResolveLimitIsNat
<1> HIDE DEF walk, l
<1>3. ASSUME NEW n \in 0..N, n # N, n \in S PROVE n + 1 \in S
  <2>1. /\ n \in Nat /\ p + n \in Nat /\ p + n + 1 < l /\ p + n + 1 \in 1..(l - 1)
        /\ n + 1 \in 0..N /\ j + n \in 0..ResolveLimit /\ j + n # ResolveLimit
        /\ j + n + 1 = j + (n + 1) /\ p + n + 1 = p + (n + 1) /\ p + n + 2 = p + (n + 1) + 1
    BY <1>0, <1>3, <1>a
  <2>2. SubSeq(name, 1, p + n + 1) \in root.directories /\ Named(root.links, SubSeq(name, 1, p + n + 1)) = {}
    BY <2>1 DEF Clear, l
  <2>3. ResolveStep(root, call, On(n)) = Walk(SubSeq(name, 1, p + n + 1), SubSeq(name, p + n + 2, l))
    <3> DEFINE q == p + n
    <3>1. q \in Nat /\ q + 1 < l
      BY <2>1
    <3>2. SubSeq(name, 1, q + 1) \in root.directories /\ Named(root.links, SubSeq(name, 1, q + 1)) = {}
      BY <2>2
    <3> HIDE DEF q
    <3>3. ResolveStep(root, call, Walk(SubSeq(name, 1, q), SubSeq(name, q + 1, l)))
              = Walk(SubSeq(name, 1, q + 1), SubSeq(name, q + 2, l))
      BY <3>1, <3>2, StepDown DEF l
    <3> QED
      BY <3>3 DEF q
  <2>4. walk[j + n + 1] = ResolveStep(root, call, On(n))
    BY <1>1, <1>3, <2>1
  <2>5. walk[j + (n + 1)] = On(n + 1)
    BY <2>1, <2>3, <2>4
  <2> QED
    BY <2>1, <2>5
<1> HIDE DEF S, N
<1>b. \A n \in 0..N : n # N /\ n \in S => n + 1 \in S
  BY <1>3, Zenon
<1>4. 0..N \subseteq S
  BY <1>0, <1>2, <1>b, Induction, Zenon
<1>5. walk[j + N] = On(N)
  BY <1>0, <1>4 DEF S
<1>6. walk[j + N] = Walk(SubSeq(name, 1, l - 1), SubSeq(name, l, l))
  BY <1>0, <1>5
<1> QED
  BY <1>6 DEF walk, l, N

(* Where a walk is after k times "..".                                     *)
Risen(at, rest, k) == Walk(SubSeq(at, 1, Len(at) - k), SubSeq(rest, k + 1, Len(rest)))

(* A walk up, no further than to the root.                                 *)
LEMMA WalksUp ==
    ASSUME NEW root, NEW path, NEW call, NEW a \in Seq(Nat), NEW t \in Seq(Segments),
           NEW k \in Nat, k <= Len(t), k <= Len(a), \A i \in 1..k : t[i] = Up,
           NEW j \in Nat, j + k <= ResolveLimit,
           Resolving(root, path, call)[j] = Walk(a, t)
    PROVE  Resolving(root, path, call)[j + k] = Risen(a, t, k)
<1> DEFINE walk == Resolving(root, path, call)
           l == Len(a)
           m == Len(t)
           On(n) == Walk(SubSeq(a, 1, l - n), SubSeq(t, n + 1, m))
           S == {n \in 0..k : walk[j + n] = On(n)}
<1>0. /\ l \in Nat /\ m \in Nat /\ k \in 0..k /\ l - 0 = l /\ j + 0 = j /\ 0 + 1 = 1
      /\ k <= m /\ k <= l
  OBVIOUS
<1>1. \A n \in 0..ResolveLimit : n # ResolveLimit => walk[n + 1] = ResolveStep(root, call, walk[n])
  BY ResolvingSteps
<1>2. 0 \in S
  <2>1. SubSeq(a, 1, l) = a /\ SubSeq(t, 1, m) = t
    BY SubSeqFull
  <2>2. 0 \in 0..k
    OBVIOUS
  <2> QED
    BY <1>0, <2>1, <2>2
<1>a. j + k <= ResolveLimit /\ ResolveLimit \in Nat
  BY ResolveLimitIsNat
<1> HIDE DEF walk, l, m
<1>3. ASSUME NEW n \in 0..k, n # k, n \in S PROVE n + 1 \in S
  <2>1. /\ n \in Nat /\ n + 1 \in 1..k /\ n + 1 \in 1..m /\ l - n \in 1..l /\ n + 1 \in 0..k
        /\ j + n \in 0..ResolveLimit /\ j + n # ResolveLimit
        /\ j + n + 1 = j + (n + 1) /\ l - n - 1 = l - (n + 1)
    BY <1>0, <1>3, <1>a
  <2>2. t[n + 1] = Up
    BY <2>1
  <2>3. ResolveStep(root, call, On(n)) = Walk(SubSeq(a, 1, l - n - 1), SubSeq(t, n + 1 + 1, m))
    <3> DEFINE q == l - n
               r == n + 1
    <3>1. q \in 1..l /\ r \in 1..m /\ t[r] = Up
      BY <2>1, <2>2
    <3> HIDE DEF q, r
    <3>2. ResolveStep(root, call, Walk(SubSeq(a, 1, q), SubSeq(t, r, m)))
              = Walk(SubSeq(a, 1, q - 1), SubSeq(t, r + 1, m))
      BY <3>1, StepUp DEF l, m
    <3> QED
      BY <3>2 DEF q, r
  <2>4. walk[j + n + 1] = ResolveStep(root, call, On(n))
    BY <1>1, <1>3, <2>1
  <2>5. walk[j + (n + 1)] = On(n + 1)
    BY <2>1, <2>3, <2>4
  <2> QED
    BY <2>1, <2>5
<1> HIDE DEF S
<1>b. \A n \in 0..k : n # k /\ n \in S => n + 1 \in S
  BY <1>3, Zenon
<1>4. 0..k \subseteq S
  BY <1>0, <1>2, <1>b, Induction, Zenon
<1>5. walk[j + k] = On(k)
  BY <1>0, <1>4 DEF S
<1> QED
  BY <1>5 DEF walk, l, m, Risen

(* A walk that has arrived stays.                                          *)
LEMMA WalkStays ==
    ASSUME NEW root, NEW path, NEW call, NEW name, NEW j \in 0..ResolveLimit,
           Resolving(root, path, call)[j] = Walk(name, <<>>)
    PROVE  Resolving(root, path, call)[ResolveLimit] = Walk(name, <<>>)
<1> DEFINE walk == Resolving(root, path, call)
           N == ResolveLimit - j
           S == {n \in 0..N : walk[j + n] = Walk(name, <<>>)}
<1>0. N \in Nat /\ N \in 0..N /\ j + 0 = j /\ j + N = ResolveLimit /\ ResolveLimit \in Nat
  BY ResolveLimitIsNat
<1>1. \A n \in 0..ResolveLimit : n # ResolveLimit => walk[n + 1] = ResolveStep(root, call, walk[n])
  BY ResolvingSteps
<1>2. 0 \in S
  BY <1>0
<1> HIDE DEF walk
<1>3. ASSUME NEW n \in 0..N, n # N, n \in S PROVE n + 1 \in S
  <2>1. /\ j + n \in 0..ResolveLimit /\ j + n # ResolveLimit /\ n + 1 \in 0..N
        /\ j + n + 1 = j + (n + 1)
    BY <1>0, <1>3
  <2>2. Walk(name, <<>>).rest = <<>>
    BY DEF Walk
  <2>3. ResolveStep(root, call, Walk(name, <<>>)) = Walk(name, <<>>)
    BY <2>2 DEF ResolveStep
  <2>4. walk[j + (n + 1)] = Walk(name, <<>>)
    BY <1>1, <1>3, <2>1, <2>3
  <2> QED
    BY <2>1, <2>4
<1> HIDE DEF S, N
<1>b. \A n \in 0..N : n # N /\ n \in S => n + 1 \in S
  BY <1>3, Zenon
<1>4. 0..N \subseteq S
  BY <1>0, <1>2, <1>b, Induction, Zenon
<1> QED
  BY <1>0, <1>4 DEF S, walk

-----------------------------------------------------------------------------
(* What Build accepts, as a set of entries.                                *)
Closed(E) ==
    /\ IsFiniteSet(E)
    /\ \A e \in E : /\ e \in rootfsBuildEntry /\ e.name \in Seq(Nat) /\ e.name # <<>>
                    /\ e.type \in {"file", "executable", "link"}
                    /\ e.type = "link" => validateSymlink(e)
    /\ \A d, e \in E : d.name = e.name => d = e
    /\ validateRootFSItemClosure(E)

(* A tree that holds these entries.                                        *)
Unpacked(root, E) ==
    /\ root.directories = Directories(E)
    /\ root.files = {e \in E : e.type # "link"}
    /\ root.links = {e \in E : e.type = "link"}

(* A name has one parent less than segments.                               *)
LEMMA ParentsAreCounted ==
    ASSUME NEW name \in Seq(Nat), name # <<>>
    PROVE  IsFiniteSet(Parents(name)) /\ Cardinality(Parents(name)) = Len(name) - 1
<1> DEFINE N == Len(name) - 1
           f == [i \in 1..N |-> SubSeq(name, 1, i)]
<1>0. Len(name) \in Nat /\ N \in Nat
  BY EmptySeq
<1>1. ASSUME NEW i \in 1..N PROVE Len(SubSeq(name, 1, i)) = i
  <2>1. 1 \in 1..(Len(name) + 1) /\ i \in (1 - 1)..Len(name) /\ i - 1 + 1 = i
    BY <1>0
  <2> QED
    BY <2>1, Pieces
<1>2. f \in Injection(1..N, Parents(name))
  <2>1. f \in [1..N -> Parents(name)]
    BY DEF Parents
  <2>2. \A i, j \in 1..N : f[i] = f[j] => i = j
    BY <1>1
  <2> QED
    BY <2>1, <2>2 DEF Injection, IsInjective
<1>3. f \in Surjection(1..N, Parents(name))
  <2>1. f \in [1..N -> Parents(name)]
    BY DEF Parents
  <2>2. \A t \in Parents(name) : \E i \in 1..N : f[i] = t
    BY DEF Parents
  <2> QED
    BY <2>1, <2>2 DEF Surjection
<1> HIDE DEF f, N
<1>4. IsFiniteSet(1..N) /\ Cardinality(1..N) = N
  <2>1. 1 \in Int /\ N \in Int
    BY <1>0
  <2>2. IsFiniteSet(1..N) /\ Cardinality(1..N) = IF 1 > N THEN 0 ELSE N - 1 + 1
    BY <2>1, FS_Interval
  <2> QED
    BY <1>0, <2>2
<1>5. ExistsBijection(1..N, Parents(name))
  BY <1>2, <1>3 DEF ExistsBijection, Bijection
<1> QED
  BY <1>4, <1>5, FS_Bijection DEF N

(* The directories of finitely many entries are finitely many.             *)
LEMMA DirectoriesAreFinite ==
    ASSUME NEW E, Closed(E)
    PROVE  IsFiniteSet(Directories(E))
<1> DEFINE P == {Parents(e.name) : e \in E}
           f == [e \in E |-> Parents(e.name)]
<1>1. f \in Surjection(E, P)
  <2>1. f \in [E -> P] /\ \A t \in P : \E e \in E : f[e] = t
    OBVIOUS
  <2> QED
    BY <2>1 DEF Surjection
<1>2. IsFiniteSet(P)
  BY <1>1, FS_Surjection DEF Closed
<1>3. \A t \in P : IsFiniteSet(t)
  BY ParentsAreCounted DEF Closed
<1> QED
  BY <1>2, <1>3, FS_UNION DEF Directories

(* No name is longer than the tree has items.                              *)
LEMMA NamesAreShort ==
    ASSUME NEW E, Closed(E), NEW e \in E
    PROVE  Len(e.name) \in 1..maximumRootFSItems
<1>1. IsFiniteSet(Directories(E)) /\ IsFiniteSet(E) /\ e.name \in Seq(Nat) /\ e.name # <<>>
  BY DirectoriesAreFinite DEF Closed
<1>2. Parents(e.name) \in SUBSET Directories(E)
  BY DEF Directories
<1>3. /\ Cardinality(Parents(e.name)) = Len(e.name) - 1
      /\ Cardinality(Parents(e.name)) <= Cardinality(Directories(E))
  BY <1>1, <1>2, ParentsAreCounted, FS_Subset
<1>4. Cardinality(E) \in Nat /\ Cardinality(E) # 0 /\ Cardinality(Directories(E)) \in Nat
  BY <1>1, FS_CardinalityType, FS_EmptySet
<1>5. Cardinality(E) + Cardinality(Directories(E)) <= maximumRootFSItems /\ maximumRootFSItems \in Nat
  BY RootFSAssumption DEF Closed, validateRootFSItemClosure
<1>6. Len(e.name) \in Nat /\ Len(e.name) # 0
  BY <1>1, EmptySeq
<1>7. \A c, d, l, m \in Nat : c # 0 /\ l # 0 /\ l - 1 <= d /\ c + d <= m => l \in 1..m
  OBVIOUS
<1>8. Len(e.name) - 1 <= Cardinality(Directories(E))
  BY <1>3
<1> QED
  BY <1>4, <1>5, <1>6, <1>7, <1>8, Zenon

(* Nothing stands in the way of an entry.                                  *)
LEMMA EntriesAreClear ==
    ASSUME NEW E, Closed(E), NEW root, Unpacked(root, E), NEW e \in E
    PROVE  Clear(root, e.name)
<1> SUFFICES ASSUME NEW i \in 1..(Len(e.name) - 1)
             PROVE  /\ SubSeq(e.name, 1, i) \in root.directories
                    /\ Named(root.links, SubSeq(e.name, 1, i)) = {}
  BY DEF Clear
<1>1. SubSeq(e.name, 1, i) \in Directories(E)
  BY DEF Directories, Parents
<1>2. \A d \in E : d.name # SubSeq(e.name, 1, i)
  BY <1>1 DEF Closed, validateRootFSItemClosure
<1> QED
  BY <1>1, <1>2 DEF Unpacked, Named

(* An entry is what its name names.                                        *)
LEMMA EntriesAreNamed ==
    ASSUME NEW E, Closed(E), NEW root, Unpacked(root, E), NEW e \in E
    PROVE  Named(root.files \cup root.links, e.name) = {e}
<1>1. \A d \in E : d.name = e.name => d = e
  BY DEF Closed
<1> QED
  BY <1>1 DEF Unpacked, Named

(* A link is the link of its name.                                         *)
LEMMA LinksAreNamed ==
    ASSUME NEW E, Closed(E), NEW root, Unpacked(root, E), NEW e \in E
    PROVE  e.type = "link" => e \in root.links /\ Named(root.links, e.name) = {e}
<1>1. \A d \in E : d.name = e.name => d = e
  BY DEF Closed
<1> QED
  BY <1>1 DEF Unpacked, Named

(* And no link has the name of a file.                                     *)
LEMMA FilesAreNoLinks ==
    ASSUME NEW E, Closed(E), NEW root, Unpacked(root, E), NEW e \in E
    PROVE  e.type # "link" => Named(root.links, e.name) = {}
<1>1. \A d \in E : d.name = e.name => d = e
  BY DEF Closed
<1> QED
  BY <1>1 DEF Unpacked, Named

(* The way down to an entry's last segment.                                *)
LEMMA WalksToEntry ==
    ASSUME NEW E, Closed(E), NEW root, Unpacked(root, E), NEW e \in E, NEW path, NEW call,
           NEW p \in Nat, p < Len(e.name), NEW j \in Nat, j + (Len(e.name) - p) <= ResolveLimit,
           Resolving(root, path, call)[j]
               = Walk(SubSeq(e.name, 1, p), SubSeq(e.name, p + 1, Len(e.name)))
    PROVE  /\ j + (Len(e.name) - p) \in Nat
           /\ call # "exec" \/ e.type # "link" =>
                 Resolving(root, path, call)[j + (Len(e.name) - p)] = Walk(e.name, <<>>)
           /\ call = "exec" /\ e.type = "link" =>
                 Resolving(root, path, call)[j + (Len(e.name) - p)] = Walk(Front(e.name), e.target)
<1> DEFINE name == e.name
           l == Len(name)
           walk == Resolving(root, path, call)
           n == j + (l - p - 1)
           last == Walk(SubSeq(name, 1, l - 1), SubSeq(name, l, l))
<1>1. name \in Seq(Nat) /\ name # <<>> /\ e.target \in Seq(Segments) /\ Clear(root, name)
  BY EntriesAreClear DEF Closed, rootfsBuildEntry
<1>a. /\ p < l /\ j + (l - p) <= ResolveLimit /\ ResolveLimit \in Nat /\ l \in Nat
      /\ walk[j] = Walk(SubSeq(name, 1, p), SubSeq(name, p + 1, l))
  BY <1>1, ResolveLimitIsNat
<1>b. e.type = "link" => e \in root.links /\ Named(root.links, name) = {e}
  BY LinksAreNamed
<1>c. e.type # "link" => Named(root.links, name) = {}
  BY FilesAreNoLinks
<1> HIDE DEF name
<1>2. walk[n] = last
  BY <1>1, <1>a, WalksDown
<1>3. \A m \in 0..ResolveLimit : m # ResolveLimit => walk[m + 1] = ResolveStep(root, call, walk[m])
  BY ResolvingSteps
<1>5. call # "exec" \/ e.type # "link" => ResolveStep(root, call, last) = Walk(name, <<>>)
  BY <1>1, <1>c, StepOnto
<1>6. e.type = "link" => ResolveStep(root, "exec", last) = Walk(Front(name), e.target)
  BY <1>1, <1>b, StepThrough DEF Front
<1> HIDE DEF l
<1>4. n \in 0..ResolveLimit /\ n # ResolveLimit /\ n + 1 = j + (l - p) /\ j + (l - p) \in Nat
  BY <1>a
<1> HIDE DEF walk, n, last
<1>7. walk[j + (l - p)] = ResolveStep(root, call, last)
  BY <1>2, <1>3, <1>4
<1> QED
  BY <1>4, <1>5, <1>6, <1>7 DEF name, l, walk

(* What Install's own check finds at an entry's name: the entry.           *)
LEMMA EntriesAreFound ==
    ASSUME NEW E, Closed(E), NEW root, Unpacked(root, E), NEW e \in E
    PROVE  Resolve(root, e.name, "lstat") = {e}
<1> DEFINE l == Len(e.name)
           walk == Resolving(root, e.name, "lstat")
<1>1. l \in 1..maximumRootFSItems
  BY NamesAreShort
<1>2. l <= ResolveLimit
  <2>1. \A s \in Nat \ {0} : \A m \in Nat : \A n \in 1..m : n <= 2 * s * m
    <3>1. ASSUME NEW s \in Nat \ {0}, NEW m \in Nat PROVE m <= 2 * s * m
      <4>1. 2 * s * m = m * (2 * s) /\ 2 * s >= 1 /\ 2 * s \in Nat
        OBVIOUS
      <4>2. \A x \in Nat : x >= 1 => m <= m * x
        OBVIOUS
      <4> QED
        BY <4>1, <4>2
    <3>2. \A s \in Nat \ {0} : \A m \in Nat : 2 * s * m \in Nat
      OBVIOUS
    <3>3. \A m, n, x \in Nat : n \in 1..m /\ m <= x => n <= x
      OBVIOUS
    <3> QED
      BY <3>1, <3>2, <3>3
  <2> QED
    BY <1>1, <2>1, RootFSAssumption, Zenon DEF ResolveLimit
<1>3. walk[0] = Walk(SubSeq(e.name, 1, 0), SubSeq(e.name, 0 + 1, l))
  <2>1. e.name \in Seq(Nat)
    BY DEF Closed
  <2>2. SubSeq(e.name, 1, 0) = <<>> /\ SubSeq(e.name, 1, l) = e.name
    BY <2>1, SubSeqEmpty, SubSeqFull
  <2>3. walk[0] = Walk(<<>>, e.name)
    BY ResolvingSteps
  <2>4. 0 + 1 = 1
    OBVIOUS
  <2> QED
    BY <2>2, <2>3, <2>4
<1>4. l \in Nat /\ 0 < l /\ 0 + (l - 0) <= ResolveLimit /\ 0 + (l - 0) = l
  BY <1>1, <1>2
<1>5. walk[l] = Walk(e.name, <<>>)
  <2>1. walk[0 + (l - 0)] = Walk(e.name, <<>>)
    BY <1>3, <1>4, WalksToEntry
  <2> QED
    BY <1>4, <2>1
<1>6. l \in 0..ResolveLimit
  BY <1>1, <1>2, ResolveLimitIsNat
<1> HIDE DEF l
<1>7. walk[ResolveLimit] = Walk(e.name, <<>>)
  BY <1>5, <1>6, WalkStays
<1>8. Resolve(root, e.name, "lstat") = Named(root.files \cup root.links, e.name)
  BY <1>7 DEF Resolve, Walk
<1>9. Named(root.files \cup root.links, e.name) = {e}
  BY EntriesAreNamed
<1> HIDE DEF walk, l
<1> QED
  BY <1>8, <1>9

(* A chain of entries from one to the next, over the links' targets.       *)
Chain(E, chain, length) ==
    /\ length \in 1..SymlinkLimit
    /\ chain \in [1..length -> E]
    /\ \A n \in 1..(length - 1) : chain[n].type = "link" /\ chain[n + 1].name = Target(chain[n])
    /\ chain[length].type = "executable"

(* What Build follows, Install follows.                                    *)
LEMMA ChainIsInstalled ==
    ASSUME NEW E, Closed(E), NEW root, Unpacked(root, E),
           NEW chain, NEW length, Chain(E, chain, length)
    PROVE  validateInstalledEntrypoint(root, chain[1].name)
<1> DEFINE current == InstalledNames(root, chain[1].name)
           N == SymlinkLimit - 1
           On(n) == IF n < length THEN chain[n + 1].name ELSE chain[length].name
           S == {n \in 0..N : current[n] = On(n)}
<1>0. /\ N \in Nat /\ N \in 0..N /\ length \in Nat /\ 0 < length /\ 0 + 1 = 1 /\ length - 1 <= N
      /\ length \in 1..length
  BY RootFSAssumption DEF Chain
<1>1. current[0] = chain[1].name /\ \A n \in 0..N : n # N => current[n + 1] = InstalledStep(root, current[n])
  BY InstalledNamesSteps
<1> HIDE DEF current
<1>2. 0 \in S
  BY <1>0, <1>1
<1>a. ASSUME NEW e \in E
      PROVE  /\ e.type = "link" => InstalledStep(root, e.name) = Target(e)
             /\ e.type # "link" => InstalledStep(root, e.name) = e.name
  <2>1. Resolve(root, e.name, "lstat") = {e}
    BY EntriesAreFound
  <2>2. validateRelativePath(e.name)
    <3>1. e.name \in Seq(Nat) /\ e.name # <<>>
      BY DEF Closed
    <3> QED
      BY <3>1, RangeOfSeq DEF validateRelativePath
  <2>3. (CHOOSE d \in {e} : TRUE) = e
    OBVIOUS
  <2> QED
    BY <2>1, <2>2, <2>3 DEF InstalledStep, Target
<1>3. ASSUME NEW n \in 0..N, n # N, n \in S PROVE n + 1 \in S
  <2>1. n + 1 \in 0..N /\ current[n + 1] = InstalledStep(root, On(n))
    BY <1>0, <1>1, <1>3
  <2>2. CASE n + 1 < length
    <3>1. n < length /\ n + 1 \in 1..(length - 1) /\ n + 1 \in 1..length
      BY <1>0, <2>2
    <3>2. /\ chain[n + 1] \in E /\ chain[n + 1].type = "link"
          /\ chain[n + 1 + 1].name = Target(chain[n + 1])
      BY <3>1 DEF Chain
    <3>3. current[n + 1] = On(n + 1)
      BY <1>a, <2>1, <2>2, <3>1, <3>2
    <3> QED
      BY <2>1, <3>3
  <2>3. CASE ~(n + 1 < length)
    <3>1. ~(n < length) \/ n + 1 = length
      BY <1>0, <2>3
    <3>2. On(n) = chain[length].name
      BY <3>1
    <3>3. chain[length] \in E /\ chain[length].type # "link"
      BY <1>0 DEF Chain
    <3>4. current[n + 1] = On(n + 1)
      BY <1>a, <2>1, <2>3, <3>2, <3>3
    <3> QED
      BY <2>1, <3>4
  <2> QED
    BY <2>2, <2>3
<1> HIDE DEF S, N
<1>b. \A n \in 0..N : n # N /\ n \in S => n + 1 \in S
  BY <1>3, Zenon
<1>4. 0..N \subseteq S
  BY <1>0, <1>2, <1>b, Induction, Zenon
<1>5. current[N] = chain[length].name
  <2>1. current[N] = On(N)
    BY <1>0, <1>4 DEF S
  <2>2. N < length => N + 1 = length
    BY <1>0
  <2> QED
    BY <2>1, <2>2
<1>6. chain[length] \in E /\ chain[length].type = "executable"
  BY <1>0 DEF Chain
<1>7. Resolve(root, chain[length].name, "lstat") = {chain[length]}
  <2>1. \A e \in E : Resolve(root, e.name, "lstat") = {e}
    BY EntriesAreFound
  <2> QED
    BY <1>6, <2>1
<1>8. validateRelativePath(chain[length].name)
  <2>1. chain[length].name \in Seq(Nat) /\ chain[length].name # <<>>
    BY <1>6 DEF Closed
  <2> QED
    BY <2>1, RangeOfSeq DEF validateRelativePath
<1> QED
  BY <1>5, <1>6, <1>7, <1>8 DEF validateInstalledEntrypoint, current, N

(* A path made of two, taken apart.                                        *)
LEMMA ConcatPieces ==
    ASSUME NEW T, NEW u \in Seq(T), NEW v \in Seq(T)
    PROVE  /\ SubSeq(u \o v, 1, Len(u)) = u
           /\ SubSeq(u \o v, Len(u) + 1, Len(u \o v)) = v
           /\ Len(u \o v) = Len(u) + Len(v)
<1> DEFINE w == u \o v
           l == Len(u)
           m == Len(v)
<1>1. /\ w \in Seq(T) /\ Len(w) = l + m /\ l \in Nat /\ m \in Nat
      /\ \A i \in 1..(l + m) : w[i] = IF i <= l THEN u[i] ELSE v[i - l]
  BY ConcatProperties
<1> HIDE DEF w, l, m
<1>2. /\ 1 \in 1..(Len(w) + 1) /\ l \in (1 - 1)..Len(w) /\ l - 1 + 1 = l
      /\ l + 1 \in 1..(Len(w) + 1) /\ Len(w) \in ((l + 1) - 1)..Len(w) /\ Len(w) - (l + 1) + 1 = m
  BY <1>1
<1>3. SubSeq(w, 1, l) = u
  <2>1. /\ SubSeq(w, 1, l) \in Seq(T) /\ Len(SubSeq(w, 1, l)) = l
        /\ \A i \in 1..l : SubSeq(w, 1, l)[i] = w[1 + i - 1]
    <3>1. /\ SubSeq(w, 1, l) \in Seq(T) /\ Len(SubSeq(w, 1, l)) = l - 1 + 1
          /\ \A i \in 1..(l - 1 + 1) : SubSeq(w, 1, l)[i] = w[1 + i - 1]
      BY <1>1, <1>2, Pieces
    <3> QED
      BY <1>2, <3>1
  <2>2. \A i \in 1..l : 1 + i - 1 = i /\ i \in 1..(l + m) /\ i <= l
    BY <1>1
  <2>3. \A i \in 1..l : SubSeq(w, 1, l)[i] = u[i]
    BY <1>1, <2>1, <2>2
  <2> QED
    BY <2>1, <2>3, SeqEqual DEF l
<1>4. SubSeq(w, l + 1, Len(w)) = v
  <2> DEFINE c == l + 1
             d == Len(w)
  <2>0. c \in 1..(Len(w) + 1) /\ d \in (c - 1)..Len(w) /\ d - c + 1 = m
    BY <1>2
  <2>a. ASSUME NEW i \in 1..m PROVE w[c + i - 1] = v[i]
    <3>1. l + i \in 1..(l + m) /\ ~(l + i <= l) /\ (l + i) - l = i /\ c + i - 1 = l + i
      BY <1>1
    <3> QED
      BY <1>1, <3>1
  <2> HIDE DEF c, d
  <2>1. /\ SubSeq(w, c, d) \in Seq(T) /\ Len(SubSeq(w, c, d)) = d - c + 1
        /\ \A i \in 1..(d - c + 1) : SubSeq(w, c, d)[i] = w[c + i - 1]
    BY <1>1, <2>0, Pieces
  <2>2. \A i \in 1..m : SubSeq(w, c, d)[i] = v[i]
    BY <2>0, <2>1, <2>a
  <2>3. SubSeq(w, c, d) = v
    BY <2>0, <2>1, <2>2, SeqEqual DEF m
  <2> QED
    BY <2>3 DEF c, d
<1> QED
  BY <1>1, <1>3, <1>4 DEF w, l, m

(* How many steps a walk may have taken before it has come to the entry    *)
(* after m links.                                                          *)
Budget(m) == (2 * m + 1) * maximumRootFSItems

(* They are never more than a walk has.                                    *)
LEMMA BudgetIsKept ==
    /\ Budget(0) = maximumRootFSItems
    /\ \A m \in Nat : /\ Budget(m) \in Nat
                      /\ Budget(m + 1) = Budget(m) + 2 * maximumRootFSItems
                      /\ m < SymlinkLimit => Budget(m) <= ResolveLimit
<1> DEFINE M == maximumRootFSItems
           s == SymlinkLimit
<1>0. M \in Nat /\ s \in Nat
  BY RootFSAssumption
<1>1. \A m \in Nat : (2 * m + 1) * M \in Nat /\ (2 * (m + 1) + 1) * M = (2 * m + 1) * M + 2 * M
  BY <1>0
<1>2. (2 * 0 + 1) * M = M
  BY <1>0
<1>3. \A m \in Nat : m < s => (2 * m + 1) * M <= 2 * s * M
  <2> SUFFICES ASSUME NEW m \in Nat, m < s PROVE (2 * m + 1) * M <= 2 * s * M
    OBVIOUS
  <2>1. 2 * s - (2 * m + 1) \in Nat
    BY <1>0
  <2>2. \A x, y \in Nat : x * y \in Nat
    OBVIOUS
  <2>3. (2 * s - (2 * m + 1)) * M \in Nat
    BY <1>0, <2>1, <2>2
  <2>4. (2 * s - (2 * m + 1)) * M = 2 * s * M - (2 * m + 1) * M
    BY <1>0
  <2>5. 2 * s * M \in Int /\ (2 * m + 1) * M \in Int
    BY <1>0
  <2>6. \A x, y \in Int : x - y \in Nat => y <= x
    OBVIOUS
  <2> QED
    BY <2>3, <2>4, <2>5, <2>6
<1> QED
  BY <1>1, <1>2, <1>3 DEF Budget, ResolveLimit

(* A walk that is on its way to an entry, and there after b steps.         *)
Nears(root, path, e, b) ==
    \E j, p \in Nat :
        /\ p < Len(e.name) /\ j + (Len(e.name) - p) <= b
        /\ Resolving(root, path, "exec")[j]
               = Walk(SubSeq(e.name, 1, p), SubSeq(e.name, p + 1, Len(e.name)))

(* From a link to the entry that its target names, where the target goes   *)
(* up first: to the directory above both, and down again.                  *)
LEMMA LinkRuns ==
    ASSUME NEW E, Closed(E), NEW root, Unpacked(root, E), NEW path,
           NEW e \in E, NEW d \in E, e.type = "link", d.name = Target(e), GoesUpFirst(e.target),
           NEW b \in Nat, b + 2 * maximumRootFSItems <= ResolveLimit, Nears(root, path, e, b)
    PROVE  Nears(root, path, d, b + 2 * maximumRootFSItems)
<1>0. PICK j \in Nat, p \in Nat :
          /\ p < Len(e.name) /\ j + (Len(e.name) - p) <= b
          /\ Resolving(root, path, "exec")[j]
                 = Walk(SubSeq(e.name, 1, p), SubSeq(e.name, p + 1, Len(e.name)))
  BY DEF Nears
<1> DEFINE walk == Resolving(root, path, "exec")
           M == maximumRootFSItems
           name == e.name
           t == e.target
           a == Front(name)
           l == Len(name)
           i == j + (l - p)
<1>1. M \in Nat /\ ResolveLimit \in Nat
  BY ResolveLimitIsNat, RootFSAssumption
<1>2. /\ l \in 1..M /\ name \in Seq(Nat) /\ t \in Seq(Segments)
      /\ Len(d.name) \in 1..M /\ d.name \in Seq(Nat) /\ d.name # <<>>
      /\ Target(e) = <<>> \/ Head(Target(e)) # Up
  BY NamesAreShort DEF Closed, rootfsBuildEntry, validateSymlink
<1>3. PICK k \in 0..Len(t) : \A n \in DOMAIN t : t[n] = Up <=> n <= k
  BY DEF GoesUpFirst
<1>4. a \in Seq(Nat) /\ Len(a) = l - 1
  <2>1. 1 \in 1..(l + 1) /\ l - 1 \in (1 - 1)..l /\ l - 1 - 1 + 1 = l - 1
    BY <1>1, <1>2
  <2> QED
    BY <1>2, <2>1, Pieces DEF Front
<1>5. /\ k <= Len(a)
      /\ Target(e) = SubSeq(a, 1, Len(a) - k) \o SubSeq(t, k + 1, Len(t))
  BY <1>2, <1>3, <1>4, CleansTarget DEF Target
<1>6. i \in Nat /\ i <= b /\ i <= ResolveLimit
  <2>1. l \in Nat /\ p < l /\ j + (l - p) <= b /\ b + 2 * M <= ResolveLimit
    BY <1>0, <1>1, <1>2
  <2> HIDE DEF l, M
  <2> QED
    BY <1>1, <2>1
<1>7. walk[i] = Walk(a, t)
  <2>1. j + (l - p) <= ResolveLimit /\ p < l
    BY <1>0, <1>6
  <2> HIDE DEF i, a, t, walk, name, l
  <2>2. Resolving(root, path, "exec")[j + (Len(e.name) - p)] = Walk(Front(e.name), e.target)
    <3>1. /\ p < Len(e.name) /\ j + (Len(e.name) - p) <= ResolveLimit
          /\ Resolving(root, path, "exec")[j]
                 = Walk(SubSeq(e.name, 1, p), SubSeq(e.name, p + 1, Len(e.name)))
      BY <1>0, <2>1 DEF name, l
    <3> QED
      BY <3>1, WalksToEntry, SMTT(30)
  <2> QED
    BY <2>2 DEF i, a, t, walk, name, l
<1> DEFINE g == Len(t)
           q == l - 1 - k
           u == SubSeq(a, 1, q)
           v == SubSeq(t, k + 1, g)
           c == i + k
           h == Len(d.name)
<1>8. g \in Nat /\ DOMAIN t = 1..g
  BY <1>2, LenProperties
<1>9. d.name = u \o v
  BY <1>4, <1>5
<1>a. p < l /\ i = j + (l - p) /\ i <= b /\ b + 2 * M <= ResolveLimit /\ k <= l - 1
  BY <1>0, <1>4, <1>5, <1>6
<1> HIDE DEF i, l, g, M, name
<1>10. /\ k \in Nat /\ k <= g /\ k <= M /\ q \in Nat /\ q <= l - 1 /\ l - 1 - k = q /\ l \in Nat
       /\ c \in Nat /\ c <= ResolveLimit
       /\ \A x \in Nat : x <= M => c + x <= b + 2 * M
  <2>1. /\ k \in Nat /\ k <= g /\ l \in Nat /\ l <= M /\ M \in Nat
        /\ i \in Nat /\ i <= b /\ ResolveLimit \in Nat
    BY <1>1, <1>2, <1>3, <1>6 DEF name, g
  <2>2. k <= l - 1 /\ b + 2 * M <= ResolveLimit
    BY <1>a
  <2> QED
    BY <2>1, <2>2
<1>11. walk[c] = Walk(u, v)
  <2>1. \A n \in 1..k : t[n] = Up
    <3>0. \A x, y \in Nat : x <= y => \A n \in 1..x : n \in 1..y /\ n <= x
      OBVIOUS
    <3>1. \A n \in 1..k : n \in 1..g /\ n <= k
      BY <1>8, <1>10, <3>0, Zenon
    <3> QED
      BY <1>3, <1>8, <3>1
  <2>2. k <= Len(a) /\ Len(a) - k = q
    BY <1>4, <1>a
  <2>3. walk[i + k] = Walk(SubSeq(a, 1, Len(a) - k), SubSeq(t, k + 1, Len(t)))
    <3>1. /\ a \in Seq(Nat) /\ t \in Seq(Segments) /\ k \in Nat /\ k <= Len(t) /\ k <= Len(a)
          /\ i \in Nat /\ i + k <= ResolveLimit
      BY <1>2, <1>4, <1>6, <1>10, <2>2 DEF g
    <3> HIDE DEF a, t
    <3>2. walk[i + k] = Risen(a, t, k)
      BY <1>7, <2>1, <3>1, WalksUp
    <3> QED
      BY <3>2 DEF Risen, a, t
  <2> QED
    BY <2>2, <2>3 DEF g
<1>12. u \in Seq(Nat) /\ Len(u) = q /\ v \in Seq(Segments)
  <2>1. /\ 1 \in 1..(Len(a) + 1) /\ q \in (1 - 1)..Len(a) /\ q - 1 + 1 = q
        /\ k + 1 \in 1..(g + 1) /\ g \in ((k + 1) - 1)..g
    BY <1>4, <1>8, <1>10
  <2>2. u \in Seq(Nat) /\ Len(u) = q - 1 + 1
    BY <1>4, <2>1, Pieces
  <2>3. v \in Seq(Segments)
    BY <1>2, <2>1, Pieces DEF g
  <2> QED
    BY <2>1, <2>2, <2>3
<1>13. /\ u \in Seq(Segments)
       /\ SubSeq(d.name, 1, Len(u)) = u /\ SubSeq(d.name, Len(u) + 1, Len(d.name)) = v
       /\ h = q + Len(v) /\ Len(v) \in Nat
  <2>1. u \in Seq(Segments)
    BY <1>12, SeqMonotonic DEF Segments
  <2>2. /\ SubSeq(u \o v, 1, Len(u)) = u /\ SubSeq(u \o v, Len(u) + 1, Len(u \o v)) = v
        /\ Len(u \o v) = Len(u) + Len(v) /\ Len(v) \in Nat
    <3> HIDE DEF u, v
    <3>1. Len(v) \in Nat /\ v \in Seq(Segments)
      BY <1>12, LenProperties
    <3>2. /\ SubSeq(u \o v, 1, Len(u)) = u
          /\ SubSeq(u \o v, Len(u) + 1, Len(u \o v)) = v
          /\ Len(u \o v) = Len(u) + Len(v)
      BY <2>1, <3>1, ConcatPieces, Zenon
    <3> QED
      BY <3>1, <3>2
  <2> QED
    BY <1>9, <1>12, <2>1, <2>2, Zenon
<1> HIDE DEF u, v, c, q
<1>14. v # <<>>
  <2> SUFFICES ASSUME v = <<>> PROVE FALSE
    OBVIOUS
  <2>1. d.name = u
    BY <1>9, <1>13, ConcatEmptySeq
  <2>2. q # 0
    BY <1>2, <1>12, <2>1
  <2>3. q \in 1..(l - 1) /\ l \in Nat
    BY <1>10, <2>2
  <2>4. u = SubSeq(name, 1, q)
    <3>1. /\ 1 \in 1..l /\ l - 1 \in 1..l /\ 1 \in 1..(l - 1 - 1 + 1) /\ q \in 1..(l - 1 - 1 + 1)
          /\ 1 + 1 - 1 = 1 /\ 1 + q - 1 = q
      BY <2>3
    <3>2. SubSeq(SubSeq(name, 1, l - 1), 1, q) = SubSeq(name, 1 + 1 - 1, 1 + q - 1)
      BY <1>2, <3>1, SubSeqOfSubSeq DEF l, name
    <3> QED
      BY <3>1, <3>2 DEF Front, u, l, name
  <2>5. d.name \in Directories(E)
    BY <2>1, <2>3, <2>4 DEF Directories, Parents, name, l
  <2> QED
    BY <2>5 DEF Closed, validateRootFSItemClosure
<1>15. Len(v) # 0
  BY <1>12, <1>14, EmptySeq
<1>16. q < h /\ c + (h - q) <= b + 2 * M
  <2>1. h \in Nat /\ h <= M
    BY <1>2
  <2> HIDE DEF h
  <2>2. q < h
    BY <1>10, <1>13, <1>15, <2>1
  <2>3. c + h <= b + 2 * M /\ c \in Nat /\ q \in Nat
    BY <1>10, <2>1
  <2>4. c + (h - q) <= c + h /\ c + (h - q) \in Int /\ b + 2 * M \in Int
    BY <1>1, <2>1, <2>3
  <2> HIDE DEF M
  <2> QED
    BY <2>1, <2>2, <2>3, <2>4
<1>17. walk[c] = Walk(SubSeq(d.name, 1, q), SubSeq(d.name, q + 1, h))
  BY <1>11, <1>12, <1>13
<1> QED
  BY <1>10, <1>16, <1>17 DEF M, Nears

(* What Build follows by name, a kernel follows by segments, where every   *)
(* target goes up first.                                                   *)
LEMMA ChainRuns ==
    ASSUME NEW E, Closed(E), NEW root, Unpacked(root, E),
           NEW chain, NEW length, Chain(E, chain, length),
           \A e \in E : e.type = "link" => GoesUpFirst(e.target)
    PROVE  Resolve(root, chain[1].name, "exec") = {chain[length]}
<1> DEFINE walk == Resolving(root, chain[1].name, "exec")
           N == length - 1
           S == {m \in 0..N : Nears(root, chain[1].name, chain[m + 1], Budget(m))}
<1>0. /\ N \in Nat /\ N \in 0..N /\ N < SymlinkLimit /\ length \in Nat /\ N + 1 = length
      /\ 0 + 1 = 1 /\ 0 \in 0..N
  BY RootFSAssumption DEF Chain
<1>1. \A m \in 0..N : chain[m + 1] \in E /\ (m # N => chain[m + 1].type = "link")
  <2>1. \A m \in 0..N : m + 1 \in 1..length /\ (m # N => m + 1 \in 1..(length - 1))
    BY <1>0
  <2> QED
    BY <2>1 DEF Chain
<1>3. /\ ResolveLimit \in Nat
      /\ \A m \in 0..N : /\ m \in Nat /\ Budget(m) \in Nat /\ Budget(m) <= ResolveLimit
                         /\ Budget(m + 1) = Budget(m) + 2 * maximumRootFSItems
                         /\ m # N => m + 1 \in 0..N
  <2>1. \A m \in 0..N : m \in Nat /\ m < SymlinkLimit /\ (m # N => m + 1 \in 0..N)
    BY <1>0, RootFSAssumption
  <2> QED
    BY <2>1, BudgetIsKept, ResolveLimitIsNat
<1> HIDE DEF N
<1>4. 0 \in S
  <2> DEFINE name == chain[1].name
             l == Len(name)
  <2>1. chain[1] \in E
    BY <1>0, <1>1
  <2>2. l \in 1..maximumRootFSItems /\ name \in Seq(Nat)
    BY <2>1, NamesAreShort DEF Closed
  <2>3. walk[0] = Walk(<<>>, name)
    BY ResolvingSteps
  <2>4. SubSeq(name, 1, 0) = <<>> /\ SubSeq(name, 0 + 1, l) = name
    BY <1>0, <2>2, SubSeqEmpty, SubSeqFull
  <2>5. 0 < l /\ 0 + (l - 0) <= maximumRootFSItems
    <3> HIDE DEF l
    <3> QED
      BY <2>2, RootFSAssumption
  <2>6. Nears(root, name, chain[1], Budget(0))
    BY <2>3, <2>4, <2>5, BudgetIsKept DEF Nears
  <2> QED
    BY <1>0, <2>6
<1>5. ASSUME NEW m \in 0..N, m # N, m \in S PROVE m + 1 \in S
  <2> DEFINE e == chain[m + 1]
             d == chain[m + 1 + 1]
             b == Budget(m)
  <2>1. Nears(root, chain[1].name, e, b)
    BY <1>5
  <2>2. /\ m + 1 \in 0..N /\ m + 1 \in 1..(length - 1) /\ b \in Nat
        /\ Budget(m + 1) = b + 2 * maximumRootFSItems
        /\ b + 2 * maximumRootFSItems <= ResolveLimit
    <3>1. m + 1 \in 0..N
      BY <1>3, <1>5
    <3>2. Budget(m + 1) <= ResolveLimit
      BY <1>3, <3>1
    <3>3. m + 1 \in 1..(length - 1)
      BY <1>0, <3>1 DEF N
    <3> QED
      BY <1>3, <3>1, <3>2, <3>3
  <2>3. e \in E /\ e.type = "link" /\ d \in E /\ d.name = Target(e)
    BY <1>1, <1>5, <2>2 DEF Chain
  <2>4. GoesUpFirst(e.target)
    BY <2>3
  <2> HIDE DEF e, d, b
  <2>5. Nears(root, chain[1].name, d, b + 2 * maximumRootFSItems)
    BY <2>1, <2>2, <2>3, <2>4, LinkRuns
  <2> QED
    BY <2>2, <2>5 DEF d
<1> HIDE DEF S
<1>b. \A m \in 0..N : m # N /\ m \in S => m + 1 \in S
  BY <1>5, Zenon
<1>6. 0..N \subseteq S
  BY <1>0, <1>4, <1>b, Induction, Zenon
<1> DEFINE e == chain[length]
           l == Len(e.name)
<1>7. PICK j \in Nat, p \in Nat :
          /\ p < l /\ j + (l - p) <= Budget(N)
          /\ walk[j] = Walk(SubSeq(e.name, 1, p), SubSeq(e.name, p + 1, l))
  <2>1. Nears(root, chain[1].name, e, Budget(N))
    BY <1>0, <1>6 DEF S
  <2> QED
    BY <2>1 DEF Nears
<1>8. e \in E /\ e.type # "link"
  BY <1>0 DEF Chain
<1>9. j + (l - p) <= ResolveLimit /\ j + (l - p) \in 0..ResolveLimit /\ p < l
  <2>1. l \in Nat /\ p < l /\ j + (l - p) <= Budget(N)
    BY <1>7, <1>8, NamesAreShort
  <2>2. Budget(N) \in Nat /\ Budget(N) <= ResolveLimit /\ ResolveLimit \in Nat
    BY <1>0, <1>3
  <2> HIDE DEF l
  <2> QED
    BY <2>1, <2>2
<1>10. walk[j + (l - p)] = Walk(e.name, <<>>)
  BY <1>7, <1>8, <1>9, WalksToEntry
<1> HIDE DEF l
<1>11. walk[ResolveLimit] = Walk(e.name, <<>>)
  BY <1>9, <1>10, WalkStays
<1>12. Resolve(root, chain[1].name, "exec") = Named(root.files \cup root.links, e.name)
  BY <1>11 DEF Resolve, Walk
<1>13. \A f \in E : Named(root.files \cup root.links, f.name) = {f}
  BY EntriesAreNamed
<1> QED
  BY <1>8, <1>12, <1>13

(* The order of the archive is a strict order of the names.                *)
LEMMA BeforeIsIrreflexive ==
    ASSUME NEW p \in Seq(Nat)
    PROVE  ~Before(p, p)
<1> SUFFICES ASSUME NEW n \in 1..Len(p), n > Len(p) \/ p[n] < p[n] PROVE FALSE
  BY DEF Before
<1>1. p[n] \in Nat /\ n \in Nat /\ n <= Len(p) /\ Len(p) \in Nat
  BY ElementOfSeq, LenProperties
<1>2. ~(n > Len(p)) /\ ~(p[n] < p[n])
  BY <1>1
<1> QED
  BY <1>2

(* The first difference of the two decides.                                *)
LEMMA BeforeIsTransitive ==
    ASSUME NEW p \in Seq(Nat), NEW q \in Seq(Nat), NEW r \in Seq(Nat), Before(p, q), Before(q, r)
    PROVE  Before(p, r)
<1> DEFINE a == Len(p)
           b == Len(q)
           c == Len(r)
<1>0. a \in Nat /\ b \in Nat /\ c \in Nat
  OBVIOUS
<1>1. PICK i \in 1..b : /\ \A m \in 1..(i - 1) : m <= a /\ p[m] = q[m]
                        /\ i > a \/ p[i] < q[i]
  BY DEF Before
<1>2. PICK j \in 1..c : /\ \A m \in 1..(j - 1) : m <= b /\ q[m] = r[m]
                        /\ j > b \/ q[j] < r[j]
  BY DEF Before
<1>3. /\ \A n \in 1..a : p[n] \in Nat
      /\ \A n \in 1..b : q[n] \in Nat
      /\ \A n \in 1..c : r[n] \in Nat
  BY ElementOfSeq
<1> SUFFICES ASSUME TRUE
    PROVE \E n \in 1..c : /\ \A m \in 1..(n - 1) : m <= a /\ p[m] = r[m]
                          /\ n > a \/ p[n] < r[n]
  BY DEF Before
<1> HIDE DEF a, b, c
<1>4. CASE i < j
  <2>1. i \in 1..(j - 1) /\ i \in 1..c /\ \A m \in 1..(i - 1) : m \in 1..(j - 1)
    BY <1>0, <1>4
  <2>2. \A m \in 1..(i - 1) : m <= a /\ p[m] = r[m]
    BY <1>1, <1>2, <2>1
  <2>3. i > a \/ p[i] < r[i]
    BY <1>1, <1>2, <2>1
  <2> QED
    BY <2>1, <2>2, <2>3
<1>5. CASE i = j
  <2>1. i \in 1..c /\ ~(i > b)
    BY <1>0, <1>5
  <2>2. q[i] < r[i]
    BY <1>2, <1>5, <2>1
  <2>3. i > a \/ p[i] < r[i]
    <3>1. CASE i > a
      BY <3>1
    <3>2. CASE ~(i > a)
      <4>1. i \in 1..a
        BY <1>0, <3>2
      <4>2. p[i] \in Nat /\ q[i] \in Nat /\ r[i] \in Nat /\ p[i] < q[i]
        BY <1>1, <1>3, <2>1, <3>2, <4>1
      <4>3. \A x, y, z \in Nat : x < y /\ y < z => x < z
        OBVIOUS
      <4> QED
        BY <2>2, <4>2, <4>3
    <3> QED
      BY <3>1, <3>2
  <2>4. \A m \in 1..(i - 1) : m <= a /\ p[m] = r[m]
    BY <1>1, <1>2, <1>5
  <2> QED
    BY <2>1, <2>3, <2>4
<1>6. CASE j < i
  <2>1. j \in 1..(i - 1) /\ ~(j > b) /\ \A m \in 1..(j - 1) : m \in 1..(i - 1)
    BY <1>0, <1>6
  <2>2. \A m \in 1..(j - 1) : m <= a /\ p[m] = r[m]
    BY <1>1, <1>2, <2>1
  <2>3. p[j] < r[j]
    BY <1>1, <1>2, <2>1
  <2> QED
    BY <2>2, <2>3
<1> QED
  BY <1>0, <1>4, <1>5, <1>6

(* Two names differ at some first place, or one ends there.                *)
LEMMA BeforeIsTotal ==
    ASSUME NEW p \in Seq(Nat), NEW q \in Seq(Nat), p # q, ~Before(p, q)
    PROVE  Before(q, p)
<1> DEFINE a == Len(p)
           b == Len(q)
           D == {n \in Nat : n # 0 /\ (n > a \/ n > b \/ p[n] # q[n])}
<1>0. a \in Nat /\ b \in Nat
  OBVIOUS
<1>1. a + 1 \in D
  BY <1>0
<1> HIDE DEF a, b
<1>2. PICK n \in D : \A m \in D : n <= m
  BY <1>1, LeastNumber
<1>3. n \in Nat /\ n # 0 /\ (n > a \/ n > b \/ p[n] # q[n])
  OBVIOUS
<1>4. ASSUME NEW m \in 1..(n - 1) PROVE m <= a /\ m <= b /\ p[m] = q[m]
  <2>1. m \in Nat /\ m # 0 /\ ~(n <= m)
    BY <1>3
  <2>2. m \notin D
    BY <1>2, <2>1
  <2> QED
    BY <1>0, <2>1, <2>2
<1> HIDE DEF D
<1>5. ~(n > b) => n \in 1..b /\ ~(n > a) /\ ~(p[n] < q[n])
  <2> SUFFICES ASSUME ~(n > b) PROVE n \in 1..b /\ ~(n > a) /\ ~(p[n] < q[n])
    OBVIOUS
  <2>1. n \in 1..b
    BY <1>0, <1>3
  <2>2. \A m \in 1..(n - 1) : m <= a /\ p[m] = q[m]
    BY <1>4
  <2>3. ~(n > a \/ p[n] < q[n])
    BY <2>1, <2>2 DEF Before, a, b
  <2> QED
    BY <2>1, <2>3
<1>6. ~(n > a)
  <2> SUFFICES ASSUME n > a PROVE FALSE
    OBVIOUS
  <2>1. n > b
    BY <1>5
  <2>2. a = n - 1 /\ b = n - 1
    <3>1. n - 1 \in 1..(n - 1) \/ n - 1 = 0
      BY <1>3
    <3>2. n - 1 <= a /\ n - 1 <= b
      BY <1>0, <1>4, <3>1
    <3> QED
      BY <1>0, <1>3, <2>1, <3>2
  <2>3. \A m \in 1..a : p[m] = q[m]
    BY <1>4, <2>2
  <2>4. p = q
    BY <2>2, <2>3, SeqEqual DEF a, b
  <2> QED
    BY <2>4
<1>7. n \in 1..a
  BY <1>0, <1>3, <1>6
<1>8. n > b \/ q[n] < p[n]
  <2> SUFFICES ASSUME ~(n > b) PROVE q[n] < p[n]
    OBVIOUS
  <2>1. n \in 1..b /\ ~(p[n] < q[n]) /\ p[n] # q[n]
    BY <1>3, <1>5, <1>6
  <2>2. p[n] \in Nat /\ q[n] \in Nat
    BY <1>7, <2>1 DEF a, b
  <2> QED
    BY <2>1, <2>2
<1>9. \A m \in 1..(n - 1) : m <= b /\ q[m] = p[m]
  BY <1>4
<1> QED
  BY <1>7, <1>8, <1>9 DEF Before, a, b


(* An archive in the order of its names.                                   *)
Sorted(archive) ==
    \A m, n \in DOMAIN archive : m < n => Before(archive[m].name, archive[n].name)

(* What Build accepts can be put in order: an entry comes after as many as *)
(* have names before its own.                                              *)
LEMMA SortedArchiveExists ==
    ASSUME NEW E, Closed(E)
    PROVE  \E archive \in [1..Cardinality(E) -> E] : Sorted(archive)
<1> DEFINE N == Cardinality(E)
           Below(e) == {d \in E : Before(d.name, e.name)}
           rank(e) == Cardinality(Below(e)) + 1
           f == [e \in E |-> rank(e)]
<1>0. IsFiniteSet(E) /\ N \in Nat /\ \A e \in E : e.name \in Seq(Nat)
  BY FS_CardinalityType DEF Closed
<1>1. ASSUME NEW e \in E PROVE rank(e) \in 1..N
  <2>1. Below(e) \in SUBSET E /\ Below(e) # E
    BY <1>0, BeforeIsIrreflexive
  <2> HIDE DEF Below
  <2>2. IsFiniteSet(Below(e)) /\ Cardinality(Below(e)) <= N /\ N # Cardinality(Below(e))
    BY <1>0, <2>1, FS_Subset
  <2>3. Cardinality(Below(e)) \in Nat
    BY <2>2, FS_CardinalityType
  <2> HIDE DEF N
  <2> QED
    BY <1>0, <2>2, <2>3
<1>2. ASSUME NEW d \in E, NEW e \in E, Before(d.name, e.name) PROVE rank(d) < rank(e)
  <2>1. Below(d) \in SUBSET Below(e) /\ d \in Below(e) /\ d \notin Below(d)
    <3>1. d \in Below(e) /\ d \notin Below(d)
      BY <1>0, <1>2, BeforeIsIrreflexive
    <3>2. ASSUME NEW c \in E, Before(c.name, d.name) PROVE Before(c.name, e.name)
      BY <1>0, <1>2, <3>2, BeforeIsTransitive
    <3> QED
      BY <3>1, <3>2
  <2>2. Below(e) \in SUBSET E /\ Below(d) \in SUBSET E
    OBVIOUS
  <2> HIDE DEF Below
  <2>3. IsFiniteSet(Below(e)) /\ IsFiniteSet(Below(d))
    BY <1>0, <2>2, FS_Subset
  <2>4. Cardinality(Below(d)) <= Cardinality(Below(e)) /\ Cardinality(Below(e)) # Cardinality(Below(d))
    BY <2>1, <2>3, FS_Subset
  <2>5. Cardinality(Below(d)) \in Nat /\ Cardinality(Below(e)) \in Nat
    BY <2>3, FS_CardinalityType
  <2> QED
    BY <2>4, <2>5
<1> HIDE DEF rank, N
<1>3. ASSUME NEW d \in E, NEW e \in E, d # e PROVE rank(d) # rank(e)
  <2>1. d.name # e.name
    BY <1>3 DEF Closed
  <2>2. Before(d.name, e.name) \/ Before(e.name, d.name)
    BY <1>0, <2>1, BeforeIsTotal
  <2>3. rank(d) < rank(e) \/ rank(e) < rank(d)
    BY <1>2, <2>2
  <2>4. rank(d) \in Nat /\ rank(e) \in Nat
    BY <1>0, <1>1
  <2> QED
    BY <2>3, <2>4
<1>4. f \in Injection(E, 1..N)
  <2>1. f \in [E -> 1..N]
    BY <1>1
  <2>2. \A d, e \in E : f[d] = f[e] => d = e
    BY <1>3
  <2> QED
    BY <2>1, <2>2, Zenon DEF Injection, IsInjective
<1>5. IsFiniteSet(1..N) /\ Cardinality(1..N) = N
  <2>1. 1 \in Int /\ N \in Int /\ IsFiniteSet(1..N) /\ Cardinality(1..N) = IF 1 > N THEN 0 ELSE N - 1 + 1
    BY <1>0, FS_Interval
  <2> QED
    BY <1>0, <2>1
<1>6. f \in Surjection(E, 1..N)
  <2>1. Cardinality(E) = Cardinality(1..N)
    BY <1>5 DEF N
  <2> HIDE DEF f
  <2> QED
    BY <1>4, <1>5, <2>1, FS_Injection
<1>7. \A n \in 1..N : \E e \in E : rank(e) = n
  <2>1. \A n \in 1..N : \E e \in E : f[e] = n
    <3> HIDE DEF f
    <3> QED
      BY <1>6 DEF Surjection
  <2> QED
    BY <2>1
<1> DEFINE archive == [n \in 1..N |-> CHOOSE e \in E : rank(e) = n]
<1>8. /\ archive \in [1..N -> E] /\ DOMAIN archive = 1..N
      /\ \A n \in 1..N : archive[n] \in E /\ rank(archive[n]) = n
  BY <1>7
<1> HIDE DEF archive
<1>9. ASSUME NEW m \in 1..N, NEW n \in 1..N, m < n PROVE Before(archive[m].name, archive[n].name)
  <2> DEFINE d == archive[m]
             e == archive[n]
  <2>1. d \in E /\ e \in E /\ rank(d) = m /\ rank(e) = n
    BY <1>8
  <2>2. m \in Nat /\ n \in Nat /\ m # n /\ ~(n < m)
    BY <1>0, <1>9
  <2> HIDE DEF d, e
  <2>3. d.name # e.name
    BY <2>1, <2>2 DEF Closed
  <2>4. ~Before(e.name, d.name)
    BY <1>2, <2>1, <2>2
  <2>5. Before(d.name, e.name)
    BY <1>0, <2>1, <2>3, <2>4, BeforeIsTotal
  <2> QED
    BY <2>5 DEF d, e
<1>10. Sorted(archive)
  BY <1>8, <1>9 DEF Sorted
<1> QED
  BY <1>8, <1>10 DEF N

(* And then every entry is in it, once.                                    *)
LEMMA SortedArchiveIsWhole ==
    ASSUME NEW E, Closed(E), NEW archive \in [1..Cardinality(E) -> E], Sorted(archive)
    PROVE  /\ \A m, n \in 1..Cardinality(E) : archive[m] = archive[n] => m = n
           /\ \A e \in E : \E n \in 1..Cardinality(E) : archive[n] = e
<1> DEFINE N == Cardinality(E)
<1>0. IsFiniteSet(E) /\ N \in Nat /\ \A e \in E : e.name \in Seq(Nat)
  BY FS_CardinalityType DEF Closed
<1>1. ASSUME NEW m \in 1..N, NEW n \in 1..N, m < n PROVE archive[m] # archive[n]
  <2>1. Before(archive[m].name, archive[n].name)
    BY <1>1 DEF Sorted
  <2>2. archive[m] \in E /\ archive[m].name \in Seq(Nat)
    BY <1>0
  <2> QED
    BY <2>1, <2>2, BeforeIsIrreflexive
<1> HIDE DEF N
<1>2. \A m, n \in 1..N : archive[m] = archive[n] => m = n
  <2>1. \A m, n \in 1..N : m < n \/ n < m \/ m = n
    BY <1>0
  <2> QED
    BY <1>1, <2>1
<1>3. archive \in Injection(1..N, E)
  <2>1. archive \in [1..N -> E]
    BY DEF N
  <2> QED
    BY <1>2, <2>1, Zenon DEF Injection, IsInjective
<1>4. Cardinality(1..N) = Cardinality(E)
  <2>1. 1 \in Int /\ N \in Int /\ Cardinality(1..N) = IF 1 > N THEN 0 ELSE N - 1 + 1
    BY <1>0, FS_Interval
  <2>2. Cardinality(1..N) = N
    BY <1>0, <2>1
  <2> QED
    BY <2>2 DEF N
<1>5. archive \in Surjection(1..N, E)
  BY <1>0, <1>3, <1>4, FS_Injection
<1>6. \A e \in E : \E n \in 1..N : archive[n] = e
  BY <1>5 DEF Surjection
<1> QED
  BY <1>2, <1>6 DEF N


(* The tree with these entries, the last of that name.                     *)
Holding(H, last) ==
    [directories |-> Directories(H), files |-> {e \in H : e.type # "link"},
     links |-> {e \in H : e.type = "link"}, last |-> last, err |-> FALSE]

(* The installer takes any entry of what Build accepts that comes next.    *)
LEMMA EntryIsExtracted ==
    ASSUME NEW E, Closed(E), NEW H \in SUBSET E, NEW e \in E, e \notin H,
           NEW last, last = <<>> \/ Before(last, e.name)
    PROVE  Extracted(Holding(H, last), e) = Holding(H \cup {e}, e.name)
<1> DEFINE files == {d \in H : d.type # "link"}
           links == {d \in H : d.type = "link"}
           D == Directories(H) \cup Parents(e.name)
           G == H \cup {e}
<1>1. /\ IsFiniteSet(E) /\ e.name \in Seq(Nat) /\ e.name # <<>>
      /\ e.type \in {"file", "executable", "link"} /\ (e.type = "link" => validateSymlink(e))
  BY DEF Closed
<1>2. G \in SUBSET E /\ files \cup links = H /\ files \cap links = {}
  OBVIOUS
<1>3. D = Directories(G) /\ D \in SUBSET Directories(E)
  BY DEF Directories
<1>4. Cardinality(files) + Cardinality(links) + 1 = Cardinality(G)
  <2>1. IsFiniteSet(H)
    BY <1>1, FS_Subset
  <2>2. files \in SUBSET H /\ links \in SUBSET H
    OBVIOUS
  <2> HIDE DEF files, links
  <2>3. IsFiniteSet(files) /\ IsFiniteSet(links)
    BY <2>1, <2>2, FS_Subset
  <2>4. Cardinality(files \cup links)
            = Cardinality(files) + Cardinality(links) - Cardinality(files \cap links)
    BY <2>3, FS_Union
  <2>5. Cardinality(files \cap links) = 0
    BY <1>2, FS_EmptySet
  <2>6. Cardinality(files) \in Nat /\ Cardinality(links) \in Nat
    BY <2>3, FS_CardinalityType
  <2>7. Cardinality(G) = Cardinality(H) + 1
    BY <2>1, FS_AddElement
  <2>8. Cardinality(H) = Cardinality(files) + Cardinality(links) - 0
    BY <1>2, <2>4, <2>5
  <2> HIDE DEF G
  <2> QED
    BY <2>6, <2>7, <2>8
<1>5. Cardinality(files) + Cardinality(links) + 1 + Cardinality(D) <= maximumRootFSItems
  <2>1. IsFiniteSet(Directories(E))
    BY DirectoriesAreFinite
  <2> HIDE DEF G, D
  <2>2. /\ IsFiniteSet(G) /\ Cardinality(G) <= Cardinality(E)
        /\ IsFiniteSet(D) /\ Cardinality(D) <= Cardinality(Directories(E))
    BY <1>1, <1>2, <1>3, <2>1, FS_Subset
  <2>3. /\ Cardinality(G) \in Nat /\ Cardinality(D) \in Nat
        /\ Cardinality(E) \in Nat /\ Cardinality(Directories(E)) \in Nat
    BY <1>1, <2>1, <2>2, FS_CardinalityType
  <2>4. Cardinality(E) + Cardinality(Directories(E)) <= maximumRootFSItems /\ maximumRootFSItems \in Nat
    BY RootFSAssumption DEF Closed, validateRootFSItemClosure
  <2>5. Cardinality(G) + Cardinality(D) <= maximumRootFSItems
    BY <2>2, <2>3, <2>4
  <2> QED
    BY <1>4, <2>5
<1>6. \A d \in E : d.name \notin Directories(E)
  BY DEF Closed, validateRootFSItemClosure
<1>7. validateRelativePath(e.name)
  BY <1>1, RangeOfSeq DEF validateRelativePath
<1>8. ensureRootFSParents(Holding(H, last), Parents(e.name))
  BY <1>3, <1>6 DEF ensureRootFSParents, Holding
<1>9. e.name \notin D
  BY <1>3, <1>6
<1>10. /\ {d \in G : d.type # "link"} = files \cup IF e.type = "link" THEN {} ELSE {e}
       /\ {d \in G : d.type = "link"} = links \cup IF e.type = "link" THEN {e} ELSE {}
  OBVIOUS
<1>11. Holding(G, e.name)
          = [directories |-> D,
             files |-> files \cup IF e.type = "link" THEN {} ELSE {e},
             links |-> links \cup IF e.type = "link" THEN {e} ELSE {},
             last |-> e.name, err |-> FALSE]
  BY <1>3, <1>10 DEF Holding
<1>12. /\ Holding(H, last).directories = Directories(H) /\ Holding(H, last).files = files
       /\ Holding(H, last).links = links /\ Holding(H, last).last = last
       /\ Holding(H, last).err = FALSE
  BY DEF Holding
<1> HIDE DEF files, links
<1>13. Extracted(Holding(H, last), e)
          = [directories |-> D,
             files |-> files \cup IF e.type = "link" THEN {} ELSE {e},
             links |-> links \cup IF e.type = "link" THEN {e} ELSE {},
             last |-> e.name, err |-> FALSE]
  BY <1>1, <1>5, <1>7, <1>8, <1>9, <1>12, Zenon DEF Extracted
<1> QED
  BY <1>11, <1>13

(* An archive in order unpacks to the tree of its entries.                 *)
LEMMA SortedArchiveUnpacks ==
    ASSUME NEW E, Closed(E), NEW archive \in [1..Cardinality(E) -> E], Sorted(archive)
    PROVE  /\ Tree(archive).err = FALSE
           /\ Unpacked(Tree(archive), E)
<1> DEFINE N == Cardinality(E)
           root == Extracting(archive)
           Held(n) == {archive[m] : m \in 1..n}
           Latest(n) == IF n = 0 THEN <<>> ELSE archive[n].name
           S == {n \in 0..N : root[n] = Holding(Held(n), Latest(n))}
<1>0. N \in Nat /\ N \in 0..N /\ 0 \in 0..N /\ DOMAIN archive = 1..N
  BY FS_CardinalityType DEF Closed
<1>1. archive \in Seq(E) /\ Len(archive) = N
  BY <1>0, LenProperties
<1>2. root[0] = EmptyTree /\ \A n \in 0..N : n # N => root[n + 1] = Extracted(root[n], archive[n + 1])
  BY <1>1, ExtractingSteps
<1>3. 0 \in S
  <2>1. Held(0) = {}
    OBVIOUS
  <2>2. Directories({}) = {}
    BY DEF Directories
  <2>3. Holding({}, <<>>) = EmptyTree
    BY <2>2 DEF Holding, EmptyTree
  <2> QED
    BY <1>0, <1>2, <2>1, <2>3
<1> HIDE DEF root, N
<1>4. ASSUME NEW n \in 0..N, n # N, n \in S PROVE n + 1 \in S
  <2>1. n \in Nat /\ n + 1 \in 0..N /\ n + 1 \in 1..N /\ n + 1 # 0 /\ (n # 0 => n \in 1..N /\ n < n + 1)
    BY <1>0, <1>4
  <2>2. Held(n) \in SUBSET E /\ archive[n + 1] \in E
    <3>1. \A m \in 1..n : m \in 1..N
      BY <1>0, <2>1
    <3> QED
      BY <2>1, <3>1 DEF N
  <2>3. archive[n + 1] \notin Held(n)
    <3>1. \A m \in 1..n : m \in 1..N /\ m # n + 1
      BY <1>0, <2>1
    <3>2. \A m \in 1..n : archive[m] # archive[n + 1]
      BY <2>1, <3>1, SortedArchiveIsWhole DEF N
    <3> QED
      BY <3>2
  <2>4. Held(n + 1) = Held(n) \cup {archive[n + 1]}
    <3>1. \A m : m \in 1..(n + 1) <=> m \in 1..n \/ m = n + 1
      BY <2>1
    <3> QED
      BY <3>1
  <2>5. Latest(n) = <<>> \/ Before(Latest(n), archive[n + 1].name)
    BY <1>0, <2>1 DEF Sorted
  <2>6. Latest(n + 1) = archive[n + 1].name
    BY <2>1
  <2> HIDE DEF Held, Latest
  <2>7. Extracted(Holding(Held(n), Latest(n)), archive[n + 1])
            = Holding(Held(n) \cup {archive[n + 1]}, archive[n + 1].name)
    BY <2>2, <2>3, <2>5, EntryIsExtracted
  <2>8. root[n + 1] = Holding(Held(n + 1), Latest(n + 1))
    BY <1>2, <1>4, <2>4, <2>6, <2>7
  <2> QED
    BY <2>1, <2>8
<1> HIDE DEF S
<1>b. \A n \in 0..N : n # N /\ n \in S => n + 1 \in S
  BY <1>4, Zenon
<1>5. 0..N \subseteq S
  BY <1>0, <1>3, <1>b, Induction, Zenon
<1>6. Tree(archive) = Holding(Held(N), Latest(N))
  BY <1>0, <1>1, <1>5 DEF S, Tree, root
<1>7. Held(N) = E
  <2>1. \A n \in 1..N : archive[n] \in E
    BY DEF N
  <2>2. \A e \in E : \E n \in 1..N : archive[n] = e
    BY SortedArchiveIsWhole DEF N
  <2> QED
    BY <2>1, <2>2
<1>8. /\ Holding(E, Latest(N)).err = FALSE
      /\ Holding(E, Latest(N)).directories = Directories(E)
      /\ Holding(E, Latest(N)).files = {e \in E : e.type # "link"}
      /\ Holding(E, Latest(N)).links = {e \in E : e.type = "link"}
  <2> HIDE DEF Latest
  <2> QED
    BY DEF Holding
<1> HIDE DEF Latest, Held
<1>9. Tree(archive) = Holding(E, Latest(N))
  BY <1>6, <1>7
<1> QED
  BY <1>8, <1>9 DEF Unpacked


(* An entry's name is a name: its input's destination, and what is left of *)
(* the item's.                                                             *)
LEMMA MappedNames ==
    ASSUME NEW input \in lockedInput, NEW name \in Seq(Nat), mapSourcePath(name, input) # <<>>
    PROVE  mapSourcePath(name, input) \in Seq(Nat)
<1> DEFINE k == Len(input.archivePrefix)
           l == Len(name)
           relative == SubSeq(name, k + 1, l)
<1>1. IsStrictPrefix(input.archivePrefix, name) /\ mapSourcePath(name, input) = input.destination \o relative
  BY DEF mapSourcePath
<1>2. input.archivePrefix \in Seq(Nat) /\ input.destination \in Seq(Nat)
  BY DEF lockedInput
<1>3. k <= l
  BY <1>1 DEF IsStrictPrefix, IsPrefix
<1>4. k \in Nat /\ l \in Nat
  BY <1>2
<1> HIDE DEF k
<1>5. k + 1 \in 1..(l + 1) /\ l \in ((k + 1) - 1)..l
  BY <1>3, <1>4
<1>6. relative \in Seq(Nat)
  BY <1>5, Pieces
<1> HIDE DEF relative
<1> QED
  BY <1>1, <1>2, <1>6, ConcatProperties

(* A lock names finitely many items.                                       *)
LEMMA ItemsAreFinite ==
    ASSUME NEW lock \in buildLock
    PROVE  IsFiniteSet(ScannedItems(lock))
<1> DEFINE D == DOMAIN lock.inputs
           items(i) == {i} \X DOMAIN lock.inputs[i].items
           P == {items(i) : i \in D}
           f == [i \in D |-> items(i)]
<1>1. lock.inputs \in Seq(lockedInput)
  BY DEF buildLock
<1>2. IsFiniteSet(D)
  <2>1. D = 1..Len(lock.inputs) /\ 1 \in Int /\ Len(lock.inputs) \in Int
    BY <1>1, LenProperties
  <2> QED
    BY <2>1, FS_Interval
<1>3. ASSUME NEW i \in D PROVE IsFiniteSet(items(i))
  <2>1. lock.inputs[i] \in lockedInput
    BY <1>1
  <2>2. lock.inputs[i].items \in Seq(rootfsBuildEntry)
    BY <2>1 DEF lockedInput
  <2>3. /\ DOMAIN lock.inputs[i].items = 1..Len(lock.inputs[i].items)
        /\ 1 \in Int /\ Len(lock.inputs[i].items) \in Int
    BY <2>2, LenProperties
  <2>4. IsFiniteSet(DOMAIN lock.inputs[i].items) /\ IsFiniteSet({i})
    <3>1. IsFiniteSet({i})
      BY FS_Singleton, Zenon
    <3> QED
      BY <2>3, <3>1, FS_Interval
  <2> QED
    BY <2>4, FS_Product
<1> HIDE DEF items, D
<1>4. f \in Surjection(D, P)
  <2>1. f \in [D -> P] /\ \A t \in P : \E i \in D : f[i] = t
    OBVIOUS
  <2> QED
    BY <2>1 DEF Surjection
<1>5. IsFiniteSet(P)
  BY <1>2, <1>4, FS_Surjection
<1>6. \A t \in P : IsFiniteSet(t)
  BY <1>3
<1>7. ScannedItems(lock) = UNION P
  BY DEF ScannedItems, items, D
<1> HIDE DEF P
<1> QED
  BY <1>5, <1>6, <1>7, FS_UNION

(* What Build accepts is what the lemmas above ask of a set of entries.    *)
LEMMA BuildEntriesAreClosed ==
    ASSUME NEW lock \in buildLock, BuildAccepts(lock)
    PROVE  Closed(Range(BuildEntries(lock)))
<1> DEFINE entries == BuildEntries(lock)
           D == DOMAIN entries
<1>1. /\ \A i \in DOMAIN lock.inputs : spoolLockedInput(lock.inputs[i])
      /\ \A d, e \in D : entries[d].name = entries[e].name => d = e
      /\ validateRootFSItemClosure(Range(entries))
  BY DEF BuildAccepts
<1>2. /\ D \in SUBSET ScannedItems(lock)
      /\ D = {place \in ScannedItems(lock) : place[2] \in Selected(lock.inputs[place[1]])}
      /\ \A p \in D : entries[p] = Spooled(lock.inputs[p[1]], p[2])
  BY DEF BuildEntries
<1>3. Range(entries) = {entries[p] : p \in D}
  BY DEF Range
<1> HIDE DEF entries
<1>4. IsFiniteSet(Range(entries))
  <2> DEFINE f == [p \in D |-> entries[p]]
  <2>1. f \in Surjection(D, Range(entries))
    <3>1. f \in [D -> Range(entries)] /\ \A e \in Range(entries) : \E p \in D : f[p] = e
      BY <1>3
    <3> QED
      BY <3>1 DEF Surjection
  <2>2. IsFiniteSet(D)
    BY <1>2, ItemsAreFinite, FS_Subset
  <2> HIDE DEF D
  <2> QED
    BY <2>1, <2>2, FS_Surjection
<1>5. ASSUME NEW p \in D
      PROVE  /\ entries[p] \in rootfsBuildEntry /\ entries[p].name \in Seq(Nat) /\ entries[p].name # <<>>
             /\ entries[p].type \in {"file", "executable", "link"}
             /\ entries[p].type = "link" => validateSymlink(entries[p])
  <2> DEFINE input == lock.inputs[p[1]]
             n == p[2]
             item == input.items[n]
  <2>1. p[1] \in DOMAIN lock.inputs /\ n \in Selected(input)
    <3>1. p \in ScannedItems(lock) /\ n \in Selected(input)
      BY <1>2
    <3>2. PICK i \in DOMAIN lock.inputs : p \in {i} \X DOMAIN lock.inputs[i].items
      BY <3>1 DEF ScannedItems
    <3> QED
      BY <3>1, <3>2
  <2>2. input \in lockedInput /\ spoolLockedInput(input)
    BY <1>1, <2>1 DEF buildLock
  <2>3. n \in DOMAIN input.items /\ item \in rootfsBuildEntry /\ Spooled(input, n).name # <<>>
    <3>1. input.items \in Seq(rootfsBuildEntry)
      BY <2>2 DEF lockedInput
    <3> QED
      BY <2>1, <3>1 DEF Selected
  <2>4. /\ Spooled(input, n).type \in {"file", "executable", "link"}
        /\ Spooled(input, n).type = "link" => validateSymlink(Spooled(input, n))
    BY <2>1, <2>2 DEF spoolLockedInput
  <2>5. item.name \in Seq(Nat)
    <3>1. item.name \in Seq(Segments)
      BY <2>3 DEF rootfsBuildEntry
    <3>2. CASE item.name = <<>>
      BY <3>2, EmptySeq
    <3>3. CASE validateRelativePath(item.name)
      <4>1. \A m \in 1..Len(item.name) : item.name[m] \in Nat
        <5> HIDE DEF item
        <5>1. DOMAIN item.name = 1..Len(item.name)
          BY <3>1, LenProperties
        <5>2. \A m \in DOMAIN item.name : item.name[m] \in Range(item.name)
          BY Zenon DEF Range
        <5> QED
          BY <3>3, <5>1, <5>2 DEF validateRelativePath
      <4>2. Len(item.name) \in Nat /\ item.name \in [1..Len(item.name) -> Nat]
        BY <3>1, <4>1, LenProperties
      <4> HIDE DEF item
      <4> QED
        BY <4>2, SeqDef
    <3> QED
      BY <2>2, <2>3, <3>2, <3>3 DEF spoolLockedInput
  <2>6. Spooled(input, n).name = mapSourcePath(item.name, input)
    BY <2>3 DEF Spooled, rootfsBuildEntry
  <2>7. Spooled(input, n).name \in Seq(Nat)
    BY <2>2, <2>3, <2>5, <2>6, MappedNames
  <2>8. Spooled(input, n) \in rootfsBuildEntry
    <3>1. mapSourcePath(item.name, input) \in Seq(Segments)
      BY <2>6, <2>7, SeqMonotonic DEF Segments
    <3> HIDE DEF item
    <3> QED
      BY <2>3, <3>1 DEF Spooled, rootfsBuildEntry, item
  <2> QED
    BY <1>2, <2>3, <2>4, <2>7, <2>8
<1> HIDE DEF D
<1>6. \A d, e \in Range(entries) : d.name = e.name => d = e
  BY <1>1, <1>3
<1> QED
  BY <1>1, <1>3, <1>4, <1>5, <1>6 DEF Closed, entries


(* Build's archive is its entries in order.                                *)
LEMMA BuiltArchive ==
    ASSUME NEW lock \in buildLock, BuildAccepts(lock)
    PROVE  /\ buildRootFS(lock) \in
                 [1..Cardinality(Range(BuildEntries(lock))) -> Range(BuildEntries(lock))]
           /\ Sorted(buildRootFS(lock))
           /\ Range(buildRootFS(lock)) = Range(BuildEntries(lock))
<1> DEFINE E == Range(BuildEntries(lock))
           N == Cardinality(E)
           archive == buildRootFS(lock)
<1>0. Closed(E)
  BY BuildEntriesAreClosed
<1>1. archive = CHOOSE a \in [1..N -> E] :
                    \A m, n \in DOMAIN a : m < n => Before(a[m].name, a[n].name)
  BY DEF buildRootFS
<1> HIDE DEF E, archive
<1>2. \E a \in [1..N -> E] : \A m, n \in DOMAIN a : m < n => Before(a[m].name, a[n].name)
  BY <1>0, SortedArchiveExists DEF Sorted
<1>3. archive \in [1..N -> E] /\ Sorted(archive)
  BY <1>1, <1>2 DEF Sorted
<1>4. Range(archive) = E
  <2>1. \A e \in E : \E n \in 1..N : archive[n] = e
    BY <1>0, <1>3, SortedArchiveIsWhole
  <2>2. DOMAIN archive = 1..N /\ \A n \in 1..N : archive[n] \in E
    BY <1>3
  <2> QED
    BY <2>1, <2>2 DEF Range
<1> QED
  BY <1>3, <1>4 DEF E, archive

(* Build's own walk from the entrypoint is a chain.                        *)
LEMMA BuiltChain ==
    ASSUME NEW lock \in buildLock, BuildAccepts(lock)
    PROVE  \E length, chain : /\ Chain(Range(BuildEntries(lock)), chain, length)
                              /\ chain[1].name = lock.entrypoint
BY DEF BuildAccepts, validateRootFSEntrypoint, Chain

(* What a tree occupies at its top is the first segment of an entry.       *)
LEMMA OccupiedByEntries ==
    ASSUME NEW E, Closed(E), NEW root, Unpacked(root, E), NEW segment, <<segment>> \in Occupied(root)
    PROVE  \E e \in E : e.name[1] = segment
<1>1. <<segment>>[1] = segment /\ Len(<<segment>>) = 1
  OBVIOUS
<1>2. CASE \E e \in E : e.name = <<segment>>
  BY <1>1, <1>2
<1>3. CASE <<segment>> \in Directories(E)
  <2>1. PICK e \in E : <<segment>> \in Parents(e.name)
    BY <1>3 DEF Directories
  <2>2. PICK n \in 1..(Len(e.name) - 1) : <<segment>> = SubSeq(e.name, 1, n)
    BY <2>1 DEF Parents
  <2>3. e.name \in Seq(Nat) /\ Len(e.name) \in Nat
    BY DEF Closed
  <2> DEFINE name == e.name
             l == Len(name)
  <2>4. /\ 1 \in 1..(l + 1) /\ n \in (1 - 1)..l /\ 1 \in 1..(n - 1 + 1) /\ 1 + 1 - 1 = 1
    <3> HIDE DEF l
    <3> QED
      BY <2>3 DEF l
  <2> HIDE DEF name
  <2>5. \A i \in 1..(n - 1 + 1) : SubSeq(name, 1, n)[i] = name[1 + i - 1]
    BY <2>3, <2>4, Pieces DEF name
  <2>6. SubSeq(name, 1, n)[1] = name[1]
    BY <2>4, <2>5
  <2> QED
    BY <1>1, <2>2, <2>6 DEF name
<1> QED
  BY <1>2, <1>3 DEF Occupied, Unpacked

(* Install's checks let pass what Build's checks let pass.                 *)
LEMMA BuiltExtracts ==
    ASSUME NEW lock \in buildLock, BuildAccepts(lock),
           \A e \in Range(buildRootFS(lock)) : e.name[1] \notin Reserved
    PROVE  extractRootFS(buildRootFS(lock), lock.entrypoint)
<1> DEFINE E == Range(BuildEntries(lock))
           archive == buildRootFS(lock)
           root == Tree(archive)
<1>1. Closed(E) /\ archive \in [1..Cardinality(E) -> E] /\ Sorted(archive) /\ Range(archive) = E
  BY BuildEntriesAreClosed, BuiltArchive
<1>2. PICK length, chain : Chain(E, chain, length) /\ chain[1].name = lock.entrypoint
  BY BuiltChain
<1>a. \A e \in E : e.name[1] \notin Reserved
  BY <1>1
<1> HIDE DEF E, archive
<1>3. root.err = FALSE /\ Unpacked(root, E)
  BY <1>1, SortedArchiveUnpacks
<1> HIDE DEF root
<1>4. validateInstalledEntrypoint(root, lock.entrypoint)
  BY <1>1, <1>2, <1>3, ChainIsInstalled
<1>5. \A e \in root.links : e.name \notin root.directories
  BY <1>1, <1>3 DEF Unpacked, Closed, validateRootFSItemClosure
<1>6. \A segment \in Reserved : <<segment>> \notin Occupied(root)
  <2>1. \A segment : <<segment>> \in Occupied(root) => \E e \in E : e.name[1] = segment
    BY <1>1, <1>3, OccupiedByEntries
  <2> QED
    BY <1>a, <2>1
<1> QED
  BY <1>3, <1>4, <1>5, <1>6 DEF extractRootFS, root, archive

(* And where links go up first, a kernel comes to the executable that      *)
(* Build came to.                                                          *)
LEMMA BuiltRuns ==
    ASSUME NEW lock \in buildLock, BuildAccepts(lock),
           \A e \in Range(buildRootFS(lock)) : e.type = "link" => GoesUpFirst(e.target)
    PROVE  \E e \in Resolve(Tree(buildRootFS(lock)), lock.entrypoint, "exec") : e.type = "executable"
<1> DEFINE E == Range(BuildEntries(lock))
           archive == buildRootFS(lock)
           root == Tree(archive)
<1>1. Closed(E) /\ archive \in [1..Cardinality(E) -> E] /\ Sorted(archive) /\ Range(archive) = E
  BY BuildEntriesAreClosed, BuiltArchive
<1>2. PICK length, chain : Chain(E, chain, length) /\ chain[1].name = lock.entrypoint
  BY BuiltChain
<1>a. \A e \in E : e.type = "link" => GoesUpFirst(e.target)
  BY <1>1
<1> HIDE DEF E, archive
<1>3. Unpacked(root, E)
  BY <1>1, SortedArchiveUnpacks
<1> HIDE DEF root
<1>4. Resolve(root, lock.entrypoint, "exec") = {chain[length]}
  BY <1>1, <1>2, <1>a, <1>3, ChainRuns
<1>5. chain[length].type = "executable"
  BY <1>2 DEF Chain
<1> QED
  BY <1>4, <1>5 DEF root, archive

(* So for the digests.                                                     *)
LEMMA BuiltDigests ==
    ASSUME NEW digest \in Digests, ByBuild(digest), BuildAccepts(Sources[digest].lock),
           Parse(Sources[digest].policy)
    PROVE  /\ digest \in Parseable
           /\ digest \notin UsingReserved => digest \in Extractable
           /\ digest \in Plain => digest \in Runnable
<1> DEFINE lock == Sources[digest].lock
<1>0. lock \in buildLock
  BY LockAssumption
<1>1. /\ Bundle[digest].archive = buildRootFS(lock) /\ Bundle[digest].entrypoint = lock.entrypoint
      /\ Bundle[digest].policy = Sources[digest].policy
  BY DEF Bundle, ByBuild
<1>2. digest \in Parseable
  BY <1>1 DEF Parseable
<1> HIDE DEF lock
<1>3. ASSUME digest \notin UsingReserved PROVE digest \in Extractable
  <2>1. \A e \in Range(buildRootFS(lock)) : e.name[1] \notin Reserved
    BY <1>1, <1>3 DEF UsingReserved
  <2>2. extractRootFS(buildRootFS(lock), lock.entrypoint)
    BY <1>0, <2>1, BuiltExtracts DEF lock
  <2> QED
    BY <1>1, <2>2 DEF Extractable
<1>4. ASSUME digest \in Plain PROVE digest \in Runnable
  <2>1. \A e \in Range(buildRootFS(lock)) : e.type = "link" => GoesUpFirst(e.target)
    BY <1>1, <1>4 DEF Plain
  <2>2. \E e \in Resolve(Tree(buildRootFS(lock)), lock.entrypoint, "exec") : e.type = "executable"
    BY <1>0, <2>1, BuiltRuns DEF lock
  <2> QED
    BY <1>1, <2>2 DEF Runnable
<1> QED
  BY <1>2, <1>3, <1>4

-----------------------------------------------------------------------------
(* The source of this run is Build's, and has no reserved name.            *)
Installable == ByBuild(source) /\ source \notin UsingReserved

(* What BuiltInstalls needs beside InstallInv: what Build published passed *)
(* its own checks, and nothing but another file was rejected.              *)
BuildInv ==
    /\ ByBuild(source) /\ output # None =>
          BuildAccepts(Sources[source].lock) /\ Parse(Sources[source].policy)
    /\ Installable => \A i \in Installers : result[i] = "rejected" => copy[i] # approved

(* Nothing is published or rejected at first.                              *)
LEMMA BuildInit == Init => BuildInv
BY InstallAssumption DEF Init, BuildInv, Results

(* An installer never rejects what Build published: the checks of the      *)
(* installer pass what Build's pass.                                       *)
LEMMA BuiltIsAccepted ==
    ASSUME InstallInv, BuildInv, Installable, approved # None
    PROVE  approved = source /\ source \in Parseable /\ source \in Extractable
<1>1. Types
  BY DEF InstallInv
<1>2. approved = source /\ output # None /\ source \in Digests
  BY <1>1 DEF Types
<1> QED
  BY <1>2, BuiltDigests DEF BuildInv, Installable

(* A step of an installer preserves it.                                    *)
LEMMA BuildInstallerStep ==
    ASSUME InstallInv, BuildInv, NEW i \in Installers, Step(i)
    PROVE  BuildInv'
<1>0. Types /\ StageOK(i) /\ ResultOK(i)
  BY DEF InstallInv
<1>1. UNCHANGED <<source, output, approved>>
  BY
     DEF Step, Prepare, PrepareFails, copyApprovedBundle, extractApprovedBundle,
         InstallRootFS, Seal,
         Rename, OpenExisting, installedTreesEqual, SyncIdentities, SyncStaging, SyncDirectory, Return,
         Rollback, RollbackFails, Fail, Cleanup, CleanupFails
<1>2. Installable' = Installable
  BY <1>1 DEF Installable
<1>3. ASSUME Installable, NEW j \in Installers, result'[j] = "rejected"
      PROVE  copy'[j] # approved
  <2>1. CASE copyApprovedBundle(i)
    <3>1. PICK bundle \in {output, 0} :
              /\ copy' = [copy EXCEPT ![i] = bundle]
              /\ IF bundle = approved THEN Goto(i, "copied") ELSE Stop(i, "rejected")
      BY <2>1 DEF copyApprovedBundle
    <3>2. CASE j = i
      <4>1. bundle = approved => result'[i] = result[i] /\ result[i] = None
        BY <1>0, <2>1, <3>1 DEF Goto, copyApprovedBundle, ResultOK
      <4>2. bundle # approved
        BY <1>3, <3>2, <4>1, InstallAssumption DEF Results
      <4> QED
        BY <1>0, <3>1, <3>2, <4>2 DEF Types
    <3>3. CASE j # i
      BY <1>0, <1>3, <3>1, <3>3 DEF Types, BuildInv, Goto, Stop
    <3> QED
      BY <3>2, <3>3
  <2>2. CASE extractApprovedBundle(i)
    <3>1. copy[i] = approved /\ approved # None
      BY <1>0, <2>2 DEF StageOK, extractApprovedBundle
    <3>2. copy[i] \in Parseable
      BY <1>3, <3>1, BuiltIsAccepted
    <3> QED
      BY <1>3, <2>2, <3>2 DEF extractApprovedBundle, Goto, BuildInv
  <2>3. CASE InstallRootFS(i)
    <3>1. copy[i] = approved /\ approved # None
      BY <1>0, <2>3 DEF StageOK, InstallRootFS
    <3>2. copy[i] \in Extractable
      BY <1>3, <3>1, BuiltIsAccepted
    <3> QED
      BY <1>3, <2>3, <3>2 DEF InstallRootFS, Goto, BuildInv
  <2>4. CASE \/ Prepare(i) \/ PrepareFails(i) \/ Seal(i) \/ Rename(i) \/ OpenExisting(i)
             \/ installedTreesEqual(i) \/ SyncIdentities(i) \/ SyncStaging(i) \/ Return(i)
             \/ Rollback(i) \/ RollbackFails(i) \/ Fail(i) \/ Cleanup(i) \/ CleanupFails(i)
    <3>1. copy' = copy
      BY <2>4 DEF Prepare, PrepareFails, Seal, Rename, OpenExisting, installedTreesEqual,
                  SyncIdentities, SyncStaging, SyncDirectory, Return, Rollback, RollbackFails, Fail,
                  Cleanup, CleanupFails
    <3>2. result[j] = "rejected"
      BY <1>0, <1>3, <2>4
         DEF Types, Prepare, PrepareFails, Seal, Rename, OpenExisting, installedTreesEqual,
             SyncIdentities, SyncStaging, SyncDirectory, Return, Rollback, RollbackFails, Fail,
             Cleanup, CleanupFails, Goto, Stop
    <3> QED
      BY <1>3, <3>1, <3>2 DEF BuildInv
  <2> QED
    BY <2>1, <2>2, <2>3, <2>4 DEF Step
<1> QED
  BY <1>1, <1>2, <1>3 DEF BuildInv

(* And so does every other step.                                           *)
LEMMA BuildNext == InstallInv /\ BuildInv /\ [Next]_vars => BuildInv'
<1> SUFFICES ASSUME InstallInv, BuildInv, [Next]_vars PROVE BuildInv'
  OBVIOUS
<1>0. Types /\ \A i \in Installers : StageOK(i) /\ ResultOK(i)
  BY DEF InstallInv
<1>1. CASE Build \/ BuildUnsynced
  <2>1. /\ output = None /\ BuildAccepts(Sources[source].lock) /\ Parse(Sources[source].policy)
        /\ UNCHANGED <<source, copy, result>>
    BY <1>1 DEF Build, BuildUnsynced, Built, progress
  <2>2. \A i \in Installers : result[i] # "rejected"
    BY <1>0, <2>1, InstallAssumption DEF Types, StageOK, ResultOK, Results
  <2> QED
    BY <2>1, <2>2 DEF BuildInv, Installable
<1>2. CASE \E i \in Installers : Step(i)
  BY <1>2, BuildInstallerStep
<1>3. CASE Launch \/ JournalCommits \/ UNCHANGED vars
  BY <1>3 DEF Launch, JournalCommits, vars, store, progress, BuildInv, Installable
<1>4. CASE Crash
  <2>1. /\ UNCHANGED <<source, output, approved, copy>>
        /\ \A i \in Installers : result'[i] = "rejected" => result[i] = "rejected"
    BY <1>4 DEF Crash
  <2> QED
    BY <2>1 DEF BuildInv, Installable
<1> QED
  BY <1>1, <1>2, <1>3, <1>4 DEF Next

(* What Build published is never rejected, unless it uses a name of the    *)
(* Sandbox's own layout, and its entrypoint runs once it is installed, if  *)
(* its links go up only before they go down: for every lock that Build     *)
(* accepts, and every limit.                                               *)
THEOREM InstallBuiltInstalls == Spec => []BuiltInstalls
<1>1. InstallInv /\ BuildInv => BuiltInstalls
  <2> SUFFICES ASSUME InstallInv, BuildInv, Installable PROVE BuiltInstalls
    BY DEF BuiltInstalls, Installable
  <2>1. Types /\ StoreOK
    BY DEF InstallInv
  <2>2. ASSUME final # None, source \in Plain PROVE source \in Runnable
    <3>1. approved # None
      BY <2>1, <2>2, InstallAssumption DEF StoreOK, Ready, Parseable
    <3>2. output # None /\ source \in Digests
      BY <2>1, <3>1 DEF Types
    <3> QED
      BY <2>2, <3>2, BuiltDigests DEF BuildInv, Installable
  <2> QED
    BY <2>2 DEF BuildInv, BuiltInstalls, Installable
<1>2. Spec => []BuildInv
  BY InstallInvariant, BuildInit, BuildNext, PTL DEF Spec
<1> QED
  BY <1>1, <1>2, InstallInvariant, PTL
=============================================================================
