--------------------------- MODULE ProfileInstall ---------------------------
(***************************************************************************)
(* Profile Bundles (internal/profilebundle) from Build to the Workload     *)
(* that runs under the installed System Call Policy: Build, any number of  *)
(* installers of one approved digest in one store, failures of every file  *)
(* operation, and crashes of the host.                                     *)
(*                                                                         *)
(* A Bundle is known by its digest, here the number of its source; 0 is a  *)
(* file that is not the approved one.  The store has one final name, the   *)
(* approved digest's, and each installer one staging tree of its own, both *)
(* named by the installer that made it.                                    *)
(*                                                                         *)
(* The filesystem is one with an ordered metadata journal: a sync of a     *)
(* directory commits every name operation so far, a commit may also happen *)
(* at any time, and a crash goes back to the last commit.  The contents of *)
(* a file survive only if that file was synced.                            *)
(***************************************************************************)
EXTENDS SystemCallPolicy, ProfileRootFS

CONSTANTS
    Installers,
    None,
    Sources,                \* a sequence: what Build or another tool starts from
    Tampered,               \* the Bundle of digest 0
    Calls,                  \* the system calls a Workload makes
    MaxCrashes

Digests == 0..Len(Sources)

(* What Install returns.                                                   *)
Results == {"published", "reinstalled", "rejected", "failed", "uncertain", "crashed"}

ASSUME InstallAssumption ==
    /\ MaxCrashes \in Nat
    /\ None \notin Digests /\ None \notin Installers /\ None \notin Results

(* A source is Build's lock and policy, or a Bundle made elsewhere.        *)
Bundle ==
    [digest \in Digests |->
        IF digest = 0 THEN Tampered
        ELSE IF Sources[digest].origin = "build"
        THEN [archive |-> buildRootFS(Sources[digest].lock),
              entrypoint |-> Sources[digest].lock.entrypoint,
              policy |-> Sources[digest].policy]
        ELSE Sources[digest].bundle]

(* The digests whose policy parses, and whose root filesystem extracts.    *)
Parseable == {digest \in Digests : Parse(Bundle[digest].policy)}

Extractable ==
    {digest \in Digests :
                    extractRootFS(Bundle[digest].archive, Bundle[digest].entrypoint)}

(* What the decoder makes of a policy has its fields' types, and so has a  *)
(* call.                                                                   *)
ASSUME PolicyAssumption ==
    /\ \A digest \in Digests : Bundle[digest].policy \in Policies
    /\ Calls \subseteq SystemCallData

ByBuild(digest) == digest # 0 /\ Sources[digest].origin = "build"

(* And so has what it makes of a lock.                                     *)
ASSUME LockAssumption ==
    \A digest \in Digests : ByBuild(digest) => Sources[digest].lock \in buildLock

Items == {"bundle.tar", "components", "rootfs"}

VARIABLES
    source, output, approved,   \* digests
    final, staged, tree,    \* the names of the store and what trees hold
    data,                   \* the items of each tree whose files are synced
    disk,                   \* the last commit of final, staged and tree
    copy, pc, result, compared,
    filter,                 \* the Bundle a Workload's filter comes from
    crashes

store == <<final, staged, tree>>
progress == <<pc, result, compared>>
vars == <<source, output, approved, final, staged, tree, data, disk, copy, pc, result,
          compared, filter, crashes>>

Commit == disk' = [final |-> final', staged |-> staged', tree |-> tree']

Init ==
    /\ source \in Digests \ {0}
    /\ output = IF ByBuild(source) THEN None ELSE source
    /\ approved = output
    /\ final = None
    /\ staged = {}
    /\ tree = [i \in Installers |-> {}]
    /\ data = [i \in Installers |-> {}]
    /\ disk = [final |-> final, staged |-> staged, tree |-> tree]
    /\ copy = [i \in Installers |-> None]
    /\ pc = [i \in Installers |-> "start"]
    /\ result = [i \in Installers |-> None]
    /\ compared = [i \in Installers |-> None]
    /\ filter = None
    /\ crashes = 0

-----------------------------------------------------------------------------
(* Build links the finished file to its output name and reports the digest *)
(* once that name is synced; a failure takes the name away again, if it    *)
(* can.                                                                    *)

Built(at) ==
    /\ ByBuild(source)
    /\ output = None
    /\ BuildAccepts(Sources[source].lock)
    /\ Parse(Sources[source].policy)
    /\ output' = source
    /\ approved' = at
    /\ UNCHANGED <<source, store, data, disk, copy, progress, filter, crashes>>

Build == Built(source)

(* syncDirectory fails, and then so does Remove.                           *)
BuildUnsynced == Built(approved)

-----------------------------------------------------------------------------
(* An installer stops with a result; the deferred cleanup follows.         *)
Stop(i, why) ==
    /\ pc' = [pc EXCEPT ![i] = "cleanup"]
    /\ result' = [result EXCEPT ![i] = why]
    /\ UNCHANGED compared

Goto(i, to) ==
    /\ pc' = [pc EXCEPT ![i] = to]
    /\ UNCHANGED <<result, compared>>

(* The options, the store, its two directories and a new staging directory.*)
Prepare(i) ==
    /\ pc[i] = "start"
    /\ approved # None
    /\ staged' = staged \cup {i}
    /\ Goto(i, "staged")
    /\ UNCHANGED <<source, output, approved, final, tree, data, disk, copy, filter, crashes>>

(* A failure before there is a staging directory leaves nothing to clean.  *)
PrepareFails(i) ==
    /\ pc[i] = "start"
    /\ approved # None
    /\ pc' = [pc EXCEPT ![i] = "done"]
    /\ result' = [result EXCEPT ![i] = "failed"]
    /\ UNCHANGED <<source, output, approved, store, data, disk, copy, compared, filter, crashes>>

WriteUnsynced(i, item) ==
    /\ tree' = [tree EXCEPT ![i] = @ \cup {item}]
    /\ UNCHANGED data

(* A file is written, and synced before it is closed.                      *)
Write(i, item) ==
    /\ tree' = [tree EXCEPT ![i] = @ \cup {item}]
    /\ data' = [data EXCEPT ![i] = @ \cup {item}]

(* The private copy is what is hashed and what is extracted: the file at   *)
(* the path may have been replaced.                                        *)
copyApprovedBundle(i) ==
    /\ pc[i] = "staged"
    /\ \E bundle \in {output, 0} :
          /\ copy' = [copy EXCEPT ![i] = bundle]
          /\ Write(i, "bundle.tar")
          /\ IF bundle = approved THEN Goto(i, "copied") ELSE Stop(i, "rejected")
    /\ UNCHANGED <<source, output, approved, final, staged, disk, filter, crashes>>

(* The manifest, the four components, and the checks of policy and lock.   *)
extractApprovedBundle(i) ==
    /\ pc[i] = "copied"
    /\ IF copy[i] \in Parseable
       THEN Write(i, "components") /\ Goto(i, "extracting")
       ELSE Stop(i, "rejected") /\ UNCHANGED <<tree, data>>
    /\ UNCHANGED <<source, output, approved, final, staged, disk, copy, filter, crashes>>

(* The directories of the root are closed to writing and synced.           *)
makeDirectoriesReadOnly(i) ==
    /\ Write(i, "rootfs")
    /\ UNCHANGED <<final, staged>>
    /\ Commit

(* The root filesystem, and in it a copy of the Init and of the policy.    *)
InstallRootFS(i) ==
    /\ pc[i] = "extracting"
    /\ IF copy[i] \in Extractable
       THEN makeDirectoriesReadOnly(i) /\ Goto(i, "extracted")
       ELSE Stop(i, "rejected") /\ UNCHANGED <<store, data, disk>>
    /\ UNCHANGED <<source, output, approved, copy, filter, crashes>>

Seal(i) ==
    /\ pc[i] = "extracted"
    /\ tree' = [tree EXCEPT ![i] = @ \ {"bundle.tar"}]
    /\ UNCHANGED <<final, staged>>
    /\ Commit
    /\ Goto(i, "sealed")
    /\ UNCHANGED <<source, output, approved, data, copy, filter, crashes>>

-----------------------------------------------------------------------------
(* Publication.  A rename over an existing identity fails.                 *)

RenameByCopy(i) ==
    /\ pc[i] = "sealed"
    /\ final = None
    /\ final' = i
    /\ Goto(i, "renamed")
    /\ UNCHANGED <<source, output, approved, staged, tree, data, disk, copy, filter, crashes>>

Rename(i) ==
    /\ pc[i] = "sealed"
    /\ final = None
    /\ final' = i
    /\ staged' = staged \ {i}
    /\ Goto(i, "renamed")
    /\ UNCHANGED <<source, output, approved, tree, data, disk, copy, filter, crashes>>

(* The rename failed, whatever the cause: open the identity to compare it. *)
OpenExisting(i) ==
    /\ pc[i] = "sealed"
    /\ IF final = None
       THEN Stop(i, "failed")
       ELSE /\ compared' = [compared EXCEPT ![i] = final]
            /\ pc' = [pc EXCEPT ![i] = "comparing"]
            /\ UNCHANGED result
    /\ UNCHANGED <<source, output, approved, store, data, disk, copy, filter, crashes>>

(* Both trees are read through handles, wherever their names are by then.  *)
installedTreesEqual(i) ==
    /\ pc[i] = "comparing"
    /\ IF tree[compared[i]] = tree[i] /\ copy[compared[i]] = copy[i]
       THEN Stop(i, "reinstalled") ELSE Stop(i, "failed")
    /\ UNCHANGED <<source, output, approved, store, data, disk, copy, filter, crashes>>

SyncDirectory(i, from, to) ==
    /\ pc[i] = from
    /\ UNCHANGED store
    /\ Commit
    /\ Goto(i, to)
    /\ UNCHANGED <<source, output, approved, data, copy, filter, crashes>>

SyncIdentities(i) == SyncDirectory(i, "renamed", "identitySynced")
SyncStaging(i) == SyncDirectory(i, "identitySynced", "stagingSynced")

ReturnUnsynced(i) ==
    /\ pc[i] \in {"renamed", "stagingSynced"}
    /\ pc' = [pc EXCEPT ![i] = "done"]
    /\ result' = [result EXCEPT ![i] = "published"]
    /\ UNCHANGED <<source, output, approved, store, data, disk, copy, compared, filter, crashes>>

(* Both handles are closed and the identity is returned.                   *)
Return(i) ==
    /\ pc[i] = "stagingSynced"
    /\ pc' = [pc EXCEPT ![i] = "done"]
    /\ result' = [result EXCEPT ![i] = "published"]
    /\ UNCHANGED <<source, output, approved, store, data, disk, copy, compared, filter, crashes>>

Publishing == {"renamed", "identitySynced", "stagingSynced"}

(* A sync or a close failed: the identity goes back into staging.          *)
Rollback(i) ==
    /\ pc[i] \in Publishing
    /\ final' = None
    /\ staged' = staged \cup {i}
    /\ Stop(i, "failed")
    /\ UNCHANGED <<source, output, approved, tree, data, disk, copy, filter, crashes>>

(* The rename back failed too: the error says so, and nothing is removed.  *)
RollbackFails(i) ==
    /\ pc[i] \in Publishing
    /\ pc' = [pc EXCEPT ![i] = "done"]
    /\ result' = [result EXCEPT ![i] = "uncertain"]
    /\ UNCHANGED <<source, output, approved, store, data, disk, copy, compared, filter, crashes>>

(* Any other file operation fails.                                         *)
Fail(i) ==
    /\ pc[i] \in {"staged", "copied", "extracting", "extracted", "comparing"}
    /\ Stop(i, "failed")
    /\ UNCHANGED <<source, output, approved, store, data, disk, copy, filter, crashes>>

(* The deferred RemoveAll of the staging directory.                        *)
Cleanup(i) ==
    /\ pc[i] = "cleanup"
    /\ tree' = [tree EXCEPT ![i] = {}]
    /\ staged' = staged \ {i}
    /\ Goto(i, "done")
    /\ UNCHANGED <<source, output, approved, final, data, disk, copy, filter, crashes>>

(* It fails, at once or half way; only a success turns into an error.      *)
CleanupFails(i) ==
    /\ pc[i] = "cleanup"
    /\ \E left \in {{}, tree[i]} : tree' = [tree EXCEPT ![i] = left]
    /\ pc' = [pc EXCEPT ![i] = "done"]
    /\ result' = [result EXCEPT ![i] = IF @ = "reinstalled" THEN "failed" ELSE @]
    /\ UNCHANGED <<source, output, approved, final, staged, data, disk, copy, compared,
                   filter, crashes>>

-----------------------------------------------------------------------------
(* The Init and the policy in the root are the ones of the manifest.       *)
verifiedInstalledComponent == {"components", "rootfs"} \subseteq tree[final]

(* The launcher compiles the copy that the Supervisor verified.            *)
workloadSystemCallFilter == copy[final]

(* The Supervisor selects the identity: validateSandboxProfile, and later  *)
(* the launcher of a Workload.                                             *)
Launch ==
    /\ final # None
    /\ filter = None
    /\ verifiedInstalledComponent
    /\ copy[final] \in Parseable
    /\ filter' = workloadSystemCallFilter
    /\ UNCHANGED <<source, output, approved, store, data, disk, copy, progress, crashes>>

JournalCommits ==
    /\ disk # [final |-> final, staged |-> staged, tree |-> tree]
    /\ UNCHANGED store
    /\ Commit
    /\ UNCHANGED <<source, output, approved, data, copy, progress, filter, crashes>>

Crash ==
    /\ crashes < MaxCrashes
    /\ crashes' = crashes + 1
    /\ final' = disk.final
    /\ staged' = disk.staged
    /\ tree' = [i \in Installers |-> disk.tree[i] \cap data[i]]
    /\ Commit
    /\ pc' = [i \in Installers |-> IF pc[i] = "start" THEN "start" ELSE "done"]
    /\ result' = [i \in Installers |-> IF pc[i] \in {"start", "done"} THEN result[i] ELSE "crashed"]
    /\ filter' = None
    /\ UNCHANGED <<source, output, approved, data, copy, compared>>

Step(i) ==
    \/ Prepare(i) \/ PrepareFails(i)
    \/ copyApprovedBundle(i) \/ extractApprovedBundle(i) \/ InstallRootFS(i) \/ Seal(i)
    \/ Rename(i) \/ OpenExisting(i) \/ installedTreesEqual(i)
    \/ SyncIdentities(i) \/ SyncStaging(i) \/ Return(i)
    \/ Rollback(i) \/ RollbackFails(i)
    \/ Fail(i) \/ Cleanup(i) \/ CleanupFails(i)

Next ==
    \/ Build \/ BuildUnsynced
    \/ \E i \in Installers : Step(i)
    \/ Launch \/ JournalCommits \/ Crash

Spec == Init /\ [][Next]_vars

-----------------------------------------------------------------------------
Stages == {"start", "staged", "copied", "extracting", "extracted", "sealed", "comparing",
           "cleanup", "done"} \cup Publishing

(* Every variable keeps its type (install_linux.go, Install), a tree is    *)
(* never both staged and final, and what an installer still stages or      *)
(* publishes is under the name that Install will rename or remove next.    *)
TypeOK ==
    /\ source \in Digests \ {0}
    /\ {output, approved} \subseteq {source, None}
    /\ final \in Installers \cup {None}
    /\ staged \in SUBSET (Installers \ {final})
    /\ {tree, data} \subseteq [Installers -> SUBSET Items]
    /\ disk \in [final : Installers \cup {None}, staged : SUBSET Installers,
                 tree : [Installers -> SUBSET Items]]
    /\ copy \in [Installers -> {source, 0, None}]
    /\ pc \in [Installers -> Stages]
    /\ result \in [Installers -> Results \cup {None}]
    /\ compared \in [Installers -> Installers \cup {None}]
    /\ filter \in {source, None}
    /\ crashes \in 0..MaxCrashes
    /\ \A i \in Installers :
          /\ pc[i] \in Publishing => final = i
          /\ pc[i] \notin Publishing \cup {"start", "done"} => i \in staged

(* Whatever fails and whenever the host crashes, the final name never      *)
(* shows a tree that is not the whole, checked contents of the approved    *)
(* digest: Install syncs every file before the rename publishes the tree   *)
(* (docs/profile-bundle-v1.md:74, "A failure can leave no selectable final *)
(* directory").                                                            *)
FinalIsWhole ==
    final # None =>
        /\ tree[final] = {"components", "rootfs"}
        /\ copy[final] = approved
        /\ approved \in Parseable \cap Extractable

(* What Install reports is true (install_linux.go, Install).  An identity  *)
(* it returned after its own rename is there for good, a crash of the host *)
(* included, because both directories were synced before.  Until a crash,  *)
(* an error without a failed rollback means that the installer's tree      *)
(* cannot be selected.  And a reinstallation, which succeeds on another    *)
(* installer's rename before that one has synced it, stands unless that    *)
(* very installer failed.                                                  *)
ReportIsTrue ==
    \A i \in Installers :
        /\ result[i] = "published" => final = i
        /\ crashes = 0 =>
              /\ result[i] \in {"failed", "rejected"} => final # i
              /\ result[i] = "reinstalled" => final # None \/ result[compared[i]] = "failed"

(* A link's target that goes up only before it goes down.                  *)
GoesUpFirst(target) ==
    \E k \in 0..Len(target) : \A n \in DOMAIN target : target[n] = Up <=> n <= k

(* Build and the installer clean a target by its text, a kernel walks it:  *)
(* they differ where ".." follows a name that is no directory.             *)
Plain ==
    {digest \in Digests :
        \A e \in Range(Bundle[digest].archive) : e.type = "link" => GoesUpFirst(e.target)}

(* A kernel follows every link of the path, not only the last.             *)
Runnable ==
    {digest \in Digests :
        \E e \in Resolve(Tree(Bundle[digest].archive), Bundle[digest].entrypoint, "exec") :
            e.type = "executable"}

UsingReserved ==
    {digest \in Digests :
        \E e \in Range(Bundle[digest].archive) : e.name[1] \in Reserved}

(* Build and the installer check the same root filesystem twice, in        *)
(* different ways (build.go, validateRootFSItemClosure and                 *)
(* validateRootFSEntrypoint; install_linux.go, extractRootFS): what Build  *)
(* published is never rejected, unless it uses a name of the Sandbox's own *)
(* layout, and its entrypoint runs once it is installed, if its links go   *)
(* up only before they go down.                                            *)
BuiltInstalls ==
    ByBuild(source) /\ source \notin UsingReserved =>
        /\ \A i \in Installers : result[i] = "rejected" => copy[i] # approved
        /\ final # None /\ source \in Plain => source \in Runnable

EnforcedPolicies ==
    {policy \in {Bundle[digest].policy : digest \in Parseable} :
        LET program == compileInstructions(policy)
        IN  \A call \in Calls : Enforces(program, policy, call)}

Enforced == {digest \in Digests : Bundle[digest].policy \in EnforcedPolicies}

(* The filter a Workload runs under decides every call as the policy       *)
(* reads, with full unsigned 64-bit comparisons (compile.go,               *)
(* compileInstructions): the branches it compiles to deny a call at the    *)
(* first rule that names it, so no later rule may name it again.           *)
FilterIsThePolicy == filter # None => filter = approved /\ filter \in Enforced
=============================================================================
