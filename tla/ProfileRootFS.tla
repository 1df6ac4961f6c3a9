---------------------------- MODULE ProfileRootFS ----------------------------
(***************************************************************************)
(* The root filesystem of a Profile Bundle (internal/profilebundle): which *)
(* locked inputs Build turns into an archive, which archives the installer *)
(* extracts, and what a path names in the installed tree.                  *)
(*                                                                         *)
(* A path is a sequence of segments and a segment a number; numbers are in *)
(* the bytewise order of the names.  An entry is a record of its name, its *)
(* type ("file", "executable", "link", "directory" or "other") and the     *)
(* target of a link, relative as the code demands.  Contents, sizes and    *)
(* the budgets of bytes are left out.                                      *)
(***************************************************************************)
EXTENDS Integers, Sequences, SequencesExt, FiniteSets

CONSTANTS
    maximumRootFSItems,
    SymlinkLimit,           \* 40 rounds in the code
    Reserved                \* the top-level names of the Sandbox's own layout

ASSUME RootFSAssumption ==
    /\ maximumRootFSItems \in Nat
    /\ SymlinkLimit \in Nat \ {0}
    /\ Reserved \subseteq Nat

Up == -1                    \* the segment ".."

Segments == Nat \cup {Up}

rootfsBuildEntry ==
    [name : Seq(Segments), target : Seq(Segments),
     type : {"file", "executable", "link", "directory", "other"}]

validateRelativePath(path) == path # <<>> /\ Range(path) \subseteq Nat

Parents(name) == {SubSeq(name, 1, n) : n \in 1..(Len(name) - 1)}

(* path.Clean: ".." takes back a segment, as far as there is one.         *)
AfterSegment(done, segment) ==
    IF segment = Up /\ done # <<>> /\ Last(done) # Up THEN Front(done) ELSE Append(done, segment)

Cleaning(path) ==
    LET done[n \in 0..Len(path)] == IF n = 0 THEN <<>> ELSE AfterSegment(done[n - 1], path[n])
    IN  done

Cleaned(path) == Cleaning(path)[Len(path)]

Target(entry) == Cleaned(Front(entry.name) \o entry.target)

validateSymlink(entry) ==
    /\ entry.target # <<>>
    /\ Target(entry) = <<>> \/ Head(Target(entry)) # Up

Named(entries, name) == {e \in entries : e.name = name}

-----------------------------------------------------------------------------
(* Build: a lock is an entrypoint and a sequence of inputs, each with the  *)
(* items of its archive and whether the file in the cache is the locked    *)
(* one.  What buildLock's own checks leave of a lock's paths is canonical. *)

lockedInput ==
    [genuine : BOOLEAN, items : Seq(rootfsBuildEntry), archivePrefix : Seq(Nat),
     destination : Seq(Nat), include : SUBSET Seq(Nat), exclude : SUBSET Seq(Nat)]

buildLock == [entrypoint : Seq(Nat), inputs : Seq(lockedInput)]

(* Where an item goes; <<>> when the input does not select it.             *)
mapSourcePath(name, input) ==
    LET relative == SubSeq(name, Len(input.archivePrefix) + 1, Len(name))
    IN  IF /\ IsStrictPrefix(input.archivePrefix, name)
           /\ input.include # {} => \E path \in input.include : IsPrefix(path, relative)
           /\ ~\E path \in input.exclude : IsPrefix(path, relative)
        THEN input.destination \o relative
        ELSE <<>>

(* The entry that item n of an input becomes, and the items that become    *)
(* one: a directory does not.                                              *)
Spooled(input, n) == [input.items[n] EXCEPT !.name = mapSourcePath(@, input)]

Selected(input) ==
    {n \in DOMAIN input.items : Spooled(input, n).name # <<>> /\ input.items[n].type # "directory"}

spoolLockedInput(input) ==
    /\ input.genuine
    /\ \A n \in DOMAIN input.items :
          input.items[n].name = <<>> \/ validateRelativePath(input.items[n].name)
    /\ \A n \in Selected(input) :
          /\ Spooled(input, n).type \in {"file", "executable", "link"}
          /\ Spooled(input, n).type = "link" => validateSymlink(Spooled(input, n))

(* An item is known by its input's place and its own.                      *)
ScannedItems(lock) == UNION {{i} \X DOMAIN lock.inputs[i].items : i \in DOMAIN lock.inputs}

BuildEntries(lock) ==
    [item \in {place \in ScannedItems(lock) : place[2] \in Selected(lock.inputs[place[1]])} |->
        Spooled(lock.inputs[item[1]], item[2])]

(* The directories that entries imply.                                     *)
Directories(entries) == UNION {Parents(e.name) : e \in entries}

validateCountAlone(entries) ==
    Cardinality(entries) + Cardinality(Directories(entries)) <= maximumRootFSItems

(* No entry is the parent of another, and all the items fit.               *)
validateRootFSItemClosure(entries) ==
    /\ \A e \in entries : e.name \notin Directories(entries)
    /\ Cardinality(entries) + Cardinality(Directories(entries)) <= maximumRootFSItems

(* Links are followed by name, and only names of the archive count: a      *)
(* chain of entries from the entrypoint to an executable.                  *)
validateRootFSEntrypoint(entries, entrypoint) ==
    \E length \in 1..SymlinkLimit : \E chain \in [1..length -> entries] :
        /\ chain[1].name = entrypoint
        /\ \A n \in 1..(length - 1) :
              chain[n].type = "link" /\ chain[n + 1].name = Target(chain[n])
        /\ chain[length].type = "executable"

BuildAccepts(lock) ==
    LET entries == BuildEntries(lock)
    IN  /\ \A i \in DOMAIN lock.inputs : spoolLockedInput(lock.inputs[i])
        /\ Cardinality(ScannedItems(lock)) <= maximumRootFSItems
        /\ \E e \in Range(entries) : e.name = lock.entrypoint
        /\ \A d, e \in DOMAIN entries : entries[d].name = entries[e].name => d = e
        /\ validateRootFSItemClosure(Range(entries))
        /\ validateRootFSEntrypoint(Range(entries), lock.entrypoint)

(* The order of the archive: q has the larger segment, or p none any more, *)
(* where they first differ.  How "/" compares with other bytes is          *)
(* immaterial: a name comes before the names below it.                     *)
Before(p, q) ==
    \E n \in 1..Len(q) :
        /\ \A m \in 1..(n - 1) : m <= Len(p) /\ p[m] = q[m]
        /\ n > Len(p) \/ p[n] < q[n]

(* The archive holds the entries in the order of their names.              *)
buildRootFS(lock) ==
    LET entries == Range(BuildEntries(lock))
    IN  IF BuildAccepts(lock)
        THEN CHOOSE archive \in [1..Cardinality(entries) -> entries] :
                \A m, n \in DOMAIN archive : m < n => Before(archive[m].name, archive[n].name)
        ELSE <<>>

-----------------------------------------------------------------------------
(* The installer.  Directories are made as entries need them; links are    *)
(* made at the end.                                                        *)

EmptyTree == [directories |-> {}, files |-> {}, links |-> {}, last |-> <<>>, err |-> FALSE]

(* A directory is made where no file and no link is.                       *)
ensureRootFSParents(root, parents) == \A e \in root.links \cup root.files : e.name \notin parents

Extracted(root, entry) ==
    LET parents == Parents(entry.name)
        directories == root.directories \cup parents
        items == Cardinality(root.files) + Cardinality(root.links) + 1
        fits == /\ validateRelativePath(entry.name)
                /\ root.last = <<>> \/ Before(root.last, entry.name)
                /\ ensureRootFSParents(root, parents)
                /\ items + Cardinality(directories) <= maximumRootFSItems
                /\ entry.type \in {"file", "executable"} => entry.name \notin directories
                /\ entry.type = "link" => validateSymlink(entry)
                /\ entry.type \in {"file", "executable", "link"}
    IN  IF root.err \/ ~fits THEN [root EXCEPT !.err = TRUE]
        ELSE [directories |-> directories,
              files |-> root.files \cup IF entry.type = "link" THEN {} ELSE {entry},
              links |-> root.links \cup IF entry.type = "link" THEN {entry} ELSE {},
              last |-> entry.name, err |-> FALSE]

Extracting(archive) ==
    LET root[n \in 0..Len(archive)] == IF n = 0 THEN EmptyTree ELSE Extracted(root[n - 1], archive[n])
    IN  root

Tree(archive) == Extracting(archive)[Len(archive)]

(* What a path names: links in the middle of it are followed, one at the   *)
(* end by "exec" and not by "lstat".  A path that leaves the root names    *)
(* nothing.                                                                *)
ResolveStep(root, call, walk) ==
    LET next == Append(walk.at, Head(walk.rest))
        rest == Tail(walk.rest)
        link == Named(root.links, next)
    IN  IF walk.rest = <<>> \/ walk.lost THEN walk
        ELSE IF Head(walk.rest) = Up
        THEN [at |-> IF walk.at = <<>> THEN <<>> ELSE Front(walk.at), rest |-> rest,
              lost |-> walk.at = <<>>]
        ELSE IF link # {} /\ (rest # <<>> \/ call = "exec")
        THEN [walk EXCEPT !.rest = (CHOOSE e \in link : TRUE).target \o rest]
        ELSE [at |-> next, rest |-> rest, lost |-> rest # <<>> /\ next \notin root.directories]

(* As many steps as an entrypoint may need: SymlinkLimit links, and up to  *)
(* each one's directory and down again.                                    *)
ResolveLimit == 2 * SymlinkLimit * maximumRootFSItems

Resolving(root, path, call) ==
    LET walk[n \in 0..ResolveLimit] ==
            IF n = 0 THEN [at |-> <<>>, rest |-> path, lost |-> FALSE]
            ELSE ResolveStep(root, call, walk[n - 1])
    IN  walk

Resolve(root, path, call) ==
    LET walked == Resolving(root, path, call)[ResolveLimit]
    IN  IF walked.lost \/ walked.rest # <<>> THEN {}
        ELSE Named(root.files \cup root.links, walked.at)

(* Lstat of the current name; the target of a link is joined by name.      *)
InstalledStep(root, current) ==
    LET found == Resolve(root, current, "lstat")
    IN  IF validateRelativePath(current) /\ \E e \in found : e.type = "link"
        THEN Cleaned(Front(current) \o (CHOOSE e \in found : TRUE).target)
        ELSE current

InstalledNames(root, entrypoint) ==
    LET current[n \in 0..(SymlinkLimit - 1)] ==
            IF n = 0 THEN entrypoint ELSE InstalledStep(root, current[n - 1])
    IN  current

validateInstalledEntrypoint(root, entrypoint) ==
    LET current == InstalledNames(root, entrypoint)[SymlinkLimit - 1]
    IN  /\ validateRelativePath(current)
        /\ \E e \in Resolve(root, current, "lstat") : e.type = "executable"

Occupied(root) == root.directories \cup {e.name : e \in root.files \cup root.links}

extractRootFS(archive, entrypoint) ==
    LET root == Tree(archive)
    IN  /\ ~root.err
        /\ \A e \in root.links : e.name \notin root.directories
        /\ validateInstalledEntrypoint(root, entrypoint)
        /\ \A segment \in Reserved : <<segment>> \notin Occupied(root)
=============================================================================
