------------------------------- MODULE Garden ------------------------------
(***************************************************************************)
(* A garden and the home directory it tracks: the commands of the garden   *)
(* package (garden.go, mirror.go, exclude.go, lock.go, target.go,          *)
(* remove.go, prune.go) as processes that open the garden, work through    *)
(* their entries one by one on the manifest they loaded, and save it.      *)
(*                                                                         *)
(* Nothing locks a garden: processes interleave with each other and with   *)
(* the user, and any of them may fail or be killed between two steps.  A   *)
(* hash is identified with the contents it stands for.  Manifest.Updated,  *)
(* which only synchronisation reads, is in GardenSync; encrypted entries   *)
(* are in Encryption.                                                      *)
(***************************************************************************)
EXTENDS Integers, FiniteSets

CONSTANTS
    Path,      \* the paths of the home directory that matter
    Below,     \* Below[p]: the paths under p, {} when p is never a directory
    Content,   \* what a file may contain
    Mode,      \* permissions
    Proc,      \* sgard processes
    Commands,  \* the commands they run
    Targets,   \* where the user's symbolic links point
    Answers,   \* what the user answers when a command asks before it overwrites
    Patient,   \* whether the user leaves the files alone while a command runs
    MaxTime,   \* bound: the clock, in seconds
    None

Time == 0 .. MaxTime

ASSUME BelowAssumption ==
    /\ Below \in [Path -> SUBSET Path]
    /\ \A p \in Path : p \notin Below[p] /\ \A q \in Below[p] : Below[q] \subseteq Below[p]
ASSUME TargetsAssumption == Targets \subseteq {p \in Path : Below[p] = {}}
ASSUME ModeAssumption == Mode # {}
ASSUME AnswersAssumption == Answers \subseteq BOOLEAN
ASSUME MaxTimeAssumption == MaxTime \in Nat

VARIABLES
    disk,      \* what lstat finds at each path
    manifest,  \* manifest.yaml
    store,     \* the blobs
    proc,      \* the commands under way
    clock

vars == <<disk, manifest, store, proc, clock>>

-----------------------------------------------------------------------------
Kind == {"file", "link", "directory"}

Absent == [kind |-> "none", data |-> None, mode |-> None, mtime |-> 0]
Directory(mode) == [kind |-> "directory", data |-> None, mode |-> mode, mtime |-> 0]

Object ==
    [kind : {"file"}, data : Content, mode : Mode, mtime : Time]
    \cup [kind : {"link"}, data : Targets, mode : Mode, mtime : Time]
    \cup {Directory(m) : m \in Mode} \cup {Absent}

DefaultMode == CHOOSE m \in Mode : TRUE

(* data is Hash or Target; here is EntryApplies for this machine's labels. *)
EntryOf(type, data) ==
    [type : {type}, data : data, mode : Mode, locked : BOOLEAN, here : BOOLEAN, updated : Time]

Entry == EntryOf("file", Content) \cup EntryOf("link", Targets) \cup EntryOf("directory", {None})

ASSUME NoneAssumption == None \notin Entry

Manifest == [files : [Path -> Entry \cup {None}], exclude : SUBSET Path]

Tracked(m) == {p \in Path : m.files[p] # None}

TrackedFiles(m) == {p \in Tracked(m) : m.files[p].type = "file"}

Blobs(m) == {m.files[p].data : p \in TrackedFiles(m)}

(* Mutant of Applying: targeting is ignored. *)
ApplyingEverywhere(m) == Tracked(m)

(* Mutant of Applying: what is locked is skipped. *)
ApplyingUnlocked(m) == {p \in Tracked(m) : m.files[p].here /\ ~m.files[p].locked}

Applying(m) == {p \in Tracked(m) : m.files[p].here}

(* A path is excluded if it, or a directory it falls under, is listed. *)
Excluded(m, p) == \E x \in m.exclude : p = x \/ p \in Below[x]

(* A command under way: mem is the manifest it loaded and works on, now    *)
(* the time it read when it began, todo what its loop has still to visit.  *)
Process == [cmd : {"none", "add", "checkpoint", "restore", "mirror up", "mirror down",
                   "remove", "lock", "target", "exclude", "include", "prune"},
            at : {"idle", "adding", "checkpointing", "restoring", "walking", "dropping",
                  "rehashing", "replaying", "deleting", "editing", "listing", "pruning"},
            arg : Path \cup {None},
            opt : {"plain", "force", "lock", "dir", "elsewhere"},
            now : Time, mem : Manifest \cup {None}, todo : SUBSET (Path \cup Content)]

Idle == [cmd |-> "none", at |-> "idle", arg |-> None, opt |-> "plain",
         now |-> 0, mem |-> None, todo |-> {}]

Init ==
    /\ disk = [p \in Path |-> IF Below[p] = {} THEN Absent
                              ELSE Directory(DefaultMode)]
    /\ manifest = [files |-> [p \in Path |-> None], exclude |-> {}]
    /\ store = {}
    /\ proc = [i \in Proc |-> Idle]
    /\ clock = 0

-----------------------------------------------------------------------------
(* The file system. *)

(* Mutant of Exists: the error of Lstat is ignored. *)
AssumedThere(p) == TRUE

Exists(p) == disk[p].kind # "none"
Leaf(p) == disk[p].kind \in {"file", "link"}

(* ReadFile and WriteFile follow links, Lstat does not. *)
Follow(p) == IF disk[p].kind = "link" THEN disk[p].data ELSE p
Readable(p) == disk[Follow(p)].kind = "file"
Contents(p) == disk[Follow(p)].data

HasParents(p) == \A d \in Path : p \in Below[d] => disk[d].kind = "directory"

(* The user. *)
Quiet == Patient => \A i \in Proc : proc[i].at = "idle"

UserWrites ==
    \E p \in Path, c \in Content, m \in Mode :
        /\ Quiet /\ Below[p] = {} /\ disk[p].kind # "link" /\ HasParents(p)
        /\ disk' = [disk EXCEPT ![p] = [kind |-> "file", data |-> c, mode |-> m, mtime |-> clock]]
        /\ UNCHANGED <<manifest, store, proc, clock>>

UserLinks ==
    \E p \in Path \ Targets, t \in Targets, m \in Mode :
        /\ Quiet /\ Below[p] = {} /\ HasParents(p)
        /\ disk' = [disk EXCEPT ![p] = [kind |-> "link", data |-> t, mode |-> m, mtime |-> clock]]
        /\ UNCHANGED <<manifest, store, proc, clock>>

UserRemoves ==
    \E p \in Path :
        /\ Quiet /\ Exists(p) /\ \A q \in Below[p] : ~Exists(q)
        /\ disk' = [disk EXCEPT ![p] = Absent]
        /\ UNCHANGED <<manifest, store, proc, clock>>

UserMakesDirectory ==
    \E p \in Path, m \in Mode :
        /\ Quiet /\ Below[p] # {} /\ ~Exists(p) /\ HasParents(p)
        /\ disk' = [disk EXCEPT ![p] = Directory(m)]
        /\ UNCHANGED <<manifest, store, proc, clock>>

Tick ==
    /\ clock < MaxTime
    /\ clock' = clock + 1
    /\ UNCHANGED <<disk, manifest, store, proc>>

-----------------------------------------------------------------------------
(* What all commands share. *)

(* garden.Open, then the work begins on m. *)
Begin(i, cmd, at, arg, opt, m, todo) ==
    /\ proc[i].at = "idle" /\ cmd \in Commands
    /\ proc' = [proc EXCEPT ![i] = [cmd |-> cmd, at |-> at, arg |-> arg, opt |-> opt,
                                    now |-> clock, mem |-> m, todo |-> todo]]
    /\ UNCHANGED <<disk, manifest, store, clock>>

(* Mutant of Stored: the contents are hashed and not written. *)
HashedOnly(data) == store

(* store.Write of contents; a link has none. *)
Stored(data) == store \cup ({data} \cap Content)

(* One iteration of a loop: x is done and the manifest is now m. *)
Step(i, x, m) == proc' = [proc EXCEPT ![i].todo = @ \ {x}, ![i].mem = m]

Finish(i) == proc' = [proc EXCEPT ![i] = Idle]

(* Manifest.Save replaces manifest.yaml as a whole. *)
Save(i) ==
    /\ proc[i].at \in {"adding", "checkpointing", "rehashing", "editing"}
    /\ proc[i].todo = {}
    /\ manifest' = proc[i].mem
    /\ Finish(i)
    /\ UNCHANGED <<disk, store, clock>>

(* A command fails, wherever a step below lacks what it needs, or is       *)
(* killed: what is on disk and in the store stays, nothing is saved.       *)
Stop(i) ==
    /\ proc[i].at # "idle"
    /\ Finish(i)
    /\ UNCHANGED <<disk, manifest, store, clock>>

-----------------------------------------------------------------------------
(* add *)

(* Mutant of Walk: the exclusions are not looked at. *)
WalkAll(p, m) == IF Leaf(p) THEN {p} ELSE Below[p]

(* Where a walk of p may find something: WalkDir reads the directories as  *)
(* it comes to them, and skips what m excludes.                            *)
Walk(p, m) == {q \in (IF Leaf(p) THEN {p} ELSE Below[p]) : ~Excluded(m, q)}

(* A file or link that is named is added without a look at the exclusions. *)
Add(i) ==
    \E p \in Path, opt \in {"plain", "lock", "dir", "elsewhere"} :
        /\ Exists(p) /\ (opt = "dir" => disk[p].kind = "directory")
        /\ Begin(i, "add", "adding", p, opt, manifest,
                 IF opt = "dir" \/ Leaf(p) THEN {p} ELSE Walk(p, manifest))

NewEntry(p, opt, now) ==
    [type |-> disk[p].kind, data |-> disk[p].data, mode |-> disk[p].mode,
     locked |-> opt = "lock", here |-> opt # "elsewhere", updated |-> now]

(* Neither a file nor a link is at p when the walk comes there. *)
Passed(i, p) == ~Leaf(p) /\ p # proc[i].arg

(* addEntry: a path that is tracked is skipped. *)
AddEntry(i) ==
    /\ proc[i].at \in {"adding", "walking"}
    /\ \E p \in proc[i].todo :
        \/ /\ p \in Tracked(proc[i].mem) \/ Passed(i, p)
           /\ Step(i, p, proc[i].mem) /\ store' = store
        \/ /\ p \notin Tracked(proc[i].mem) /\ Exists(p) /\ ~Passed(i, p)
           /\ store' = Stored(disk[p].data)
           /\ Step(i, p, [proc[i].mem EXCEPT !.files[p] =
                              NewEntry(p, proc[i].opt, proc[i].now)])
    /\ UNCHANGED <<disk, manifest, clock>>

-----------------------------------------------------------------------------
(* checkpoint *)

Checkpoint(i) ==
    Begin(i, "checkpoint", "checkpointing", None, "plain", manifest,
          Applying(manifest))

(* Mutant of Refreshed: a second change within a second goes unnoticed. *)
RefreshedOnce(e, data, now) ==
    IF data = e.data \/ e.updated = now THEN e ELSE [e EXCEPT !.data = data, !.updated = now]

(* The entry takes what is on disk; only a change moves its timestamp. *)
Refreshed(e, data, now) ==
    IF data = e.data THEN e ELSE [e EXCEPT !.data = data, !.updated = now]

(* Mutant of OnlyMode: the lock is not looked at. *)
OnlyModeOfDirectories(e) == e.type = "directory"

(* Entries whose contents checkpoint does not look at. *)
OnlyMode(e) == e.locked \/ e.type = "directory"

CheckpointEntry(i) ==
    /\ proc[i].at = "checkpointing"
    /\ \E p \in proc[i].todo :
        LET m == proc[i].mem
            e == [m.files[p] EXCEPT !.mode = disk[p].mode]
            Record(new) == Step(i, p, [m EXCEPT !.files[p] = new])
        IN  \/ ~Exists(p) /\ Step(i, p, m) /\ store' = store
            \/ /\ Exists(p) /\ OnlyMode(e)
               /\ Record(e) /\ store' = store
            \/ /\ ~OnlyMode(e) /\ e.type = "file" /\ Exists(p) /\ Readable(p)
               /\ store' = Stored(Contents(p))
               /\ Record(Refreshed(e, Contents(p), proc[i].now))
            \/ /\ ~OnlyMode(e) /\ e.type = "link" /\ disk[p].kind = "link"
               /\ Record(Refreshed(e, disk[p].data, proc[i].now)) /\ store' = store
    /\ UNCHANGED <<disk, manifest, clock>>

-----------------------------------------------------------------------------
(* restore *)

Restore(i) ==
    \E arg \in Tracked(manifest) \cup {None}, opt \in {"plain", "force"} :
        Begin(i, "restore", "restoring", arg, opt, manifest,
              {p \in Applying(manifest) : arg \in {p, None}})

WithParents(p) ==
    [d \in Path |-> IF p \in Below[d] /\ ~Exists(d)
                    THEN Directory(DefaultMode) ELSE disk[d]]

(* os.WriteFile of contents c for entry e: to where the path leads, and    *)
(* the mode of a file that exists stays.                                   *)
Overwritten(p, e, c) ==
    LET t == Follow(p)
    IN  [WithParents(p) EXCEPT ![t] = [kind |-> "file", data |-> c, mtime |-> clock,
                                       mode |-> IF Exists(t) THEN disk[t].mode ELSE e.mode]]

(* restoreFile has what it needs. *)
CanWrite(p, e) ==
    /\ e.type = "file" /\ e.data \in store
    /\ Follow(p) # p => HasParents(Follow(p))

(* restoreFile writes what the entry names; restoreLink replaces the path. *)
Install(p, e) ==
    \/ CanWrite(p, e) /\ disk' = Overwritten(p, e, e.data)
    \/ /\ e.type = "link"
       /\ disk' = [WithParents(p) EXCEPT ![p] =
             [kind |-> "link", data |-> e.data, mtime |-> clock, mode |-> e.mode]]

(* Mutant of Older: a file written in the second of the entry is older. *)
NotNewer(p, e) == disk[p].mtime <= e.updated

(* The entry is newer than the file on disk. *)
Older(p, e) == disk[p].mtime < e.updated

Matches(p, e) == Readable(p) /\ Contents(p) = e.data

LockedFile(e) == e.locked /\ e.type = "file"

(* Without --force restore asks before it replaces what is not older. *)
Asks(i, p) ==
    LET e == proc[i].mem.files[p]
    IN  ~LockedFile(e) /\ proc[i].opt # "force" /\ Exists(p) /\ ~Older(p, e)

MaySkip(i, p) ==
    LET e == proc[i].mem.files[p]
    IN  \/ LockedFile(e) /\ Matches(p, e)
        \/ Asks(i, p) /\ FALSE \in Answers

MayWrite(i, p) ==
    LET e == proc[i].mem.files[p]
    IN  IF LockedFile(e) THEN ~Matches(p, e) ELSE Asks(i, p) => TRUE \in Answers

RestoreEntry(i) ==
    /\ proc[i].at = "restoring"
    /\ \E p \in proc[i].todo :
        LET e == proc[i].mem.files[p]
        IN  /\ \/ MaySkip(i, p) /\ disk' = disk
               \/ MayWrite(i, p) /\ Install(p, e)
               \/ /\ MayWrite(i, p) /\ e.type = "directory"
                  /\ disk' = [WithParents(p) EXCEPT ![p] =
                                IF Exists(p) THEN @ ELSE Directory(e.mode)]
            /\ Step(i, p, proc[i].mem)
    /\ UNCHANGED <<manifest, store, clock>>

(* A command is killed in os.WriteFile, which truncates and then writes,   *)
(* so that the file is left with any contents and newer than its entry, or *)
(* in restoreLink, between the removal of what is there and the new link.  *)
Tear(i) ==
    /\ proc[i].at \in {"restoring", "replaying"}
    /\ \E p \in proc[i].todo :
        LET e == proc[i].mem.files[p]
        IN  /\ proc[i].at = "restoring" => MayWrite(i, p)
            /\ \/ \E c \in Content : CanWrite(p, e) /\ disk' = Overwritten(p, e, c)
               \/ e.type = "link" /\ disk' = [WithParents(p) EXCEPT ![p] = Absent]
    /\ Finish(i)
    /\ UNCHANGED <<manifest, store, clock>>

EndRestore(i) ==
    /\ proc[i].at = "restoring" /\ proc[i].todo = {}
    /\ Finish(i)
    /\ UNCHANGED <<disk, manifest, store, clock>>

-----------------------------------------------------------------------------
(* mirror up: add what is new, drop what is gone, hash the rest again. *)

(* Of a file, mirror up only sees whether it is tracked. *)
MirrorUp(i) ==
    \E d \in Path :
        /\ Exists(d)
        /\ Begin(i, "mirror up", "walking", d, "plain", manifest, Walk(d, manifest))

EndWalk(i) ==
    /\ proc[i].at = "walking" /\ proc[i].todo = {}
    /\ proc' = [proc EXCEPT ![i].at = "dropping",
                            ![i].todo = Below[proc[i].arg] \cap Tracked(proc[i].mem)]
    /\ UNCHANGED <<disk, manifest, store, clock>>

(* An entry is dropped when its file is gone. *)
Drop(i) ==
    /\ proc[i].at = "dropping"
    /\ \E p \in proc[i].todo :
        Step(i, p, [proc[i].mem EXCEPT !.files[p] = IF Exists(p) THEN @ ELSE None])
    /\ UNCHANGED <<disk, manifest, store, clock>>

EndDrop(i) ==
    /\ proc[i].at = "dropping" /\ proc[i].todo = {}
    /\ proc' = [proc EXCEPT ![i].at = "rehashing",
                            ![i].todo = Below[proc[i].arg] \cap TrackedFiles(proc[i].mem)]
    /\ UNCHANGED <<disk, manifest, store, clock>>

Rehash(i) ==
    /\ proc[i].at = "rehashing"
    /\ \E p \in proc[i].todo :
        /\ Readable(p)
        /\ store' = Stored(Contents(p))
        /\ Step(i, p, [proc[i].mem EXCEPT !.files[p] =
                          Refreshed(@, Contents(p), proc[i].now)])
    /\ UNCHANGED <<disk, manifest, clock>>

-----------------------------------------------------------------------------
(* mirror down: write what is tracked, delete what is not, remove the      *)
(* directories left empty.  Locks, targeting and timestamps do not count.  *)

MirrorDown(i) ==
    \E d \in Path, opt \in {"plain", "force"} :
        Begin(i, "mirror down", "replaying", d, opt, manifest, Below[d] \cap Tracked(manifest))

Replay(i) ==
    /\ proc[i].at = "replaying"
    /\ \E p \in proc[i].todo :
        /\ \/ Install(p, proc[i].mem.files[p])
           \/ proc[i].mem.files[p].type = "directory" /\ disk' = WithParents(p)
        /\ Step(i, p, proc[i].mem)
    /\ UNCHANGED <<manifest, store, clock>>

(* Mutant of Untracked: an exclusion protects nothing from deletion. *)
UntrackedAll(d, m) == IF Leaf(d) THEN {d} ELSE Below[d] \ Tracked(m)

(* Mutant of Untracked: an excluded file ends the walk of the directory. *)
UntrackedBeforeExcluded(d, m) ==
    {p \in Below[d] : /\ p \notin Tracked(m) /\ ~Excluded(m, p)
                      /\ ~\E q \in Below[d] : Leaf(q) /\ Excluded(m, q)}

(* What the walk of d may delete.  A file that is named is not among the   *)
(* entries under it, and so counts as untracked.                           *)
Untracked(d, m) == Walk(d, m) \ (Below[d] \cap Tracked(m))

WalkDown(i) ==
    /\ proc[i].at = "replaying" /\ proc[i].todo = {}
    /\ Exists(proc[i].arg)
    /\ proc' = [proc EXCEPT ![i].at = "deleting", ![i].todo = Untracked(proc[i].arg, proc[i].mem)]
    /\ UNCHANGED <<disk, manifest, store, clock>>

Delete(i) ==
    /\ proc[i].at = "deleting"
    /\ \E p \in proc[i].todo :
        /\ \/ /\ Leaf(p) /\ (proc[i].opt = "force" \/ TRUE \in Answers)
              /\ disk' = [disk EXCEPT ![p] = Absent]
           \/ /\ ~Leaf(p) \/ (proc[i].opt # "force" /\ FALSE \in Answers)
              /\ disk' = disk
        /\ Step(i, p, proc[i].mem)
    /\ UNCHANGED <<manifest, store, clock>>

CleanUp(i) ==
    /\ proc[i].at = "deleting" /\ proc[i].todo = {}
    /\ LET Stays(p) == Leaf(p) \/ (disk[p].kind = "directory" /\ Excluded(proc[i].mem, p))
           empty == {p \in Below[proc[i].arg] : \A q \in Below[p] \cup {p} : ~Stays(q)}
       IN  disk' = [p \in Path |-> IF p \in empty THEN Absent ELSE disk[p]]
    /\ Finish(i)
    /\ UNCHANGED <<manifest, store, clock>>

-----------------------------------------------------------------------------
(* Commands that only edit the manifest. *)

Edit(i, cmd, p, m) == Begin(i, cmd, "editing", p, "plain", m, {})

Remove(i) ==
    \E p \in Tracked(manifest) :
        Edit(i, "remove", p, [manifest EXCEPT !.files[p] = None])

SetLocked(i) ==
    \E p \in Tracked(manifest), locked \in BOOLEAN :
        Edit(i, "lock", p, [manifest EXCEPT !.files[p].locked = locked])

SetTargeting(i) ==
    \E p \in Tracked(manifest), here \in BOOLEAN :
        Edit(i, "target", p, [manifest EXCEPT !.files[p].here = here])

(* removeExcludedEntries *)
Purged(m) ==
    [m EXCEPT !.files = [p \in Path |-> IF Excluded(m, p) THEN None ELSE @[p]]]

(* An exclusion that is already listed is skipped, its entries with it. *)
Exclude(i) ==
    \E p \in Path :
        Edit(i, "exclude", p, IF p \in manifest.exclude THEN manifest
                              ELSE Purged([manifest EXCEPT !.exclude = @ \cup {p}]))

Include(i) ==
    \E p \in Path : Edit(i, "include", p, [manifest EXCEPT !.exclude = @ \ {p}])

-----------------------------------------------------------------------------
(* prune: list the blobs, then delete those the loaded manifest does not   *)
(* name.                                                                   *)

Prune(i) == Begin(i, "prune", "listing", None, "plain", manifest, {})

(* Mutant of Orphans: entries that do not apply here do not count. *)
OrphansHere(m) ==
    store \ {m.files[p].data : p \in TrackedFiles(m) \cap Applying(m)}

Orphans(m) == store \ Blobs(m)

ListBlobs(i) ==
    /\ proc[i].at = "listing"
    /\ proc' = [proc EXCEPT ![i].at = "pruning", ![i].todo = Orphans(proc[i].mem)]
    /\ UNCHANGED <<disk, manifest, store, clock>>

DeleteBlob(i) ==
    /\ proc[i].at = "pruning"
    /\ \E h \in proc[i].todo \cap store :
        store' = store \ {h} /\ Step(i, h, proc[i].mem)
    /\ UNCHANGED <<disk, manifest, clock>>

EndPrune(i) ==
    /\ proc[i].at = "pruning" /\ proc[i].todo = {}
    /\ Finish(i)
    /\ UNCHANGED <<disk, manifest, store, clock>>

-----------------------------------------------------------------------------
User == UserWrites \/ UserLinks \/ UserRemoves \/ UserMakesDirectory

Starts(i) ==
    \/ Add(i) \/ Checkpoint(i) \/ Restore(i) \/ MirrorUp(i) \/ MirrorDown(i)
    \/ Remove(i) \/ SetLocked(i) \/ SetTargeting(i) \/ Exclude(i) \/ Include(i) \/ Prune(i)

Works(i) ==
    \/ AddEntry(i) \/ CheckpointEntry(i) \/ RestoreEntry(i) \/ EndRestore(i)
    \/ EndWalk(i) \/ Drop(i) \/ EndDrop(i) \/ Rehash(i) \/ Replay(i) \/ WalkDown(i) \/ Delete(i) \/ CleanUp(i)
    \/ Tear(i) \/ ListBlobs(i) \/ DeleteBlob(i) \/ EndPrune(i) \/ Save(i)

Next ==
    \/ User \/ Tick
    \/ \E i \in Proc : Starts(i) \/ Works(i) \/ Stop(i)

Spec == Init /\ [][Next]_vars

-----------------------------------------------------------------------------
(* Properties. *)

TypeOK ==
    /\ disk \in [Path -> Object]
    /\ manifest \in Manifest
    /\ store \subseteq Content
    /\ proc \in [Proc -> Process]
    /\ clock \in Time

(* Blobs are written before the manifest that names them and only orphans  *)
(* are deleted: whatever is interrupted, every file that manifest.yaml     *)
(* names can be restored.                                                  *)
Complete == Blobs(manifest) \subseteq store

(* A version of p that its entry does not name is replaced, or torn, by a  *)
(* plain restore of process i.                                             *)
Overwrites(i, p) ==
    LET e == proc[i].mem.files[p]
    IN  /\ proc[i].at = "restoring" /\ proc[i].opt = "plain" /\ proc'[i] # proc[i]
        /\ disk[p].kind = "file"
        /\ p \in Tracked(proc[i].mem) => ~e.locked /\ ~Matches(p, e)
        /\ ~(disk'[p].kind = "file" /\ disk'[p].data = disk[p].data)

(* Without --force and unless the user agrees, restore destroys nothing    *)
(* that is not recorded: what it silently writes over a file is what the   *)
(* file contained, however the user's edits fell between the steps of      *)
(* checkpoint and wherever an earlier restore was killed.  Files that      *)
(* links lead to are excepted.                                             *)
QuietRestore ==
    [][\A i \in Proc, p \in Path :
          Overwrites(i, p) => \E q \in Path : disk[q].kind = "link" /\ disk[q].data = p]_vars

(* The same of every file. *)
RestoreAsks == [][\A i \in Proc, p \in Path : ~Overwrites(i, p)]_vars

(* Command cmd of process i ends well in this step. *)
Ends(i, cmd) ==
    /\ proc[i].cmd = cmd /\ proc[i].todo = {} /\ proc'[i] = Idle
    /\ \/ proc[i].at \in {"adding", "checkpointing", "rehashing", "editing"}
          /\ manifest' = proc[i].mem
       \/ proc[i].at \in {"restoring", "deleting", "pruning"}

(* What status says of an entry that applies here. *)
State(p, e) ==
    IF ~Exists(p) THEN "missing"
    ELSE IF \/ e.type = "file" /\ Matches(p, e)
            \/ e.type = "link" /\ disk[p].kind = "link" /\ disk[p].data = e.data
            \/ e.type = "directory"
         THEN "ok"
    ELSE IF e.type = "file" /\ e.locked THEN "drifted"
    ELSE "modified"

(* What the user targeted at this machine. *)
ForThisMachine(m) == {p \in Tracked(m) : m.files[p].here}

(* Status finds what checkpoint has recorded: only what is missing, and    *)
(* what is locked, may differ.                                             *)
CheckpointSettles ==
    [][\A i \in Proc : Ends(i, "checkpoint") =>
          \A p \in ForThisMachine(manifest') :
              State(p, manifest.files[p])' \in
                  {"ok", "missing"} \cup
                  (IF manifest'.files[p].locked THEN {"drifted", "modified"} ELSE {})]_vars

(* After restore --force, status finds nothing to report, whatever the     *)
(* user had done to the files.                                             *)
RestoreSettles ==
    [][\A i \in Proc :
          Ends(i, "restore") /\ proc[i].opt = "force" /\ proc[i].arg = None =>
              \A p \in ForThisMachine(manifest) : State(p, manifest.files[p]) = "ok"]_vars

(* While an entry is locked its contents are those of the repository: add, *)
(* checkpoint, restore and the commands that edit the manifest do not      *)
(* replace them by what the system left on disk.  (mirror up does.)        *)
LockedKept ==
    [][\A p \in Tracked(manifest) \cap Tracked(manifest') :
          manifest.files[p].locked /\ manifest'.files[p].locked =>
              manifest'.files[p].data = manifest.files[p].data]_vars

(* checkpoint skips locked entries entirely. *)
LockedUntouched ==
    [][\A i \in Proc : Ends(i, "checkpoint") =>
          \A p \in Tracked(manifest') :
              manifest'.files[p].locked => manifest'.files[p] = manifest.files[p]]_vars

(* add of a locked file, without --lock, takes the version on disk. *)
AddUpdatesLocked ==
    [][\A i \in Proc : Ends(i, "add") /\ proc[i].opt = "plain" =>
          \A p \in Tracked(manifest) \cap TrackedFiles(manifest') :
              p = proc[i].arg /\ manifest.files[p].locked => Matches(p, manifest'.files[p])]_vars

(* An entry that does not apply to this machine is left alone: no command  *)
(* writes its file.                                                        *)
ElsewhereUntouched ==
    [][\A i \in Proc, p \in Path :
          /\ proc[i].at \in {"restoring", "replaying"} /\ proc' # proc
          /\ p \in Tracked(proc[i].mem) /\ ~proc[i].mem.files[p].here
          /\ proc[i].mem.files[p].type # "directory"
          => disk'[p] = disk[p]]_vars

(* After mirror up the entries under the directory are the files and links *)
(* in it: the new are there, the deleted are gone, the changed are as they *)
(* are on disk.                                                            *)
MirrorUpExact ==
    [][\A i \in Proc : Ends(i, "mirror up") =>
          \A p \in Below[proc[i].arg] :
              /\ Leaf(p) /\ ~Excluded(manifest', p) => p \in Tracked(manifest')
              /\ p \in Tracked(manifest') => State(p, manifest'.files[p]) = "ok"]_vars

(* After mirror down --force the files and links in the directory, and in  *)
(* those inside it, are the entries under it and those that are excluded:  *)
(* the clean-up of directories takes none of them away.                    *)
MirrorDownExact ==
    [][\A i \in Proc : Ends(i, "mirror down") /\ proc[i].opt = "force" =>
          \A p \in Below[proc[i].arg] :
              /\ Leaf(p)' => p \in Tracked(manifest) \/ Excluded(manifest, p)
              /\ p \in Tracked(manifest) /\ manifest.files[p].type # "directory" =>
                     State(p, manifest.files[p])' = "ok"]_vars

(* After mirror down --force every entry under the directory is restored,  *)
(* directories included.                                                   *)
MirrorDownRestores ==
    [][\A i \in Proc : Ends(i, "mirror down") /\ proc[i].opt = "force" =>
          \A p \in Below[proc[i].arg] \cap Tracked(manifest) :
              State(p, manifest.files[p])' = "ok"]_vars

(* Files under an exclusion are left alone on disk by mirror down. *)
ExcludedKept ==
    [][\A i \in Proc, p \in Path :
          /\ proc[i].at = "deleting" /\ proc' # proc /\ Leaf(p)
          /\ Excluded(manifest, p)
          => disk'[p] = disk[p]]_vars

(* What add and mirror up find in a directory is tracked only if no        *)
(* exclusion covers it.                                                   *)
ExclusionHolds ==
    [][\A i \in Proc : Ends(i, "add") \/ Ends(i, "mirror up") =>
          \A p \in Tracked(manifest') \ Tracked(manifest) :
              Excluded(manifest', p) => p = proc[i].arg]_vars

(* Excluded paths are never tracked. *)
ExcludedUntracked == \A p \in Tracked(manifest) : ~Excluded(manifest, p)

(* After exclude nothing under the path is tracked. *)
ExcludeUntracks ==
    [][\A i \in Proc : Ends(i, "exclude") =>
          proc[i].arg \notin Tracked(manifest') /\ Below[proc[i].arg] \cap Tracked(manifest') = {}]_vars

(* prune deletes only blobs that no entry of the manifest names. *)
PruneOrphans ==
    [][\A h \in store \ store' : h \notin Blobs(manifest)]_vars

(* The inductive invariant behind Complete and PruneOrphans.  A command     *)
(* that may save has the blobs of what it would save; the entries it has    *)
(* still to visit are there; a prune works on the manifest as it is and     *)
(* spares what that names.                                                  *)
OnCourse(q, m, blobs) ==
    /\ q.at # "idle" => q.mem \in Manifest /\ Blobs(q.mem) \subseteq blobs
    /\ q.at \in {"adding", "walking", "deleting"} => q.todo \subseteq Path
    /\ q.at \in {"checkpointing", "restoring", "dropping", "replaying"} =>
          q.todo \subseteq Tracked(q.mem)
    /\ q.at = "rehashing" => q.todo \subseteq TrackedFiles(q.mem)
    /\ q.at = "replaying" => q.arg \in Path
    /\ q.at \in {"listing", "pruning"} => "prune" \in Commands /\ q.mem = m
    /\ q.at = "pruning" => q.todo \cap Blobs(m) = {}

IndInv ==
    /\ TypeOK
    /\ Complete
    /\ \A i \in Proc : OnCourse(proc[i], manifest, store)

(* Nothing prunes while another process works. *)
PruneAlone == "prune" \in Commands => \A i, j \in Proc : i = j
=============================================================================
