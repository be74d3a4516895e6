-------------------------- MODULE GardenStepProofs -------------------------
(***************************************************************************)
(* What the commands of a garden achieve, and what they never do, for any  *)
(* home directory, contents and clock, where one process works at a time.  *)
(***************************************************************************)
EXTENDS GardenProofs

Alone == \A i, j \in Proc : i = j

-----------------------------------------------------------------------------
(* What a step does to the home directory. *)

(* The directories above p that are made are new. *)
LEMMA WithParentsAt ==
    ASSUME NEW p \in Path, NEW q \in Path
    PROVE  \/ WithParents(p)[q] = disk[q]
           \/ /\ ~Exists(q) /\ p \in Below[q]
              /\ WithParents(p)[q] = Directory(DefaultMode)
BY DEF WithParents

(* A file that is written changes, and nothing else but its directories. *)
LEMMA OverwrittenAt ==
    ASSUME disk \in [Path -> Object], NEW p \in Path, NEW e, NEW c, NEW q \in Path
    PROVE  /\ q # Follow(p) => Overwritten(p, e, c)[q] = WithParents(p)[q]
           /\ q = Follow(p) => /\ Overwritten(p, e, c)[q].kind = "file"
                               /\ Overwritten(p, e, c)[q].data = c
                               /\ Overwritten(p, e, c)[q].mtime = clock
<1>1. PICK before, t : before = WithParents(p) /\ t = Follow(p)
  OBVIOUS
<1>2. PICK o : o = [kind |-> "file", data |-> c, mtime |-> clock,
                    mode |-> IF Exists(t) THEN disk[t].mode ELSE e.mode]
  OBVIOUS
<1>3. Overwritten(p, e, c) = [before EXCEPT ![t] = o]
  BY <1>1, <1>2 DEF Overwritten
<1>4. DOMAIN before = Path
  BY <1>1 DEF WithParents
<1>5. before = [x \in Path |-> before[x]]
  BY <1>1 DEF WithParents
<1>6. [before EXCEPT ![t] = o][q] = IF q = t THEN o ELSE before[q]
  BY <1>4, <1>5
<1> QED
  BY <1>1, <1>2, <1>3, <1>6

(* Nobody backdates a file. *)
Moved(on, then) ==
    \A q \in Path : then[q] = on[q] \/ then[q].kind # "file" \/ then[q].mtime = clock

LEMMA InstallMoves ==
    ASSUME disk \in [Path -> Object], NEW p \in Path, NEW e, Install(p, e)
    PROVE  Moved(disk, disk')
<1> SUFFICES ASSUME NEW q \in Path, disk'[q] # disk[q]
             PROVE  disk'[q].kind # "file" \/ disk'[q].mtime = clock
  BY DEF Moved
<1>1. WithParents(p)[q] = disk[q] \/ WithParents(p)[q].kind = "directory"
  BY WithParentsAt DEF Directory
<1>2. CASE disk' = Overwritten(p, e, e.data)
  BY <1>1, <1>2, OverwrittenAt
<1>3. CASE disk' = [WithParents(p) EXCEPT ![p] =
             [kind |-> "link", data |-> e.data, mtime |-> clock, mode |-> e.mode]]
  <2>1. q # p => disk'[q] = WithParents(p)[q]
    BY <1>3 DEF WithParents
  <2>2. q = p => disk'[q].kind = "link"
    BY <1>3 DEF WithParents
  <2> QED BY <1>1, <2>1, <2>2
<1> QED BY <1>2, <1>3 DEF Install

LEMMA DiskMoves ==
    ASSUME IndInv, [Next]_vars
    PROVE  /\ Moved(disk, disk')
           /\ clock' = clock \/ (clock' = clock + 1 /\ disk' = disk)
<1>1. disk \in [Path -> Object] /\ clock \in Time
  BY DEF IndInv, TypeOK
<1>2. CASE disk' = disk
  <2>1. clock' = clock \/ clock' = clock + 1
    BY DEF Next, vars, User, UserWrites, UserLinks, UserRemoves, UserMakesDirectory, Tick, Starts, Works,
       Add, Checkpoint, Restore, MirrorUp, MirrorDown, Remove, SetLocked, SetTargeting, Exclude,
       Include, Prune, Edit, Begin, AddEntry, CheckpointEntry, RestoreEntry, EndRestore, EndWalk, Drop,
       EndDrop, Rehash, Replay, WalkDown, Delete, CleanUp, Tear, ListBlobs, DeleteBlob, EndPrune, Save, Stop
  <2> QED BY <1>2, <2>1 DEF Moved
<1>3. CASE User
  <2>1. clock' = clock
    BY <1>3 DEF User, UserWrites, UserLinks, UserRemoves, UserMakesDirectory
  <2>2. Moved(disk, disk')
    <3>1. CASE UserWrites
      BY <1>1, <3>1 DEF UserWrites, Moved
    <3>2. CASE UserLinks
      BY <1>1, <3>2 DEF UserLinks, Moved
    <3>3. CASE UserRemoves \/ UserMakesDirectory
      BY <1>1, <3>3 DEF UserRemoves, UserMakesDirectory, Moved, Directory, Absent
    <3> QED BY <1>3, <3>1, <3>2, <3>3 DEF User
  <2> QED BY <2>1, <2>2
<1>4. ASSUME NEW i \in Proc, RestoreEntry(i) PROVE Moved(disk, disk') /\ clock' = clock
  <2>1. PICK p \in proc[i].todo :
        \/ disk' = disk
        \/ Install(p, proc[i].mem.files[p])
        \/ disk' = [WithParents(p) EXCEPT ![p] =
                      IF Exists(p) THEN @ ELSE Directory(proc[i].mem.files[p].mode)]
    BY <1>4 DEF RestoreEntry
  <2>2. p \in Path /\ clock' = clock
    BY <1>4, Working DEF RestoreEntry, OnCourse, Tracked
  <2>3. CASE disk' = [WithParents(p) EXCEPT ![p] =
                        IF Exists(p) THEN @ ELSE Directory(proc[i].mem.files[p].mode)]
    <3> SUFFICES ASSUME NEW q \in Path, disk'[q] # disk[q] PROVE disk'[q].kind # "file"
      BY <2>2 DEF Moved
    <3>1. q # p => disk'[q] = WithParents(p)[q]
      BY <2>3 DEF WithParents
    <3>2. q = p => disk'[q] = WithParents(p)[q] \/ disk'[q].kind = "directory"
      BY <2>2, <2>3 DEF WithParents, Directory
    <3> QED BY <2>2, <3>1, <3>2, WithParentsAt DEF Directory
  <2> QED BY <1>1, <2>1, <2>2, <2>3, InstallMoves DEF Moved
<1>5. ASSUME NEW i \in Proc, Replay(i) PROVE Moved(disk, disk') /\ clock' = clock
  <2>1. PICK p \in proc[i].todo : Install(p, proc[i].mem.files[p]) \/ disk' = WithParents(p)
    BY <1>5 DEF Replay
  <2>2. p \in Path /\ clock' = clock
    BY <1>5, Working DEF Replay, OnCourse, Tracked
  <2>3. CASE disk' = WithParents(p)
    BY <2>2, <2>3, WithParentsAt DEF Moved, Directory
  <2> QED BY <1>1, <2>1, <2>2, <2>3, InstallMoves
<1>6. ASSUME NEW i \in Proc, Tear(i) PROVE Moved(disk, disk') /\ clock' = clock
  <2>1. PICK p \in proc[i].todo :
          \/ \E c \in Content : disk' = Overwritten(p, proc[i].mem.files[p], c)
          \/ disk' = [WithParents(p) EXCEPT ![p] = Absent]
    BY <1>6 DEF Tear
  <2>2. p \in Path /\ clock' = clock
    BY <1>6, Working DEF Tear, OnCourse, Tracked
  <2>3. CASE \E c \in Content : disk' = Overwritten(p, proc[i].mem.files[p], c)
    BY <1>1, <2>2, <2>3, OverwrittenAt, WithParentsAt DEF Moved, Directory
  <2>4. CASE disk' = [WithParents(p) EXCEPT ![p] = Absent]
    <3>1. \A q \in Path : disk'[q] = WithParents(p)[q] \/ disk'[q] = Absent
      BY <2>4 DEF WithParents
    <3> QED BY <2>2, <3>1, WithParentsAt DEF Moved, Directory, Absent
  <2> QED BY <2>1, <2>2, <2>3, <2>4
<1>7. ASSUME NEW i \in Proc, Delete(i) \/ CleanUp(i) PROVE Moved(disk, disk') /\ clock' = clock
  <2>1. \A q \in Path : disk'[q] \in {disk[q], Absent}
    <3>1. CASE Delete(i)
      <4>1. PICK p : disk' = [disk EXCEPT ![p] = Absent] \/ disk' = disk
        BY <3>1 DEF Delete
      <4> QED BY <1>1, <4>1
    <3>2. CASE CleanUp(i)
      <4>1. PICK empty : disk' = [p \in Path |-> IF p \in empty THEN Absent ELSE disk[p]]
        BY <3>2 DEF CleanUp
      <4> QED BY <4>1
    <3> QED BY <1>7, <3>1, <3>2
  <2>2. clock' = clock
    BY <1>7 DEF Delete, CleanUp
  <2> QED BY <2>1, <2>2 DEF Moved, Absent
<1>8. ASSUME NEW i \in Proc,
             \/ Starts(i) \/ Stop(i) \/ AddEntry(i) \/ CheckpointEntry(i) \/ EndRestore(i)
             \/ EndWalk(i) \/ Drop(i) \/ EndDrop(i) \/ Rehash(i) \/ WalkDown(i)
             \/ ListBlobs(i) \/ DeleteBlob(i) \/ EndPrune(i) \/ Save(i)
      PROVE  disk' = disk
  BY <1>8 DEF Starts, Add, Checkpoint, Restore, MirrorUp, MirrorDown, Remove, SetLocked,
     SetTargeting, Exclude, Include, Prune, Edit, Begin, AddEntry, CheckpointEntry, EndRestore,
     EndWalk, Drop, EndDrop, Rehash, WalkDown, ListBlobs, DeleteBlob, EndPrune, Save, Stop
<1> QED BY <1>2, <1>3, <1>4, <1>5, <1>6, <1>7, <1>8 DEF Next, Works, Tick, vars

-----------------------------------------------------------------------------
(* Timestamps. *)

(* A file that is older than its entry contains what the entry names, and  *)
(* no entry is from the future.                                            *)
DatedEntry(e, o, now) ==
    /\ e.updated <= now
    /\ o.kind = "file" /\ o.mtime < e.updated /\ e.type # "directory" =>
           e.type = "file" /\ o.data = e.data

Dated(m, on, now) == \A p \in Tracked(m) : DatedEntry(m.files[p], on[p], now)

AllDated ==
    /\ Dated(manifest, disk, clock)
    /\ \A i \in Proc : proc[i].at # "idle" =>
          proc[i].now <= clock /\ Dated(proc[i].mem, disk, clock)

LEMMA DatedStays ==
    ASSUME IndInv, [Next]_vars, NEW m \in Manifest, Dated(m, disk, clock)
    PROVE  Dated(m, disk', clock') /\ \A t \in Time : t <= clock => t <= clock'
<1>1. /\ Moved(disk, disk') /\ clock \in Int /\ clock' \in Int /\ clock <= clock'
      /\ disk' = disk \/ clock' = clock
  BY DiskMoves, MaxTimeAssumption DEF IndInv, TypeOK, Time
<1>2. ASSUME NEW p \in Tracked(m) PROVE DatedEntry(m.files[p], disk'[p], clock')
  <2>1. /\ DatedEntry(m.files[p], disk[p], clock) /\ p \in Path
        /\ m.files[p].updated \in Int
    BY MaxTimeAssumption, EntryParts DEF Dated, Tracked, Manifest, Time
  <2>2. disk'[p] = disk[p] \/ disk'[p].kind # "file" \/ disk'[p].mtime = clock
    BY <1>1, <2>1 DEF Moved
  <2> QED BY <1>1, <2>1, <2>2 DEF DatedEntry
<1>3. \A t \in Time : t <= clock => t <= clock'
  BY <1>1, MaxTimeAssumption DEF Time
<1> QED BY <1>2, <1>3 DEF Dated

(* The flags of entries change, or entries go. *)
LEMMA DatedFewer ==
    ASSUME NEW m, NEW on, NEW now, Dated(m, on, now), NEW n,
           \A p \in Tracked(n) :
              /\ p \in Tracked(m) /\ n.files[p].type = m.files[p].type
              /\ n.files[p].data = m.files[p].data /\ n.files[p].updated = m.files[p].updated
    PROVE  Dated(n, on, now)
BY DEF Dated, DatedEntry

-----------------------------------------------------------------------------
(* What a step does to the command of a process. *)

(* The manifest n is m with entries gone, or their flags changed. *)
Edited(m, n) ==
    \A p \in Tracked(n) :
        /\ p \in Tracked(m) /\ n.files[p].type = m.files[p].type
        /\ n.files[p].data = m.files[p].data /\ n.files[p].updated = m.files[p].updated

(* What q has before it when it begins. *)
Begun(q) ==
    \/ /\ q.cmd = "add" /\ q.at = "adding" /\ q.mem = manifest
       /\ q.todo \subseteq Path /\ \A p \in q.todo : Excluded(manifest, p) => p = q.arg
    \/ /\ q.cmd = "checkpoint" /\ q.at = "checkpointing" /\ q.mem = manifest
       /\ q.todo = Applying(manifest)
    \/ /\ q.cmd = "restore" /\ q.at = "restoring" /\ q.mem = manifest
       /\ q.todo = {p \in Applying(manifest) : q.arg \in {p, None}}
    \/ /\ q.cmd = "mirror up" /\ q.at = "walking" /\ q.mem = manifest /\ q.arg \in Path
       /\ q.todo = Walk(q.arg, manifest)
    \/ /\ q.cmd = "mirror down" /\ q.at = "replaying" /\ q.mem = manifest /\ q.arg \in Path
       /\ q.todo = Below[q.arg] \cap Tracked(manifest)
    \/ /\ q.cmd \in {"remove", "lock", "target", "exclude", "include"} /\ q.at = "editing"
       /\ Edited(manifest, q.mem)
    \/ q.cmd = "prune" /\ q.at = "listing" /\ q.mem = manifest

LEMMA EditIs ==
    ASSUME IndInv, NEW i \in Proc,
           Remove(i) \/ SetLocked(i) \/ SetTargeting(i) \/ Exclude(i) \/ Include(i)
    PROVE  \E cmd \in {"remove", "lock", "target", "exclude", "include"}, p \in Path :
              \E m : Edit(i, cmd, p, m) /\ Edited(manifest, m)
<1>1. manifest \in Manifest /\ \A p \in Tracked(manifest) : manifest.files[p] \in Entry
  BY DEF IndInv, TypeOK, Manifest, Tracked
<1>2. CASE Remove(i)
  <2>1. PICK p \in Tracked(manifest) : Edit(i, "remove", p, [manifest EXCEPT !.files[p] = None])
    BY <1>2 DEF Remove
  <2>2. Edited(manifest, [manifest EXCEPT !.files[p] = None])
    BY <1>1 DEF Edited, Tracked, Manifest
  <2>3. p \in Path
    BY DEF Tracked
  <2> QED BY <2>1, <2>2, <2>3
<1>3. CASE SetLocked(i)
  <2>1. PICK p \in Tracked(manifest), flag \in BOOLEAN :
          Edit(i, "lock", p, [manifest EXCEPT !.files[p].locked = flag])
    BY <1>3 DEF SetLocked
  <2>2. PICK m : m = [manifest EXCEPT !.files[p].locked = flag]
    OBVIOUS
  <2>3. \A q \in Tracked(m) : /\ q \in Tracked(manifest)
                              /\ \/ m.files[q] = manifest.files[q]
                                 \/ m.files[q] = [manifest.files[q] EXCEPT !.locked = flag]
    BY <1>1, <2>2 DEF Tracked, Manifest
  <2>4. Edited(manifest, m)
    <3> SUFFICES ASSUME NEW q \in Tracked(m)
                 PROVE  /\ q \in Tracked(manifest) /\ m.files[q].type = manifest.files[q].type
                        /\ m.files[q].data = manifest.files[q].data
                        /\ m.files[q].updated = manifest.files[q].updated
      BY DEF Edited
    <3>1. PICK e \in Entry : e = manifest.files[q]
      BY <1>1, <2>3
    <3>2. m.files[q] = e \/ m.files[q] = [e EXCEPT !.locked = flag]
      BY <2>3, <3>1
    <3>3. e.type = m.files[q].type /\ e.data = m.files[q].data /\ e.updated = m.files[q].updated
      BY <3>2 DEF Entry, EntryOf
    <3> QED BY <2>3, <3>1, <3>3
  <2>5. p \in Path /\ Edit(i, "lock", p, m)
    BY <2>1, <2>2 DEF Tracked
  <2> QED BY <2>4, <2>5
<1>4. CASE SetTargeting(i)
  <2>1. PICK p \in Tracked(manifest), flag \in BOOLEAN :
          Edit(i, "target", p, [manifest EXCEPT !.files[p].here = flag])
    BY <1>4 DEF SetTargeting
  <2>2. PICK m : m = [manifest EXCEPT !.files[p].here = flag]
    OBVIOUS
  <2>3. \A q \in Tracked(m) : /\ q \in Tracked(manifest)
                              /\ \/ m.files[q] = manifest.files[q]
                                 \/ m.files[q] = [manifest.files[q] EXCEPT !.here = flag]
    BY <1>1, <2>2 DEF Tracked, Manifest
  <2>4. Edited(manifest, m)
    <3> SUFFICES ASSUME NEW q \in Tracked(m)
                 PROVE  /\ q \in Tracked(manifest) /\ m.files[q].type = manifest.files[q].type
                        /\ m.files[q].data = manifest.files[q].data
                        /\ m.files[q].updated = manifest.files[q].updated
      BY DEF Edited
    <3>1. PICK e \in Entry : e = manifest.files[q]
      BY <1>1, <2>3
    <3>2. m.files[q] = e \/ m.files[q] = [e EXCEPT !.here = flag]
      BY <2>3, <3>1
    <3>3. e.type = m.files[q].type /\ e.data = m.files[q].data /\ e.updated = m.files[q].updated
      BY <3>2 DEF Entry, EntryOf
    <3> QED BY <2>3, <3>1, <3>3
  <2>5. p \in Path /\ Edit(i, "target", p, m)
    BY <2>1, <2>2 DEF Tracked
  <2> QED BY <2>4, <2>5
<1>5. CASE Exclude(i)
  <2>1. PICK p \in Path :
            Edit(i, "exclude", p, IF p \in manifest.exclude THEN manifest
                                  ELSE Purged([manifest EXCEPT !.exclude = @ \cup {p}]))
    BY <1>5 DEF Exclude
  <2>2. PICK m : m = [manifest EXCEPT !.exclude = @ \cup {p}]
    OBVIOUS
  <2>3. m \in Manifest /\ m.files = manifest.files
    BY <1>1, <2>2 DEF Manifest
  <2>4. \A q \in Path : Purged(m).files[q] \in {manifest.files[q], None}
    BY <2>3 DEF Purged, Manifest
  <2>5. Edited(manifest, Purged(m)) /\ Edited(manifest, manifest)
    BY <2>4 DEF Edited, Tracked
  <2>6. PICK n : n = IF p \in manifest.exclude THEN manifest ELSE Purged(m)
    OBVIOUS
  <2>7. Edit(i, "exclude", p, n) /\ Edited(manifest, n)
    BY <2>1, <2>2, <2>5, <2>6
  <2> QED BY <2>7
<1>6. CASE Include(i)
  <2>1. PICK p \in Path : Edit(i, "include", p, [manifest EXCEPT !.exclude = @ \ {p}])
    BY <1>6 DEF Include
  <2>2. Edited(manifest, [manifest EXCEPT !.exclude = @ \ {p}])
    BY <1>1 DEF Edited, Tracked, Manifest
  <2> QED BY <2>1, <2>2
<1> QED BY <1>2, <1>3, <1>4, <1>5, <1>6

(* A walk looks at nothing that is excluded. *)
LEMMA WalkAvoids ==
    ASSUME NEW p \in Path, NEW m
    PROVE  Walk(p, m) \subseteq Path /\ \A q \in Walk(p, m) : ~Excluded(m, q)
BY BelowAssumption DEF Walk

LEMMA StartIs ==
    ASSUME IndInv, NEW i \in Proc, Starts(i)
    PROVE  /\ proc[i].at = "idle" /\ UNCHANGED <<disk, manifest, store, clock>>
           /\ proc' = [proc EXCEPT ![i] = proc'[i]]
           /\ proc'[i].now = clock /\ proc'[i].cmd \in Commands /\ Begun(proc'[i])
<1>1. PICK cmd, at, arg, opt, m, todo :
        /\ Begin(i, cmd, at, arg, opt, m, todo)
        /\ Begun([cmd |-> cmd, at |-> at, arg |-> arg, opt |-> opt,
                  now |-> clock, mem |-> m, todo |-> todo])
  <2>1. CASE Add(i)
    <3>1. PICK p \in Path, opt \in {"plain", "lock", "dir", "elsewhere"} :
              Begin(i, "add", "adding", p, opt, manifest,
                    IF opt = "dir" \/ Leaf(p) THEN {p} ELSE Walk(p, manifest))
      BY <2>1 DEF Add
    <3>2. PICK todo : todo = IF opt = "dir" \/ Leaf(p) THEN {p} ELSE Walk(p, manifest)
      OBVIOUS
    <3>3. todo \subseteq Path /\ \A q \in todo : Excluded(manifest, q) => q = p
      BY <3>2, WalkAvoids
    <3>4. Begin(i, "add", "adding", p, opt, manifest, todo)
      BY <3>1, <3>2
    <3>5. Begun([cmd |-> "add", at |-> "adding", arg |-> p, opt |-> opt,
                 now |-> clock, mem |-> manifest, todo |-> todo])
      BY <3>3 DEF Begun
    <3> QED BY <3>4, <3>5
  <2>2. CASE Checkpoint(i)
    <3>1. Begun([cmd |-> "checkpoint", at |-> "checkpointing", arg |-> None, opt |-> "plain",
                 now |-> clock, mem |-> manifest, todo |-> Applying(manifest)])
      BY DEF Begun
    <3> QED BY <2>2, <3>1 DEF Checkpoint
  <2>3. CASE Restore(i)
    <3>1. PICK arg \in Tracked(manifest) \cup {None}, opt \in {"plain", "force"} :
              Begin(i, "restore", "restoring", arg, opt, manifest,
                    {p \in Applying(manifest) : arg \in {p, None}})
      BY <2>3 DEF Restore
    <3>2. PICK todo : todo = {p \in Applying(manifest) : arg \in {p, None}}
      OBVIOUS
    <3>3. Begun([cmd |-> "restore", at |-> "restoring", arg |-> arg, opt |-> opt,
                 now |-> clock, mem |-> manifest, todo |-> todo])
      BY <3>2 DEF Begun
    <3> QED BY <3>1, <3>2, <3>3
  <2>4. CASE MirrorUp(i)
    <3>1. PICK d \in Path :
              Begin(i, "mirror up", "walking", d, "plain", manifest, Walk(d, manifest))
      BY <2>4 DEF MirrorUp
    <3>2. Begun([cmd |-> "mirror up", at |-> "walking", arg |-> d, opt |-> "plain",
                 now |-> clock, mem |-> manifest, todo |-> Walk(d, manifest)])
      BY <3>1 DEF Begun
    <3> QED BY <3>1, <3>2
  <2>5. CASE MirrorDown(i)
    <3>1. PICK d \in Path, opt \in {"plain", "force"} :
              Begin(i, "mirror down", "replaying", d, opt, manifest, Below[d] \cap Tracked(manifest))
      BY <2>5 DEF MirrorDown
    <3>2. Begun([cmd |-> "mirror down", at |-> "replaying", arg |-> d, opt |-> opt,
                 now |-> clock, mem |-> manifest, todo |-> Below[d] \cap Tracked(manifest)])
      BY <3>1 DEF Begun
    <3> QED BY <3>1, <3>2
  <2>6. CASE Remove(i) \/ SetLocked(i) \/ SetTargeting(i) \/ Exclude(i) \/ Include(i)
    <3>1. PICK cmd \in {"remove", "lock", "target", "exclude", "include"}, p \in Path :
             \E m : Edit(i, cmd, p, m) /\ Edited(manifest, m)
      BY <2>6, EditIs
    <3>2. PICK m : Edit(i, cmd, p, m) /\ Edited(manifest, m)
      BY <3>1
    <3>3. Begun([cmd |-> cmd, at |-> "editing", arg |-> p, opt |-> "plain",
                 now |-> clock, mem |-> m, todo |-> {}])
      BY <3>2 DEF Begun
    <3> QED BY <3>2, <3>3 DEF Edit
  <2>7. CASE Prune(i)
    <3>1. Begun([cmd |-> "prune", at |-> "listing", arg |-> None, opt |-> "plain",
                 now |-> clock, mem |-> manifest, todo |-> {}])
      BY DEF Begun
    <3> QED BY <2>7, <3>1 DEF Prune
  <2> QED BY <2>1, <2>2, <2>3, <2>4, <2>5, <2>6, <2>7 DEF Starts
<1>2. /\ proc[i].at = "idle" /\ UNCHANGED <<disk, manifest, store, clock>>
      /\ proc' = [proc EXCEPT ![i] = proc'[i]]
      /\ proc'[i] = [cmd |-> cmd, at |-> at, arg |-> arg, opt |-> opt,
                     now |-> clock, mem |-> m, todo |-> todo]
      /\ cmd \in Commands
  BY <1>1 DEF Begin, IndInv, TypeOK
<1> QED BY <1>1, <1>2

-----------------------------------------------------------------------------
(* What the steps of a loop do. *)

Same(q, r) ==
    r.cmd = q.cmd /\ r.at = q.at /\ r.arg = q.arg /\ r.opt = q.opt /\ r.now = q.now

(* n is m with the entry e at p. *)
Recorded(m, n, p, e) ==
    /\ n.files[p] = e /\ n.exclude = m.exclude
    /\ \A x \in Path \ {p} : n.files[x] = m.files[x]

LEMMA StepIs ==
    ASSUME IndInv, NEW i \in Proc, NEW x, NEW m, Step(i, x, m)
    PROVE  /\ proc' = [proc EXCEPT ![i] = proc'[i]] /\ Same(proc[i], proc'[i])
           /\ proc'[i].mem = m /\ proc'[i].todo = proc[i].todo \ {x}
<1>1. proc \in [Proc -> Process]
  BY DEF IndInv, TypeOK
<1>2. PICK q \in Process : q = proc[i]
  BY <1>1
<1>3. proc' = [proc EXCEPT ![i] = proc'[i]] /\ proc'[i] = [q EXCEPT !.todo = @ \ {x}, !.mem = m]
  BY <1>1, <1>2 DEF Step
<1>4. /\ Same(q, [q EXCEPT !.todo = @ \ {x}, !.mem = m])
      /\ [q EXCEPT !.todo = @ \ {x}, !.mem = m].mem = m
      /\ [q EXCEPT !.todo = @ \ {x}, !.mem = m].todo = q.todo \ {x}
  BY <1>2 DEF Process, Same
<1> QED BY <1>2, <1>3, <1>4

LEMMA RecordIs ==
    ASSUME NEW m \in Manifest, NEW p \in Path, NEW e
    PROVE  Recorded(m, [m EXCEPT !.files[p] = e], p, e)
BY DEF Manifest, Recorded

LEMMA AddEntryIs ==
    ASSUME IndInv, NEW i \in Proc, AddEntry(i)
    PROVE  /\ UNCHANGED <<disk, manifest, clock>>
           /\ proc' = [proc EXCEPT ![i] = proc'[i]] /\ Same(proc[i], proc'[i])
           /\ \E p \in proc[i].todo :
                /\ p \in Path /\ proc'[i].todo = proc[i].todo \ {p}
                /\ \/ /\ p \in Tracked(proc[i].mem) \/ Passed(i, p)
                      /\ proc'[i].mem = proc[i].mem
                   \/ /\ p \notin Tracked(proc[i].mem) /\ Exists(p) /\ ~Passed(i, p)
                      /\ Recorded(proc[i].mem, proc'[i].mem, p,
                                  NewEntry(p, proc[i].opt, proc[i].now))
                      /\ NewEntry(p, proc[i].opt, proc[i].now) \in Entry
<1>1. proc[i].at \in {"adding", "walking"} /\ UNCHANGED <<disk, manifest, clock>>
  BY DEF AddEntry
<1>2. PICK p, m :
        /\ p \in proc[i].todo /\ Step(i, p, m)
        /\ \/ /\ p \in Tracked(proc[i].mem) \/ Passed(i, p)
              /\ m = proc[i].mem
           \/ /\ p \notin Tracked(proc[i].mem) /\ Exists(p) /\ ~Passed(i, p)
              /\ m = [proc[i].mem EXCEPT !.files[p] = NewEntry(p, proc[i].opt, proc[i].now)]
  BY DEF AddEntry
<1>3. /\ p \in Path /\ proc[i].mem \in Manifest /\ proc[i].now \in Time
      /\ disk \in [Path -> Object]
  BY <1>1, <1>2, Working DEF OnCourse
<1>4. /\ proc' = [proc EXCEPT ![i] = proc'[i]] /\ Same(proc[i], proc'[i])
      /\ proc'[i].mem = m /\ proc'[i].todo = proc[i].todo \ {p}
  BY <1>2, StepIs
<1>5. Exists(p) => NewEntry(p, proc[i].opt, proc[i].now) \in Entry
  <2> SUFFICES ASSUME Exists(p) PROVE NewEntry(p, proc[i].opt, proc[i].now) \in Entry
    OBVIOUS
  <2>1. disk[p] \in Object /\ disk[p].kind \in Kind
    BY <1>3, ObjectParts DEF Exists
  <2>2. PICK e : e = NewEntry(p, proc[i].opt, proc[i].now)
    OBVIOUS
  <2>3. e \in Entry
    BY <1>3, <2>1, <2>2, ObjectParts DEF NewEntry, Entry, EntryOf, Kind
  <2> QED BY <2>2, <2>3
<1> QED BY <1>1, <1>2, <1>3, <1>4, <1>5, RecordIs

(* The entry e is old with the contents data. *)
Renewed(old, e, data, now) ==
    /\ e.type = old.type /\ e.locked = old.locked /\ e.here = old.here /\ e.data = data
    /\ e.updated = now \/ (e.updated = old.updated /\ e.data = old.data)

LEMMA RefreshedIs ==
    ASSUME NEW e \in Entry, NEW data, NEW now
    PROVE  Renewed(e, Refreshed(e, data, now), data, now)
BY DEF Entry, EntryOf, Refreshed, Renewed

(* The entry e is what checkpoint makes of old. *)
Taken(old, e, p, now) ==
    \/ OnlyMode(old) /\ Renewed(old, e, old.data, old.updated)
    \/ ~OnlyMode(old) /\ old.type = "file" /\ Readable(p) /\ Renewed(old, e, Contents(p), now)
    \/ /\ ~OnlyMode(old) /\ old.type = "link" /\ disk[p].kind = "link"
       /\ Renewed(old, e, disk[p].data, now)

LEMMA TakenIs ==
    ASSUME NEW old \in Entry, NEW mode, NEW p, NEW now, NEW new, NEW kept,
           kept = [old EXCEPT !.mode = mode],
           \/ OnlyMode(kept) /\ new = kept
           \/ /\ ~OnlyMode(kept) /\ kept.type = "file" /\ Readable(p)
              /\ new = Refreshed(kept, Contents(p), now)
           \/ /\ ~OnlyMode(kept) /\ kept.type = "link" /\ disk[p].kind = "link"
              /\ new = Refreshed(kept, disk[p].data, now)
    PROVE  Taken(old, new, p, now)
<1>1. /\ kept.type = old.type /\ kept.locked = old.locked /\ kept.here = old.here
      /\ kept.data = old.data /\ kept.updated = old.updated
  BY DEF Entry, EntryOf
<1>2. \A data : Renewed(old, Refreshed(kept, data, now), data, now)
  BY DEF Entry, EntryOf, Refreshed, Renewed
<1>3. Renewed(old, kept, old.data, old.updated)
  BY <1>1 DEF Renewed
<1> QED BY <1>1, <1>2, <1>3 DEF Taken, OnlyMode

LEMMA CheckpointEntryIs ==
    ASSUME IndInv, NEW i \in Proc, CheckpointEntry(i)
    PROVE  /\ UNCHANGED <<disk, manifest, clock>>
           /\ proc' = [proc EXCEPT ![i] = proc'[i]] /\ Same(proc[i], proc'[i])
           /\ \E p \in proc[i].todo :
                /\ p \in Tracked(proc[i].mem) /\ proc'[i].todo = proc[i].todo \ {p}
                /\ \/ ~Exists(p) /\ proc'[i].mem = proc[i].mem
                   \/ \E e : /\ Exists(p) /\ Recorded(proc[i].mem, proc'[i].mem, p, e)
                             /\ Taken(proc[i].mem.files[p], e, p, proc[i].now)
<1>1. proc[i].at = "checkpointing" /\ UNCHANGED <<disk, manifest, clock>>
  BY DEF CheckpointEntry
<1>2. proc[i].mem \in Manifest /\ proc[i].todo \subseteq Tracked(proc[i].mem)
  BY <1>1, Working DEF OnCourse
<1>3. PICK p \in proc[i].todo :
        LET m == proc[i].mem
            e == [m.files[p] EXCEPT !.mode = disk[p].mode]
            Record(new) == Step(i, p, [m EXCEPT !.files[p] = new])
        IN  \/ ~Exists(p) /\ Step(i, p, m)
            \/ /\ Exists(p) /\ OnlyMode(e) /\ Record(e)
            \/ /\ ~OnlyMode(e) /\ e.type = "file" /\ Exists(p) /\ Readable(p)
               /\ Record(Refreshed(e, Contents(p), proc[i].now))
            \/ /\ ~OnlyMode(e) /\ e.type = "link" /\ disk[p].kind = "link"
               /\ Record(Refreshed(e, disk[p].data, proc[i].now))
  BY DEF CheckpointEntry
<1>4. PICK old : old = proc[i].mem.files[p]
  OBVIOUS
<1>5. p \in Path /\ old \in Entry /\ p \in Tracked(proc[i].mem)
  BY <1>2, <1>4 DEF Tracked, Manifest
<1>6. PICK kept : kept = [old EXCEPT !.mode = disk[p].mode]
  OBVIOUS
<1>7. CASE ~Exists(p) /\ Step(i, p, proc[i].mem)
  <2>1. /\ proc' = [proc EXCEPT ![i] = proc'[i]] /\ Same(proc[i], proc'[i])
        /\ proc'[i].mem = proc[i].mem /\ proc'[i].todo = proc[i].todo \ {p}
    BY <1>7, StepIs
  <2> QED BY <1>1, <1>5, <1>7, <2>1
<1>8. ASSUME NEW new, Step(i, p, [proc[i].mem EXCEPT !.files[p] = new]), Exists(p),
             Taken(old, new, p, proc[i].now)
      PROVE  /\ proc' = [proc EXCEPT ![i] = proc'[i]] /\ Same(proc[i], proc'[i])
             /\ proc'[i].todo = proc[i].todo \ {p}
             /\ Recorded(proc[i].mem, proc'[i].mem, p, new)
  BY <1>2, <1>5, <1>8, StepIs, RecordIs
<1>9. CASE \/ Exists(p) /\ OnlyMode(kept) /\ Step(i, p, [proc[i].mem EXCEPT !.files[p] = kept])
           \/ /\ ~OnlyMode(kept) /\ kept.type = "file" /\ Exists(p) /\ Readable(p)
              /\ Step(i, p, [proc[i].mem EXCEPT !.files[p] =
                                Refreshed(kept, Contents(p), proc[i].now)])
           \/ /\ ~OnlyMode(kept) /\ kept.type = "link" /\ disk[p].kind = "link"
              /\ Step(i, p, [proc[i].mem EXCEPT !.files[p] =
                                Refreshed(kept, disk[p].data, proc[i].now)])
  <2>1. PICK new : /\ Step(i, p, [proc[i].mem EXCEPT !.files[p] = new]) /\ Exists(p)
                   /\ \/ OnlyMode(kept) /\ new = kept
                      \/ /\ ~OnlyMode(kept) /\ kept.type = "file" /\ Readable(p)
                         /\ new = Refreshed(kept, Contents(p), proc[i].now)
                      \/ /\ ~OnlyMode(kept) /\ kept.type = "link" /\ disk[p].kind = "link"
                         /\ new = Refreshed(kept, disk[p].data, proc[i].now)
    BY <1>9 DEF Exists
  <2>2. Taken(old, new, p, proc[i].now)
    BY <1>5, <1>6, <2>1, TakenIs
  <2> QED BY <1>1, <1>4, <1>5, <1>8, <2>1, <2>2
<1> QED BY <1>3, <1>4, <1>6, <1>7, <1>9

LEMMA RehashIs ==
    ASSUME IndInv, NEW i \in Proc, Rehash(i)
    PROVE  /\ UNCHANGED <<disk, manifest, clock>>
           /\ proc' = [proc EXCEPT ![i] = proc'[i]] /\ Same(proc[i], proc'[i])
           /\ \E p \in proc[i].todo :
                /\ p \in TrackedFiles(proc[i].mem) /\ proc'[i].todo = proc[i].todo \ {p}
                /\ Readable(p)
                /\ \E e \in Entry :
                     /\ Recorded(proc[i].mem, proc'[i].mem, p, e)
                     /\ Renewed(proc[i].mem.files[p], e, Contents(p), proc[i].now)
<1>1. proc[i].at = "rehashing" /\ UNCHANGED <<disk, manifest, clock>>
  BY DEF Rehash
<1>2. proc[i].mem \in Manifest /\ proc[i].todo \subseteq TrackedFiles(proc[i].mem)
  BY <1>1, Working DEF OnCourse
<1>3. PICK p \in proc[i].todo :
        /\ Readable(p)
        /\ Step(i, p, [proc[i].mem EXCEPT !.files[p] =
                          Refreshed(@, Contents(p), proc[i].now)])
  BY DEF Rehash
<1>4. PICK old : old = proc[i].mem.files[p]
  OBVIOUS
<1>5. p \in Path /\ old \in Entry /\ p \in TrackedFiles(proc[i].mem)
  BY <1>2, <1>4 DEF TrackedFiles, Tracked, Manifest
<1>6. PICK new : new = Refreshed(old, Contents(p), proc[i].now)
  OBVIOUS
<1>7. Step(i, p, [proc[i].mem EXCEPT !.files[p] = new])
  BY <1>2, <1>3, <1>4, <1>5, <1>6 DEF Manifest
<1>8. /\ proc' = [proc EXCEPT ![i] = proc'[i]] /\ Same(proc[i], proc'[i])
      /\ proc'[i].todo = proc[i].todo \ {p} /\ Recorded(proc[i].mem, proc'[i].mem, p, new)
  BY <1>2, <1>5, <1>7, StepIs, RecordIs
<1>9. Renewed(old, new, Contents(p), proc[i].now)
  BY <1>5, <1>6, RefreshedIs
<1>10. new \in Entry
  <2>1. old.type = "file" /\ Contents(p) \in Content /\ proc[i].now \in Time
    BY <1>1, <1>3, <1>4, <1>5, Working, FollowType DEF TrackedFiles
  <2> QED BY <1>5, <1>6, <2>1, RefreshedType
<1> QED BY <1>1, <1>3, <1>4, <1>5, <1>8, <1>9, <1>10

LEMMA EndWalkIs ==
    ASSUME IndInv, NEW i \in Proc, EndWalk(i)
    PROVE  /\ proc[i].at = "walking" /\ proc[i].todo = {} /\ UNCHANGED <<disk, manifest, clock>>
           /\ proc' = [proc EXCEPT ![i] = proc'[i]]
           /\ proc'[i].cmd = proc[i].cmd /\ proc'[i].arg = proc[i].arg
           /\ proc'[i].opt = proc[i].opt /\ proc'[i].now = proc[i].now
           /\ proc'[i].mem = proc[i].mem /\ proc'[i].at = "dropping"
           /\ proc'[i].todo = Below[proc[i].arg] \cap Tracked(proc[i].mem)
BY DEF IndInv, TypeOK, Process, EndWalk

LEMMA DropIs ==
    ASSUME IndInv, NEW i \in Proc, Drop(i)
    PROVE  /\ proc[i].at = "dropping" /\ UNCHANGED <<disk, manifest, clock>>
           /\ proc' = [proc EXCEPT ![i] = proc'[i]] /\ Same(proc[i], proc'[i])
           /\ \E p \in proc[i].todo :
                /\ p \in Tracked(proc[i].mem) /\ proc'[i].todo = proc[i].todo \ {p}
                /\ Recorded(proc[i].mem, proc'[i].mem, p,
                            IF Exists(p) THEN proc[i].mem.files[p] ELSE None)
<1>1. proc[i].at = "dropping" /\ UNCHANGED <<disk, manifest, clock>>
  BY DEF Drop
<1>2. proc[i].mem \in Manifest /\ proc[i].todo \subseteq Tracked(proc[i].mem)
  BY <1>1, Working DEF OnCourse
<1>3. PICK p \in proc[i].todo :
        Step(i, p, [proc[i].mem EXCEPT !.files[p] = IF Exists(p) THEN @ ELSE None])
  BY DEF Drop
<1>4. p \in Path /\ p \in Tracked(proc[i].mem)
  BY <1>2 DEF Tracked
<1>5. PICK new : new = IF Exists(p) THEN proc[i].mem.files[p] ELSE None
  OBVIOUS
<1>6. Step(i, p, [proc[i].mem EXCEPT !.files[p] = new])
  BY <1>2, <1>3, <1>4, <1>5 DEF Manifest
<1>7. /\ proc' = [proc EXCEPT ![i] = proc'[i]] /\ Same(proc[i], proc'[i])
      /\ proc'[i].todo = proc[i].todo \ {p} /\ Recorded(proc[i].mem, proc'[i].mem, p, new)
  BY <1>2, <1>4, <1>6, StepIs, RecordIs
<1> QED BY <1>1, <1>4, <1>5, <1>7

LEMMA EndDropIs ==
    ASSUME IndInv, NEW i \in Proc, EndDrop(i)
    PROVE  /\ proc[i].at = "dropping" /\ proc[i].todo = {} /\ UNCHANGED <<disk, manifest, clock>>
           /\ proc' = [proc EXCEPT ![i] = proc'[i]]
           /\ proc'[i].cmd = proc[i].cmd /\ proc'[i].arg = proc[i].arg
           /\ proc'[i].opt = proc[i].opt /\ proc'[i].now = proc[i].now
           /\ proc'[i].mem = proc[i].mem /\ proc'[i].at = "rehashing"
           /\ proc'[i].todo = Below[proc[i].arg] \cap TrackedFiles(proc[i].mem)
BY DEF IndInv, TypeOK, Process, EndDrop

LEMMA WalkDownIs ==
    ASSUME IndInv, NEW i \in Proc, WalkDown(i)
    PROVE  /\ proc[i].at = "replaying" /\ proc[i].todo = {}
           /\ UNCHANGED <<disk, manifest, clock>>
           /\ proc' = [proc EXCEPT ![i] = proc'[i]]
           /\ proc'[i].cmd = proc[i].cmd /\ proc'[i].arg = proc[i].arg
           /\ proc'[i].opt = proc[i].opt /\ proc'[i].now = proc[i].now
           /\ proc'[i].mem = proc[i].mem /\ proc'[i].at = "deleting"
           /\ proc'[i].todo = Untracked(proc[i].arg, proc[i].mem)
BY DEF IndInv, TypeOK, Process, WalkDown

LEMMA ListBlobsIs ==
    ASSUME IndInv, NEW i \in Proc, ListBlobs(i)
    PROVE  /\ proc[i].at = "listing" /\ UNCHANGED <<disk, manifest, clock>>
           /\ proc' = [proc EXCEPT ![i] = proc'[i]]
           /\ proc'[i].cmd = proc[i].cmd /\ proc'[i].now = proc[i].now
           /\ proc'[i].mem = proc[i].mem /\ proc'[i].at = "pruning"
BY DEF IndInv, TypeOK, Process, ListBlobs

LEMMA FinishIs ==
    ASSUME IndInv, NEW i \in Proc, Finish(i)
    PROVE  proc' = [proc EXCEPT ![i] = proc'[i]] /\ proc'[i] = Idle
BY DEF IndInv, TypeOK, Finish

(* The ways a command goes on: it begins, ends, saves, leaves its manifest *)
(* as it is, or records something in it.                                   *)
Recording(i) == AddEntry(i) \/ CheckpointEntry(i) \/ Rehash(i)

LEMMA Turns ==
    ASSUME IndInv, NEW i \in Proc, Starts(i) \/ Works(i) \/ Stop(i)
    PROVE  /\ proc' = [proc EXCEPT ![i] = proc'[i]]
           /\ \/ manifest' = manifest
              \/ /\ proc[i].at \in {"adding", "checkpointing", "rehashing", "editing"}
                 /\ proc[i].todo = {} /\ proc'[i] = Idle /\ manifest' = proc[i].mem
           /\ \/ Starts(i)
              \/ proc'[i] = Idle /\ proc[i].at # "idle"
              \/ /\ proc[i].at \in {"restoring", "replaying", "deleting", "pruning"}
                 /\ Same(proc[i], proc'[i]) /\ proc'[i].mem = proc[i].mem
                 /\ \E p \in proc[i].todo : proc'[i].todo = proc[i].todo \ {p}
              \/ WalkDown(i) \/ ListBlobs(i) \/ EndWalk(i) \/ EndDrop(i) \/ Drop(i) \/ Recording(i)
<1>1. CASE Starts(i)
  BY <1>1, StartIs
<1>2. CASE Save(i)
  BY <1>2, FinishIs DEF Save
<1>3. CASE EndRestore(i) \/ EndPrune(i) \/ Stop(i) \/ CleanUp(i) \/ Tear(i)
  <2>1. Finish(i) /\ manifest' = manifest /\ proc[i].at # "idle"
    BY <1>3 DEF EndRestore, EndPrune, Stop, CleanUp, Tear
  <2> QED BY <2>1, FinishIs
<1>4. CASE RestoreEntry(i) \/ Replay(i) \/ Delete(i) \/ DeleteBlob(i)
  <2>1. /\ manifest' = manifest
        /\ proc[i].at \in {"restoring", "replaying", "deleting", "pruning"}
        /\ \E p \in proc[i].todo : Step(i, p, proc[i].mem)
    BY <1>4 DEF RestoreEntry, Replay, Delete, DeleteBlob
  <2> QED BY <2>1, StepIs
<1>5. CASE WalkDown(i)
  BY <1>5, WalkDownIs
<1>6. CASE ListBlobs(i)
  BY <1>6, ListBlobsIs
<1>7. CASE EndWalk(i) \/ Drop(i) \/ EndDrop(i)
  BY <1>7, EndWalkIs, DropIs, EndDropIs
<1>8. CASE Recording(i)
  <2>1. proc' = [proc EXCEPT ![i] = proc'[i]] /\ manifest' = manifest
    BY <1>8, AddEntryIs, CheckpointEntryIs, RehashIs DEF Recording
  <2> QED BY <1>8, <2>1
<1> QED BY <1>1, <1>2, <1>3, <1>4, <1>5, <1>6, <1>7, <1>8 DEF Works, Recording

-----------------------------------------------------------------------------
(* Every entry is dated, at all times. *)

LEMMA DatedRecorded ==
    ASSUME NEW m, NEW n, NEW on, NEW now, NEW p \in Path, NEW e,
           Dated(m, on, now), Recorded(m, n, p, e), DatedEntry(e, on[p], now)
    PROVE  Dated(n, on, now)
BY DEF Dated, Recorded, Tracked

LEMMA RecordingDated ==
    ASSUME IndInv, AllDated, NEW i \in Proc, Recording(i)
    PROVE  Dated(proc'[i].mem, disk, clock)
<1>1. proc[i].at # "idle"
  BY DEF Recording, AddEntry, CheckpointEntry, Rehash
<1>2. /\ Dated(proc[i].mem, disk, clock) /\ proc[i].now <= clock /\ proc[i].mem \in Manifest
      /\ proc[i].now \in Int /\ clock \in Int /\ disk \in [Path -> Object]
  BY <1>1, Working, MaxTimeAssumption DEF AllDated, Time
<1>3. CASE AddEntry(i)
  <2>1. PICK p \in proc[i].todo :
          /\ p \in Path
          /\ \/ proc'[i].mem = proc[i].mem
             \/ /\ Exists(p)
                /\ Recorded(proc[i].mem, proc'[i].mem, p, NewEntry(p, proc[i].opt, proc[i].now))
    BY <1>3, AddEntryIs
  <2>2. DatedEntry(NewEntry(p, proc[i].opt, proc[i].now), disk[p], clock)
    BY <1>2 DEF DatedEntry, NewEntry
  <2> QED BY <1>2, <2>1, <2>2, DatedRecorded
<1>4. CASE CheckpointEntry(i)
  <2>1. PICK p \in proc[i].todo :
          /\ p \in Tracked(proc[i].mem)
          /\ \/ proc'[i].mem = proc[i].mem
             \/ \E e : /\ Exists(p) /\ Recorded(proc[i].mem, proc'[i].mem, p, e)
                       /\ Taken(proc[i].mem.files[p], e, p, proc[i].now)
    BY <1>4, CheckpointEntryIs
  <2>2. PICK old, o : old = proc[i].mem.files[p] /\ o = disk[p]
    OBVIOUS
  <2>3. p \in Path /\ DatedEntry(old, o, clock)
    BY <1>2, <2>1, <2>2 DEF Dated, Tracked
  <2>4. ASSUME NEW e, Exists(p), Taken(old, e, p, proc[i].now) PROVE DatedEntry(e, o, clock)
    <3>1. CASE Renewed(old, e, old.data, old.updated)
      BY <2>3, <3>1 DEF Renewed, DatedEntry
    <3>2. CASE old.type = "file" /\ Readable(p) /\ Renewed(old, e, Contents(p), proc[i].now)
      <4>1. o.kind = "file" => Contents(p) = o.data
        BY <2>2 DEF Contents, Follow
      <4> QED BY <1>2, <2>3, <3>2, <4>1 DEF Renewed, DatedEntry
    <3>3. CASE /\ old.type = "link" /\ disk[p].kind = "link"
               /\ Renewed(old, e, disk[p].data, proc[i].now)
      BY <1>2, <2>2, <2>3, <3>3 DEF Renewed, DatedEntry
    <3> QED BY <2>4, <3>1, <3>2, <3>3 DEF Taken
  <2> QED BY <1>2, <2>1, <2>2, <2>3, <2>4, DatedRecorded
<1>5. CASE Rehash(i)
  <2>1. PICK p \in proc[i].todo :
          /\ p \in TrackedFiles(proc[i].mem) /\ Readable(p)
          /\ \E e : /\ Recorded(proc[i].mem, proc'[i].mem, p, e)
                    /\ Renewed(proc[i].mem.files[p], e, Contents(p), proc[i].now)
    BY <1>5, RehashIs
  <2>2. PICK old, o : old = proc[i].mem.files[p] /\ o = disk[p]
    OBVIOUS
  <2>3. p \in Path /\ DatedEntry(old, o, clock) /\ old.type = "file"
    BY <1>2, <2>1, <2>2 DEF Dated, TrackedFiles, Tracked
  <2>4. o.kind = "file" => Contents(p) = o.data
    BY <2>2 DEF Contents, Follow
  <2>5. ASSUME NEW e, Renewed(old, e, Contents(p), proc[i].now) PROVE DatedEntry(e, o, clock)
    BY <1>2, <2>3, <2>4, <2>5 DEF Renewed, DatedEntry
  <2> QED BY <1>2, <2>1, <2>2, <2>3, <2>5, DatedRecorded
<1> QED BY <1>3, <1>4, <1>5 DEF Recording

LEMMA CommandDated ==
    ASSUME IndInv, AllDated, NEW i \in Proc, Starts(i) \/ Works(i) \/ Stop(i),
           proc'[i].at # "idle"
    PROVE  proc'[i].now \in Time /\ proc'[i].now <= clock /\ Dated(proc'[i].mem, disk, clock)
<1>1. CASE Starts(i)
  <2>1. proc'[i].now = clock /\ Begun(proc'[i]) /\ clock \in Time
    BY <1>1, StartIs DEF IndInv, TypeOK
  <2>2. Dated(manifest, disk, clock)
    BY DEF AllDated
  <2>3. proc'[i].mem = manifest \/ Edited(manifest, proc'[i].mem)
    BY <2>1 DEF Begun
  <2> QED BY <2>1, <2>2, <2>3, DatedFewer, MaxTimeAssumption DEF Edited, Time
<1>2. CASE ~Starts(i)
  <2>1. proc'[i] # Idle
    BY DEF Idle
  <2>2. CASE Recording(i)
    <3>1. proc[i].at # "idle" /\ proc'[i].now = proc[i].now
      BY <2>2, AddEntryIs, CheckpointEntryIs, RehashIs
         DEF Recording, AddEntry, CheckpointEntry, Rehash, Same
    <3> QED BY <2>2, <3>1, Working, RecordingDated DEF AllDated
  <2>3. CASE Drop(i)
    <3>1. /\ proc[i].at # "idle" /\ proc'[i].now = proc[i].now
          /\ \A p \in Path : proc'[i].mem.files[p] \in {None, proc[i].mem.files[p]}
      BY <2>3, DropIs DEF Recorded, Same
    <3>2. Dated(proc[i].mem, disk, clock) /\ proc[i].now <= clock /\ proc[i].now \in Time
      BY <3>1, Working DEF AllDated
    <3> QED BY <3>1, <3>2 DEF Dated, Tracked
  <2>4. CASE ~Recording(i) /\ ~Drop(i)
    <3>1. proc[i].at # "idle" /\ proc'[i].now = proc[i].now /\ proc'[i].mem = proc[i].mem
      BY <1>2, <2>1, <2>4, Turns, WalkDownIs, ListBlobsIs, EndWalkIs, EndDropIs DEF Same
    <3> QED BY <3>1, Working DEF AllDated
  <2> QED BY <2>2, <2>3, <2>4
<1> QED BY <1>1, <1>2

LEMMA InitAllDated == Init => AllDated
BY DEF Init, AllDated, Dated, Tracked, Idle

LEMMA AllDatedStep == IndInv /\ IndInv' /\ AllDated /\ [Next]_vars => AllDated'
<1> SUFFICES ASSUME IndInv, IndInv', AllDated, [Next]_vars PROVE AllDated'
  OBVIOUS
<1>1. manifest \in Manifest /\ Dated(manifest, disk, clock)
  BY DEF IndInv, TypeOK, AllDated
<1>2. ASSUME NEW m \in Manifest, Dated(m, disk, clock) PROVE Dated(m, disk', clock')
  BY <1>2, DatedStays
<1>3. \A t \in Time : t <= clock => t <= clock'
  BY <1>1, DatedStays
<1>4. ASSUME manifest' = manifest \/ \E i \in Proc : manifest' = proc[i].mem /\ proc[i].at # "idle"
      PROVE  Dated(manifest', disk', clock')
  BY <1>1, <1>2, <1>4, Working DEF AllDated
<1>5. ASSUME NEW i \in Proc, proc'[i] = proc[i], proc'[i].at # "idle"
      PROVE  proc'[i].now <= clock' /\ Dated(proc'[i].mem, disk', clock')
  BY <1>2, <1>3, <1>5, Working DEF AllDated
<1>6. CASE User \/ Tick \/ UNCHANGED vars
  <2>1. manifest' = manifest /\ proc' = proc
    BY <1>6 DEF User, UserWrites, UserLinks, UserRemoves, UserMakesDirectory, Tick, vars
  <2> QED BY <1>4, <1>5, <2>1 DEF AllDated
<1>7. ASSUME NEW i \in Proc, Starts(i) \/ Works(i) \/ Stop(i) PROVE AllDated'
  <2>1. /\ proc' = [proc EXCEPT ![i] = proc'[i]]
        /\ \/ manifest' = manifest
           \/ manifest' = proc[i].mem /\ proc[i].at # "idle"
    BY <1>7, Turns
  <2>2. ASSUME NEW j \in Proc, proc'[j].at # "idle"
        PROVE  proc'[j].now <= clock' /\ Dated(proc'[j].mem, disk', clock')
    <3>1. CASE j = i
      <4>1. proc'[i].now \in Time /\ proc'[i].now <= clock /\ Dated(proc'[i].mem, disk, clock)
        BY <1>7, <2>2, <3>1, CommandDated
      <4>2. proc'[i].mem \in Manifest
        BY <2>2, <3>1 DEF IndInv, OnCourse
      <4> QED BY <1>2, <1>3, <3>1, <4>1, <4>2
    <3>2. CASE j # i
      BY <1>5, <2>1, <2>2, <3>2 DEF IndInv, TypeOK
    <3> QED BY <3>1, <3>2
  <2> QED BY <1>4, <2>1, <2>2 DEF AllDated
<1> QED BY <1>6, <1>7 DEF Next

(* An entry is never from the future, and a file that is older than its    *)
(* entry contains what the entry names: however processes and the user     *)
(* interleave, a file that was changed behind an entry looks newer.        *)
THEOREM EntriesDated ==
    ASSUME PruneAlone
    PROVE  Spec => []AllDated
BY Inductive, InitAllDated, AllDatedStep, PTL DEF Spec

-----------------------------------------------------------------------------
(* restore without --force. *)

LEMMA Whose ==
    ASSUME IndInv, [Next]_vars, NEW i \in Proc, proc'[i] # proc[i]
    PROVE  Starts(i) \/ Works(i) \/ Stop(i)
<1>1. proc' # proc
  OBVIOUS
<1>2. PICK j \in Proc : Starts(j) \/ Works(j) \/ Stop(j)
  BY <1>1 DEF Next, vars, User, UserWrites, UserLinks, UserRemoves, UserMakesDirectory, Tick
<1>3. proc' = [proc EXCEPT ![j] = proc'[j]] /\ proc \in [Proc -> Process]
  BY <1>2, Turns DEF IndInv, TypeOK
<1>4. j = i
  BY <1>3
<1> QED BY <1>2, <1>4

(* A file that restore may write without asking is one that its entry      *)
(* names.                                                                  *)
LEMMA OlderMatches ==
    ASSUME IndInv, AllDated, NEW i \in Proc, NEW p \in Tracked(proc[i].mem), NEW e,
           e = proc[i].mem.files[p], proc[i].at = "restoring", proc[i].opt = "plain",
           TRUE \notin Answers, MayWrite(i, p), ~LockedFile(e), e.type # "directory",
           disk[p].kind = "file"
    PROVE  e.type = "file" /\ Matches(p, e)
<1>1. Older(p, e)
  BY DEF MayWrite, Asks, Exists
<1>2. DatedEntry(e, disk[p], clock)
  BY DEF AllDated, Dated
<1>3. e.type = "file" /\ disk[p].data = e.data
  BY <1>1, <1>2 DEF Older, DatedEntry
<1> QED BY <1>3 DEF Matches, Readable, Contents, Follow

(* A file is written where a link leads, or over one that its entry names. *)
LEMMA WritesQuietly ==
    ASSUME IndInv, AllDated, NEW i \in Proc, NEW p \in Path, Overwrites(i, p),
           TRUE \notin Answers, NEW t \in proc[i].todo, NEW c, MayWrite(i, t),
           CanWrite(t, proc[i].mem.files[t]),
           disk' = Overwritten(t, proc[i].mem.files[t], c)
    PROVE  \E q \in Path : disk[q].kind = "link" /\ disk[q].data = p
<1>1. /\ proc[i].at = "restoring" /\ proc[i].opt = "plain" /\ disk[p].kind = "file"
      /\ disk'[p] # disk[p]
      /\ p \in Tracked(proc[i].mem) =>
            ~proc[i].mem.files[p].locked /\ ~Matches(p, proc[i].mem.files[p])
  BY DEF Overwrites
<1>2. t \in Path /\ t \in Tracked(proc[i].mem) /\ disk \in [Path -> Object]
  BY <1>1, Working DEF OnCourse, Tracked
<1>3. PICK e : e = proc[i].mem.files[t]
  OBVIOUS
<1>4. WithParents(t)[p] = disk[p]
  BY <1>1, <1>2, WithParentsAt DEF Exists
<1>5. p = Follow(t)
  BY <1>1, <1>2, <1>3, <1>4, OverwrittenAt
<1>6. CASE disk[t].kind = "link"
  BY <1>2, <1>5, <1>6 DEF Follow
<1>7. CASE disk[t].kind # "link"
  <2>1. p = t
    BY <1>5, <1>7 DEF Follow
  <2>2. e.type = "file" /\ ~LockedFile(e) /\ ~Matches(p, e)
    BY <1>1, <1>2, <1>3, <2>1 DEF CanWrite, LockedFile
  <2> QED BY <1>1, <1>2, <1>3, <2>1, <2>2, OlderMatches
<1> QED BY <1>6, <1>7

(* Without --force, and if the user never agrees, restore writes over no   *)
(* file whose contents its entry does not name, however the processes and  *)
(* the user interleave and wherever an earlier restore was killed; only a  *)
(* link leads it elsewhere.                                                *)
THEOREM RestoresQuietly ==
    ASSUME PruneAlone, TRUE \notin Answers
    PROVE  Spec => QuietRestore
<1>1. ASSUME IndInv, AllDated, [Next]_vars, NEW i \in Proc, NEW p \in Path, Overwrites(i, p)
      PROVE  \E q \in Path : disk[q].kind = "link" /\ disk[q].data = p
  <2>1. /\ proc[i].at = "restoring" /\ proc[i].opt = "plain" /\ disk[p].kind = "file"
        /\ disk'[p] # disk[p]
        /\ p \in Tracked(proc[i].mem) =>
              ~proc[i].mem.files[p].locked /\ ~Matches(p, proc[i].mem.files[p])
    BY <1>1 DEF Overwrites
  <2>2. Starts(i) \/ Works(i) \/ Stop(i)
    BY <1>1, Whose DEF Overwrites
  <2>3. RestoreEntry(i) \/ Tear(i)
    BY <2>1, <2>2 DEF Starts, Add, Checkpoint, Restore, MirrorUp, MirrorDown, Remove, SetLocked,
       SetTargeting, Exclude, Include, Prune, Edit, Begin, Works, AddEntry, CheckpointEntry,
       EndRestore, EndWalk, Drop, EndDrop, Rehash, Replay, WalkDown, Delete, CleanUp, ListBlobs,
       DeleteBlob, EndPrune, Save, Stop
  <2>4. CASE Tear(i)
    <3>1. PICK t \in proc[i].todo :
            /\ MayWrite(i, t)
            /\ \/ \E c \in Content : /\ CanWrite(t, proc[i].mem.files[t])
                                     /\ disk' = Overwritten(t, proc[i].mem.files[t], c)
               \/ /\ proc[i].mem.files[t].type = "link"
                  /\ disk' = [WithParents(t) EXCEPT ![t] = Absent]
      BY <2>1, <2>4 DEF Tear
    <3>2. CASE /\ proc[i].mem.files[t].type = "link"
               /\ disk' = [WithParents(t) EXCEPT ![t] = Absent]
      <4>1. t \in Path /\ t \in Tracked(proc[i].mem)
        BY <1>1, <2>1, Working DEF OnCourse, Tracked
      <4>2. WithParents(t)[p] = disk[p]
        BY <2>1, <4>1, WithParentsAt DEF Exists
      <4>3. p = t
        BY <2>1, <3>2, <4>1, <4>2 DEF WithParents
      <4>4. proc[i].mem.files[t].type = "link" /\ ~LockedFile(proc[i].mem.files[t])
        BY <3>2 DEF LockedFile
      <4> QED BY <1>1, <2>1, <3>1, <4>1, <4>3, <4>4, OlderMatches
    <3> QED BY <1>1, <3>1, <3>2, WritesQuietly
  <2>5. CASE RestoreEntry(i)
    <3>1. PICK t \in proc[i].todo :
            /\ MayWrite(i, t)
            /\ \/ Install(t, proc[i].mem.files[t])
               \/ /\ proc[i].mem.files[t].type = "directory"
                  /\ disk' = [WithParents(t) EXCEPT ![t] =
                                IF Exists(t) THEN @ ELSE Directory(proc[i].mem.files[t].mode)]
      BY <2>1, <2>5 DEF RestoreEntry
    <3>2. t \in Path /\ t \in Tracked(proc[i].mem)
      BY <1>1, <2>1, Working DEF OnCourse, Tracked
    <3>3. WithParents(t)[p] = disk[p]
      BY <2>1, <3>2, WithParentsAt DEF Exists
    <3>4. CASE CanWrite(t, proc[i].mem.files[t])
               /\ disk' = Overwritten(t, proc[i].mem.files[t], proc[i].mem.files[t].data)
      BY <1>1, <3>1, <3>4, WritesQuietly
    <3>5. CASE /\ proc[i].mem.files[t].type = "link"
               /\ disk' = [WithParents(t) EXCEPT ![t] =
                             [kind |-> "link", data |-> proc[i].mem.files[t].data,
                              mtime |-> clock, mode |-> proc[i].mem.files[t].mode]]
      <4>1. p = t
        BY <2>1, <3>2, <3>3, <3>5 DEF WithParents
      <4>2. proc[i].mem.files[t].type = "link" /\ ~LockedFile(proc[i].mem.files[t])
        BY <3>5 DEF LockedFile
      <4> QED BY <1>1, <2>1, <3>1, <3>2, <4>1, <4>2, OlderMatches
    <3>6. CASE disk' = [WithParents(t) EXCEPT ![t] =
                          IF Exists(t) THEN @ ELSE Directory(proc[i].mem.files[t].mode)]
      <4>1. disk'[p] = WithParents(t)[p]
        BY <2>1, <3>2, <3>6 DEF WithParents, Exists
      <4> QED BY <2>1, <3>3, <4>1
    <3> QED BY <3>1, <3>4, <3>5, <3>6 DEF Install
  <2> QED BY <2>3, <2>4, <2>5
<1>2. IndInv /\ AllDated /\ [Next]_vars =>
        [\A i \in Proc, p \in Path :
            Overwrites(i, p) => \E q \in Path : disk[q].kind = "link" /\ disk[q].data = p]_vars
  BY <1>1
<1>3. Init /\ IndInv => AllDated
  BY InitAllDated
<1> QED BY <1>2, <1>3, AllDatedStep, Inductive, PTL DEF Spec, QuietRestore

-----------------------------------------------------------------------------
(* What a command has to do with manifest.yaml while it works alone. *)

InPhase(q) ==
    /\ q.cmd = "add" <=> q.at = "adding"
    /\ q.cmd = "checkpoint" <=> q.at = "checkpointing"
    /\ q.cmd = "restore" <=> q.at = "restoring"
    /\ q.cmd = "mirror up" <=> q.at \in {"walking", "dropping", "rehashing"}
    /\ q.cmd = "mirror down" <=> q.at \in {"replaying", "deleting"}

KeepsLocked(m, n) ==
    \A p \in Tracked(m) \cap Tracked(n) :
        m.files[p].locked /\ n.files[p].locked => n.files[p].data = m.files[p].data

(* A command that writes to the home directory leaves the manifest as it   *)
(* is; one that adds to it finds only what no exclusion covers; only       *)
(* mirror up takes what is on disk for a locked entry.                     *)
Faithful(q, m) ==
    /\ q.at \in {"restoring", "replaying", "deleting"} => q.mem = m
    /\ q.at = "deleting" => \A p \in q.todo : ~Excluded(m, p)
    /\ q.at \in {"adding", "walking"} => \A p \in q.todo : Excluded(m, p) => p = q.arg
    /\ q.at \in {"adding", "walking", "dropping", "rehashing"} =>
          /\ q.mem.exclude = m.exclude
          /\ \A p \in Tracked(q.mem) \ Tracked(m) : Excluded(m, p) => p = q.arg
    /\ q.at = "adding" => Tracked(m) \subseteq Tracked(q.mem)
    /\ q.at \in {"adding", "checkpointing", "editing"} => KeepsLocked(m, q.mem)
    /\ q.at \in {"walking", "dropping", "rehashing"} => "mirror up" \in Commands

Course == \A i \in Proc : InPhase(proc[i]) /\ Faithful(proc[i], manifest)

LEMMA BeginsOnCourse ==
    ASSUME NEW q, Begun(q), q.cmd \in Commands
    PROVE  InPhase(q) /\ Faithful(q, manifest)
<1>1. InPhase(q)
  BY DEF Begun, InPhase
<1>2. \A p \in Path : \A x \in Walk(p, manifest) : ~Excluded(manifest, x)
  BY WalkAvoids
<1>3. KeepsLocked(manifest, manifest) /\ (Edited(manifest, q.mem) => KeepsLocked(manifest, q.mem))
  BY DEF KeepsLocked, Edited
<1>4. Faithful(q, manifest)
  BY <1>2, <1>3 DEF Begun, Faithful
<1> QED BY <1>1, <1>4

LEMMA EndsOnCourse ==
    ASSUME NEW m PROVE InPhase(Idle) /\ Faithful(Idle, m)
BY DEF InPhase, Faithful, Idle

LEMMA RecordsOnCourse ==
    ASSUME IndInv, NEW i \in Proc, Recording(i),
           InPhase(proc[i]), Faithful(proc[i], manifest)
    PROVE  InPhase(proc'[i]) /\ Faithful(proc'[i], manifest)
<1>1. CASE AddEntry(i)
  <2>1. proc[i].at \in {"adding", "walking"} /\ Same(proc[i], proc'[i])
    BY <1>1, AddEntryIs DEF AddEntry
  <2>2. PICK p \in proc[i].todo :
          /\ p \in Path /\ proc'[i].todo = proc[i].todo \ {p}
          /\ \/ proc'[i].mem = proc[i].mem
             \/ \E e : p \notin Tracked(proc[i].mem) /\ Recorded(proc[i].mem, proc'[i].mem, p, e)
    BY <1>1, AddEntryIs
  <2>3. InPhase(proc'[i])
    BY <2>1 DEF Same, InPhase
  <2>4. CASE proc'[i].mem = proc[i].mem
    BY <2>1, <2>2, <2>3, <2>4 DEF Same, Faithful
  <2>5. ASSUME NEW e, p \notin Tracked(proc[i].mem), Recorded(proc[i].mem, proc'[i].mem, p, e)
        PROVE  Faithful(proc'[i], manifest)
    <3>1. PICK q, r : q = proc[i] /\ r = proc'[i]
      OBVIOUS
    <3>2. /\ r.mem.exclude = q.mem.exclude /\ Tracked(r.mem) \subseteq Tracked(q.mem) \cup {p}
          /\ Tracked(q.mem) \subseteq Tracked(r.mem)
          /\ \A x \in Tracked(q.mem) : r.mem.files[x] = q.mem.files[x]
      BY <2>2, <2>5, <3>1 DEF Recorded, Tracked
    <3>3. /\ q.at \in {"adding", "walking"} /\ Same(q, r) /\ p \in q.todo /\ r.todo \subseteq q.todo
          /\ p \notin Tracked(q.mem)
      BY <2>1, <2>2, <2>5, <3>1
    <3>4. Faithful(q, manifest)
      BY <3>1
    <3>5. q.at = "adding" => KeepsLocked(manifest, r.mem)
      BY <3>2, <3>3, <3>4 DEF Faithful, KeepsLocked
    <3>6. \A x \in Tracked(r.mem) \ Tracked(manifest) : Excluded(manifest, x) => x = q.arg
      BY <3>2, <3>3, <3>4 DEF Faithful
    <3>7. Faithful(r, manifest)
      BY <3>2, <3>3, <3>4, <3>5, <3>6 DEF Faithful, Same
    <3> QED BY <3>1, <3>7
  <2> QED BY <2>2, <2>3, <2>4, <2>5
<1>2. CASE CheckpointEntry(i)
  <2>1. proc[i].at = "checkpointing" /\ Same(proc[i], proc'[i])
    BY <1>2, CheckpointEntryIs DEF CheckpointEntry
  <2>2. PICK p \in proc[i].todo :
          /\ p \in Tracked(proc[i].mem)
          /\ \/ proc'[i].mem = proc[i].mem
             \/ \E e : /\ Recorded(proc[i].mem, proc'[i].mem, p, e)
                       /\ Taken(proc[i].mem.files[p], e, p, proc[i].now)
    BY <1>2, CheckpointEntryIs
  <2>3. ASSUME NEW e, Recorded(proc[i].mem, proc'[i].mem, p, e),
               Taken(proc[i].mem.files[p], e, p, proc[i].now)
        PROVE  KeepsLocked(manifest, proc'[i].mem)
    <3>1. PICK old, n, m : /\ old = proc[i].mem.files[p] /\ n = proc'[i].mem /\ m = proc[i].mem
      OBVIOUS
    <3>2. e.locked = old.locked /\ (e.locked => e.data = old.data)
      BY <2>3, <3>1 DEF Taken, Renewed, OnlyMode
    <3>3. KeepsLocked(manifest, m) /\ p \in Tracked(m)
      BY <2>1, <2>2, <3>1 DEF Faithful
    <3>4. n.files[p] = e /\ \A x \in Path \ {p} : n.files[x] = m.files[x]
      BY <2>3, <3>1 DEF Recorded
    <3>5. KeepsLocked(manifest, n)
      <4> SUFFICES ASSUME NEW x \in Tracked(manifest) \cap Tracked(n),
                          manifest.files[x].locked, n.files[x].locked
                   PROVE  n.files[x].data = manifest.files[x].data
        BY DEF KeepsLocked
      <4>1. CASE x = p
        BY <3>1, <3>2, <3>3, <3>4, <4>1 DEF KeepsLocked
      <4>2. CASE x # p
        BY <3>3, <3>4, <4>2 DEF KeepsLocked, Tracked
      <4> QED BY <4>1, <4>2
    <3> QED BY <3>1, <3>5
  <2>4. KeepsLocked(manifest, proc'[i].mem)
    BY <2>1, <2>2, <2>3 DEF Faithful
  <2> QED BY <2>1, <2>4 DEF Same, InPhase, Faithful
<1>3. CASE Rehash(i)
  <2>1. proc[i].at = "rehashing" /\ Same(proc[i], proc'[i])
    BY <1>3, RehashIs DEF Rehash
  <2>2. PICK p, e : /\ p \in TrackedFiles(proc[i].mem)
                    /\ Recorded(proc[i].mem, proc'[i].mem, p, e)
    BY <1>3, RehashIs
  <2>3. /\ proc'[i].mem.exclude = proc[i].mem.exclude
        /\ Tracked(proc'[i].mem) \subseteq Tracked(proc[i].mem)
    BY <2>2 DEF Recorded, TrackedFiles, Tracked
  <2> QED BY <2>1, <2>3 DEF Same, InPhase, Faithful
<1> QED BY <1>1, <1>2, <1>3 DEF Recording

LEMMA InitCourse == Init => Course
BY EndsOnCourse DEF Init, Course

LEMMA CourseStep ==
    ASSUME Alone
    PROVE  IndInv /\ Course /\ [Next]_vars => Course'
<1> SUFFICES ASSUME IndInv, Course, [Next]_vars PROVE Course'
  OBVIOUS
<1>1. CASE User \/ Tick \/ UNCHANGED vars
  BY <1>1 DEF Course, User, UserWrites, UserLinks, UserRemoves, UserMakesDirectory, Tick, vars
<1>2. ASSUME NEW i \in Proc, Starts(i) \/ Works(i) \/ Stop(i)
      PROVE  InPhase(proc'[i]) /\ Faithful(proc'[i], manifest')
  <2>0. InPhase(proc[i]) /\ Faithful(proc[i], manifest)
    BY DEF Course
  <2>1. CASE Starts(i)
    BY <2>1, StartIs, BeginsOnCourse
  <2>2. CASE proc'[i] = Idle
    BY <2>2, EndsOnCourse
  <2>3. CASE proc'[i] # Idle /\ ~Starts(i)
    <3>1. manifest' = manifest
      BY <1>2, <2>3, Turns
    <3>2. CASE Recording(i)
      BY <2>0, <3>1, <3>2, RecordsOnCourse
    <3>3. CASE Drop(i)
      <4>1. /\ proc[i].at = "dropping" /\ Same(proc[i], proc'[i])
            /\ proc'[i].mem.exclude = proc[i].mem.exclude
            /\ Tracked(proc'[i].mem) \subseteq Tracked(proc[i].mem)
        BY <3>3, DropIs DEF Recorded, Tracked
      <4> QED BY <2>0, <3>1, <4>1 DEF Same, InPhase, Faithful
    <3>4. CASE WalkDown(i)
      <4>1. /\ proc[i].at = "replaying" /\ proc'[i].at = "deleting"
            /\ proc'[i].cmd = proc[i].cmd /\ proc'[i].mem = proc[i].mem
            /\ proc'[i].todo = Untracked(proc[i].arg, proc[i].mem)
        BY <3>4, WalkDownIs
      <4>2. proc[i].mem = manifest
        BY <2>0, <4>1 DEF Faithful
      <4>3. \A p \in proc'[i].todo : ~Excluded(manifest, p)
        BY <4>1, <4>2 DEF Untracked, Walk
      <4> QED BY <2>0, <3>1, <4>1, <4>2, <4>3 DEF InPhase, Faithful
    <3>5. CASE ListBlobs(i)
      BY <2>0, <3>1, <3>5, ListBlobsIs DEF InPhase, Faithful
    <3>6. CASE EndWalk(i) \/ EndDrop(i)
      <4>1. /\ proc[i].at \in {"walking", "dropping"} /\ proc'[i].at \in {"dropping", "rehashing"}
            /\ proc'[i].cmd = proc[i].cmd /\ proc'[i].arg = proc[i].arg
            /\ proc'[i].mem = proc[i].mem
        BY <3>6, EndWalkIs, EndDropIs
      <4> QED BY <2>0, <3>1, <4>1 DEF InPhase, Faithful
    <3>7. CASE /\ ~Recording(i) /\ ~Drop(i) /\ ~WalkDown(i) /\ ~ListBlobs(i)
               /\ ~EndWalk(i) /\ ~EndDrop(i)
      <4>1. /\ proc[i].at \in {"restoring", "replaying", "deleting", "pruning"}
            /\ Same(proc[i], proc'[i]) /\ proc'[i].mem = proc[i].mem
            /\ proc'[i].todo \subseteq proc[i].todo
        BY <1>2, <2>3, <3>7, Turns
      <4> QED BY <2>0, <3>1, <4>1 DEF Same, InPhase, Faithful
    <3> QED BY <3>2, <3>3, <3>4, <3>5, <3>6, <3>7
  <2> QED BY <2>1, <2>2, <2>3
<1>3. ASSUME NEW i \in Proc, Starts(i) \/ Works(i) \/ Stop(i) PROVE Course'
  BY <1>2, <1>3 DEF Alone, Course
<1> QED BY <1>1, <1>3 DEF Next

-----------------------------------------------------------------------------
(* Locks and exclusions. *)

LEMMA WorksOnCourse ==
    ASSUME Alone
    PROVE  Spec => [](IndInv /\ Course)
<1>1. Alone => PruneAlone
  BY DEF Alone, PruneAlone
<1> QED BY <1>1, Inductive, InitCourse, CourseStep, PTL DEF Spec

(* Only mirror up replaces the contents of a locked entry by what it finds *)
(* on disk: add, checkpoint, and the commands that edit, do not.           *)
THEOREM LocksKept ==
    ASSUME Alone, "mirror up" \notin Commands
    PROVE  Spec => LockedKept
<1>1. ASSUME IndInv, Course, [Next]_vars PROVE KeepsLocked(manifest, manifest')
  <2>1. CASE manifest' = manifest
    BY <2>1 DEF KeepsLocked
  <2>2. CASE manifest' # manifest
    <3>1. PICK i \in Proc : Starts(i) \/ Works(i) \/ Stop(i)
      BY <1>1, <2>2 DEF Next, vars, User, UserWrites, UserLinks, UserRemoves, UserMakesDirectory, Tick
    <3>2. /\ proc[i].at \in {"adding", "checkpointing", "rehashing", "editing"}
          /\ manifest' = proc[i].mem
      BY <1>1, <2>2, <3>1, Turns
    <3> QED BY <1>1, <3>2 DEF Course, Faithful
  <2> QED BY <2>1, <2>2
<1>2. IndInv /\ Course /\ [Next]_vars =>
        [\A p \in Tracked(manifest) \cap Tracked(manifest') :
            manifest.files[p].locked /\ manifest'.files[p].locked =>
                manifest'.files[p].data = manifest.files[p].data]_vars
  BY <1>1 DEF KeepsLocked
<1> QED BY <1>2, WorksOnCourse, PTL DEF Spec, LockedKept

(* What add and mirror up find by themselves in a directory is tracked     *)
(* only if no exclusion covers it; only the path add is given may be.      *)
THEOREM ExclusionsHold ==
    ASSUME Alone
    PROVE  Spec => ExclusionHolds
<1>1. ASSUME Course, NEW i \in Proc, Ends(i, "add") \/ Ends(i, "mirror up"),
             NEW p \in Tracked(manifest') \ Tracked(manifest), Excluded(manifest', p)
      PROVE  p = proc[i].arg
  <2>1. InPhase(proc[i]) /\ Faithful(proc[i], manifest)
    BY <1>1 DEF Course
  <2>2. proc[i].at \in {"adding", "rehashing"} /\ manifest' = proc[i].mem
    BY <1>1, <2>1 DEF Ends, InPhase
  <2>3. Excluded(manifest, p)
    BY <1>1, <2>1, <2>2 DEF Faithful, Excluded
  <2> QED BY <1>1, <2>1, <2>2, <2>3 DEF Faithful
<1>2. Course =>
        [\A i \in Proc : Ends(i, "add") \/ Ends(i, "mirror up") =>
            \A p \in Tracked(manifest') \ Tracked(manifest) :
                Excluded(manifest', p) => p = proc[i].arg]_vars
  BY <1>1
<1> QED BY <1>2, WorksOnCourse, PTL DEF Spec, ExclusionHolds

(* mirror down deletes no file that an exclusion covers.                   *)
THEOREM ExcludedStays ==
    ASSUME Alone
    PROVE  Spec => ExcludedKept
<1>1. ASSUME IndInv, Course, [Next]_vars, NEW i \in Proc, NEW p \in Path,
             proc[i].at = "deleting", proc' # proc, Leaf(p), Excluded(manifest, p)
      PROVE  disk'[p] = disk[p]
  <2>1. PICK j \in Proc : Starts(j) \/ Works(j) \/ Stop(j)
    BY <1>1 DEF Next, vars, User, UserWrites, UserLinks, UserRemoves, UserMakesDirectory, Tick
  <2>2. Starts(i) \/ Works(i) \/ Stop(i)
    BY <2>1 DEF Alone
  <2>3. Delete(i) \/ CleanUp(i) \/ Stop(i)
    BY <1>1, <2>2 DEF Starts, Add, Checkpoint, Restore, MirrorUp, MirrorDown, Remove, SetLocked,
       SetTargeting, Exclude, Include, Prune, Edit, Begin, Works, AddEntry, CheckpointEntry,
       RestoreEntry, EndRestore, EndWalk, Drop, EndDrop, Rehash, Replay, WalkDown, Tear, ListBlobs,
       DeleteBlob, EndPrune, Save, Stop
  <2>4. CASE Delete(i)
    <3>1. PICK q \in proc[i].todo : disk' = [disk EXCEPT ![q] = Absent] \/ disk' = disk
      BY <2>4 DEF Delete
    <3>2. ~Excluded(manifest, q)
      BY <1>1 DEF Course, Faithful
    <3>3. disk \in [Path -> Object]
      BY <1>1 DEF IndInv, TypeOK
    <3> QED BY <1>1, <3>1, <3>2, <3>3
  <2>5. CASE CleanUp(i)
    <3>1. PICK empty : /\ disk' = [q \in Path |-> IF q \in empty THEN Absent ELSE disk[q]]
                       /\ \A q \in empty : ~Leaf(q)
      BY <2>5 DEF CleanUp
    <3> QED BY <1>1, <3>1
  <2>6. CASE Stop(i)
    BY <2>6 DEF Stop
  <2> QED BY <2>3, <2>4, <2>5, <2>6
<1>2. IndInv /\ Course /\ [Next]_vars =>
        [\A i \in Proc, p \in Path :
            /\ proc[i].at = "deleting" /\ proc' # proc /\ Leaf(p)
            /\ Excluded(manifest, p)
            => disk'[p] = disk[p]]_vars
  BY <1>1
<1> QED BY <1>2, WorksOnCourse, PTL DEF Spec, ExcludedKept

-----------------------------------------------------------------------------
(* What a command that nobody disturbs achieves.                           *)

(* A link leads what is written and read elsewhere; the theorems below are *)
(* about a home directory of files and directories.                        *)
Undisturbed == Alone /\ Patient /\ Targets = {}

LEMMA NoLinks ==
    ASSUME IndInv, Targets = {}, NEW p \in Path
    PROVE  disk[p].kind \in {"none", "file", "directory"} /\ Follow(p) = p
<1>1. disk[p] \in Object
  BY DEF IndInv, TypeOK
<1>2. disk[p].kind # "link"
  BY <1>1, ObjectParts
<1> QED BY <1>1, <1>2, ObjectParts DEF Kind, Follow

LEMMA NoLinkEntries ==
    ASSUME Targets = {}, NEW m \in Manifest, NEW p \in Tracked(m)
    PROVE  p \in Path /\ m.files[p] \in Entry /\ m.files[p].type \in {"file", "directory"}
<1>1. p \in Path /\ m.files[p] \in Entry
  BY DEF Tracked, Manifest
<1> QED BY <1>1, EntryParts DEF Kind

(* Status finds nothing to report of the entry e where o is on disk. *)
Shows(o, e) == o.kind # "none" /\ (e.type = "file" => o.kind = "file" /\ o.data = e.data)

LEMMA ShowsIsOk ==
    ASSUME IndInv, Targets = {}, NEW p \in Path, NEW e, e.type \in {"file", "directory"},
           Shows(disk[p], e)
    PROVE  State(p, e) = "ok"
BY NoLinks DEF Shows, State, Exists, Matches, Readable, Contents

(* What a command that is at work has before it is what it left. *)
LEMMA NobodyElse ==
    ASSUME Alone, Patient, IndInv, [Next]_vars, NEW i \in Proc, proc[i].at # "idle"
    PROVE  \/ Works(i) \/ Stop(i)
           \/ UNCHANGED <<disk, manifest, proc>>
<1>1. ~Quiet
  BY DEF Quiet
<1>2. ~User
  BY <1>1 DEF User, UserWrites, UserLinks, UserRemoves, UserMakesDirectory
<1>3. ASSUME NEW j \in Proc, Starts(j) \/ Works(j) \/ Stop(j) PROVE Works(i) \/ Stop(i)
  <2>1. j = i
    BY DEF Alone
  <2> QED BY <1>3, <2>1, StartIs
<1> QED BY <1>2, <1>3 DEF Next, Tick, vars

(* What is written for an entry shows it, and what was there before and is *)
(* not written stays.                                                      *)
LEMMA InstallShows ==
    ASSUME IndInv, Targets = {}, NEW p \in Path, NEW e \in Entry, Install(p, e)
    PROVE  /\ Shows(disk'[p], e)
           /\ \A x \in Path \ {p} : disk[x].kind # "none" => disk'[x] = disk[x]
<1>1. disk \in [Path -> Object] /\ e.type \in {"file", "directory"} /\ Follow(p) = p
  BY EntryParts, NoLinks DEF IndInv, TypeOK, Kind
<1>2. disk' = Overwritten(p, e, e.data) /\ e.type = "file"
  <2>1. e.type # "link"
    BY EntryParts
  <2> QED BY <2>1 DEF Install, CanWrite
<1>3. \A x \in Path \ {p} : disk'[x] = WithParents(p)[x]
  BY <1>1, <1>2, OverwrittenAt
<1>4. disk'[p].kind = "file" /\ disk'[p].data = e.data
  BY <1>1, <1>2, OverwrittenAt
<1> QED BY <1>3, <1>4, WithParentsAt DEF Shows, Exists

LEMMA ParentsShow ==
    ASSUME IndInv, NEW p \in Path
    PROVE  /\ WithParents(p)[p] = disk[p]
           /\ \A x \in Path : disk[x].kind # "none" => WithParents(p)[x] = disk[x]
BY BelowAssumption DEF WithParents, Exists

-----------------------------------------------------------------------------
(* checkpoint, and restore --force. *)

(* What is on disk is what the entry e of p says, where a link may lead    *)
(* the reader of a file elsewhere.                                         *)
Led(on, p) == IF on[p].kind = "link" THEN on[p].data ELSE p

Says(on, p, e) ==
    /\ e.type = "file" => on[Led(on, p)].kind = "file" /\ on[Led(on, p)].data = e.data
    /\ e.type = "link" => on[p].kind = "link" /\ on[p].data = e.data

(* What checkpoint has visited is recorded, unless it is locked or gone.   *)
Checked(q, on) ==
    q.at = "checkpointing" =>
        \A p \in Applying(q.mem) \ q.todo :
            on[p].kind # "none" => Says(on, p, q.mem.files[p]) \/ q.mem.files[p].locked

AllChecked == \A i \in Proc : Checked(proc[i], disk)

LEMMA CheckpointEntryChecks ==
    ASSUME IndInv, NEW i \in Proc, Checked(proc[i], disk), CheckpointEntry(i)
    PROVE  Checked(proc'[i], disk')
<1>1. /\ proc[i].at = "checkpointing" /\ proc'[i].at = "checkpointing" /\ disk' = disk
      /\ proc[i].mem \in Manifest
  BY CheckpointEntryIs, Working DEF CheckpointEntry, Same
<1>2. PICK p \in proc[i].todo :
        /\ p \in Tracked(proc[i].mem) /\ proc'[i].todo = proc[i].todo \ {p}
        /\ \/ ~Exists(p) /\ proc'[i].mem = proc[i].mem
           \/ \E e : /\ Exists(p) /\ Recorded(proc[i].mem, proc'[i].mem, p, e)
                     /\ Taken(proc[i].mem.files[p], e, p, proc[i].now)
  BY CheckpointEntryIs
<1>3. PICK m, n, old : m = proc[i].mem /\ n = proc'[i].mem /\ old = m.files[p]
  OBVIOUS
<1>4. \A x \in Applying(m) \ proc[i].todo :
        disk[x].kind # "none" => Says(disk, x, m.files[x]) \/ m.files[x].locked
  BY <1>1, <1>3 DEF Checked
<1>5. CASE ~Exists(p) /\ n = m
  BY <1>1, <1>2, <1>3, <1>4, <1>5 DEF Checked, Exists
<1>6. ASSUME NEW e, Exists(p), Recorded(m, n, p, e), Taken(old, e, p, proc[i].now)
      PROVE  Checked(proc'[i], disk')
  <2>1. e.type = old.type /\ e.locked = old.locked
    BY <1>6 DEF Taken, Renewed
  <2>2. Says(disk, p, e) \/ e.locked
    <3>1. CASE OnlyMode(old)
      BY <2>1, <3>1 DEF OnlyMode, Says
    <3>2. CASE ~OnlyMode(old)
      BY <1>6, <2>1, <3>2 DEF Taken, Renewed, Readable, Contents, Follow, Says, Led
    <3> QED BY <3>1, <3>2
  <2>3. n.files[p] = e /\ \A x \in Path \ {p} : n.files[x] = m.files[x]
    BY <1>6 DEF Recorded
  <2>4. ASSUME NEW x \in Applying(n) \ proc'[i].todo
        PROVE  disk[x].kind # "none" => Says(disk, x, n.files[x]) \/ n.files[x].locked
    <3>1. CASE x = p
      BY <2>2, <2>3, <3>1
    <3>2. CASE x # p
      <4>1. n.files[x] = m.files[x] /\ x \in Applying(m) \ proc[i].todo
        BY <1>2, <2>3, <2>4, <3>2 DEF Applying, Tracked
      <4> QED BY <1>4, <4>1
    <3> QED BY <3>1, <3>2
  <2> QED BY <1>1, <1>3, <2>4 DEF Checked
<1> QED BY <1>2, <1>3, <1>5, <1>6

LEMMA BeginsChecked ==
    ASSUME NEW q, Begun(q)
    PROVE  Checked(q, disk)
BY DEF Begun, Checked

LEMMA InitAllChecked == Init => AllChecked
BY DEF Init, Idle, AllChecked, Checked

(* The steps of other commands leave checkpoint and restore out. *)
LEMMA ElsewhereAfter ==
    ASSUME IndInv, NEW i \in Proc,
           \/ AddEntry(i) \/ Rehash(i) \/ EndWalk(i) \/ Drop(i) \/ EndDrop(i)
           \/ WalkDown(i) \/ ListBlobs(i)
    PROVE  proc'[i].at \in {"adding", "walking", "dropping", "rehashing", "deleting", "pruning"}
<1>1. CASE AddEntry(i)
  BY <1>1, AddEntryIs DEF AddEntry, Same
<1>2. CASE Rehash(i)
  BY <1>2, RehashIs DEF Rehash, Same
<1>3. CASE Drop(i)
  BY <1>3, DropIs DEF Same
<1>4. CASE EndWalk(i) \/ EndDrop(i) \/ WalkDown(i) \/ ListBlobs(i)
  BY <1>4, EndWalkIs, EndDropIs, WalkDownIs, ListBlobsIs
<1> QED BY <1>1, <1>2, <1>3, <1>4

LEMMA AllCheckedStep ==
    ASSUME Alone, Patient
    PROVE  IndInv /\ AllChecked /\ [Next]_vars => AllChecked'
<1> SUFFICES ASSUME IndInv, AllChecked, [Next]_vars, NEW i \in Proc
             PROVE  Checked(proc'[i], disk')
  BY DEF AllChecked
<1>1. Checked(proc[i], disk)
  BY DEF AllChecked
<1>2. CASE Starts(i)
  BY <1>2, StartIs, BeginsChecked
<1>3. CASE (Works(i) \/ Stop(i)) /\ ~Starts(i)
  <2>1. CASE CheckpointEntry(i)
    BY <1>1, <2>1, CheckpointEntryChecks
  <2>2. CASE \/ AddEntry(i) \/ Rehash(i) \/ EndWalk(i) \/ Drop(i) \/ EndDrop(i)
             \/ WalkDown(i) \/ ListBlobs(i)
    <3>1. proc'[i].at \in {"adding", "walking", "dropping", "rehashing", "deleting", "pruning"}
      BY <2>2, ElsewhereAfter
    <3> QED BY <3>1 DEF Checked
  <2>3. CASE RestoreEntry(i) \/ Replay(i) \/ Delete(i) \/ DeleteBlob(i)
    <3>1. proc'[i].at \in {"restoring", "replaying", "deleting", "pruning"}
      BY <2>3, StepIs DEF RestoreEntry, Replay, Delete, DeleteBlob, Same
    <3> QED BY <3>1 DEF Checked
  <2>4. CASE Save(i) \/ EndRestore(i) \/ EndPrune(i) \/ Stop(i) \/ CleanUp(i) \/ Tear(i)
    <3>1. proc'[i] = Idle
      BY <2>4, FinishIs DEF Save, EndRestore, EndPrune, Stop, CleanUp, Tear
    <3> QED BY <3>1 DEF Checked, Idle
  <2> QED BY <1>3, <2>1, <2>2, <2>3, <2>4 DEF Works
<1>4. CASE ~Starts(i) /\ ~Works(i) /\ ~Stop(i)
  <2>1. CASE proc[i].at = "idle"
    <3>1. proc'[i] = proc[i]
      BY <1>4, Whose
    <3> QED BY <2>1, <3>1 DEF Checked
  <2>2. CASE proc[i].at # "idle"
    BY <1>1, <1>4, <2>2, NobodyElse
  <2> QED BY <2>1, <2>2
<1> QED BY <1>2, <1>3, <1>4

(* restore --force of everything has what it visited as the entries say.   *)
Settled(q, on) ==
    q.at = "restoring" /\ q.opt = "force" /\ q.arg = None =>
        \A p \in Applying(q.mem) \ q.todo : Shows(on[p], q.mem.files[p])

AllSettled == \A i \in Proc : Settled(proc[i], disk)

(* What restore --force does with an entry.                                *)
LEMMA RestoreEntryShows ==
    ASSUME Targets = {}, IndInv, NEW i \in Proc, RestoreEntry(i), proc[i].opt = "force"
    PROVE  \E p \in proc[i].todo :
              /\ proc'[i].todo = proc[i].todo \ {p}
              /\ Shows(disk'[p], proc[i].mem.files[p])
              /\ \A x \in Path \ {p} : disk[x].kind # "none" => disk'[x] = disk[x]
<1>1. proc[i].at = "restoring" /\ proc[i].mem \in Manifest /\ disk \in [Path -> Object]
  BY Working DEF RestoreEntry
<1>2. PICK p \in proc[i].todo :
        /\ \/ MaySkip(i, p) /\ disk' = disk
           \/ MayWrite(i, p) /\ Install(p, proc[i].mem.files[p])
           \/ /\ MayWrite(i, p) /\ proc[i].mem.files[p].type = "directory"
              /\ disk' = [WithParents(p) EXCEPT ![p] =
                            IF Exists(p) THEN @ ELSE Directory(proc[i].mem.files[p].mode)]
        /\ Step(i, p, proc[i].mem)
  BY DEF RestoreEntry
<1>3. PICK e : e = proc[i].mem.files[p]
  OBVIOUS
<1>4. p \in Path /\ e \in Entry /\ Follow(p) = p
  BY <1>1, <1>3, Working, NoLinks DEF OnCourse, Tracked, Manifest
<1>5. proc'[i].todo = proc[i].todo \ {p}
  BY <1>2, StepIs
<1>6. CASE MaySkip(i, p) /\ disk' = disk
  <2>1. LockedFile(e) /\ Matches(p, e)
    BY <1>3, <1>6 DEF MaySkip, Asks
  <2>2. Shows(disk[p], e)
    BY <1>4, <2>1 DEF LockedFile, Matches, Readable, Contents, Shows
  <2> QED BY <1>3, <1>5, <1>6, <2>2
<1>7. CASE Install(p, e)
  BY <1>3, <1>4, <1>5, <1>7, InstallShows
<1>8. CASE e.type = "directory" /\ disk' = [WithParents(p) EXCEPT ![p] =
                IF Exists(p) THEN @ ELSE Directory(e.mode)]
  <2>1. DOMAIN WithParents(p) = Path
    BY DEF WithParents
  <2>2. PICK before : before = WithParents(p)
    OBVIOUS
  <2>3. \A x \in Path \ {p} : disk'[x] = before[x]
    BY <1>8, <2>1, <2>2
  <2>4. disk'[p] = IF Exists(p) THEN before[p] ELSE Directory(e.mode)
    BY <1>4, <1>8, <2>1, <2>2
  <2>5. disk'[p].kind # "none"
    BY <1>4, <2>2, <2>4, ParentsShow DEF Exists, Directory
  <2> QED BY <1>3, <1>4, <1>5, <1>8, <2>2, <2>3, <2>5, ParentsShow DEF Shows
<1> QED BY <1>2, <1>3, <1>6, <1>7, <1>8

LEMMA RestoreEntrySettles ==
    ASSUME Undisturbed, IndInv, NEW i \in Proc, Settled(proc[i], disk), RestoreEntry(i)
    PROVE  Settled(proc'[i], disk')
<1>1. proc[i].at = "restoring" /\ Same(proc[i], proc'[i]) /\ proc'[i].mem = proc[i].mem
  BY StepIs DEF RestoreEntry
<1>2. CASE proc[i].opt = "force" /\ proc[i].arg = None
  <2>1. PICK p \in proc[i].todo :
              /\ proc'[i].todo = proc[i].todo \ {p}
              /\ Shows(disk'[p], proc[i].mem.files[p])
              /\ \A x \in Path \ {p} : disk[x].kind # "none" => disk'[x] = disk[x]
    BY <1>2, RestoreEntryShows DEF Undisturbed
  <2>2. ASSUME NEW x \in Applying(proc[i].mem) \ proc'[i].todo
        PROVE  Shows(disk'[x], proc[i].mem.files[x])
    <3>1. CASE x = p
      BY <2>1, <3>1
    <3>2. CASE x # p
      <4>1. Shows(disk[x], proc[i].mem.files[x]) /\ x \in Path
        BY <1>1, <1>2, <2>1, <2>2, <3>2 DEF Settled, Applying, Tracked
      <4> QED BY <2>1, <3>2, <4>1 DEF Shows
    <3> QED BY <3>1, <3>2
  <2> QED BY <1>1, <2>2 DEF Settled, Same
<1>3. CASE ~(proc[i].opt = "force" /\ proc[i].arg = None)
  BY <1>1, <1>3 DEF Settled, Same
<1> QED BY <1>2, <1>3

LEMMA BeginsSettled ==
    ASSUME NEW q, Begun(q)
    PROVE  Settled(q, disk)
BY DEF Begun, Settled, Applying

LEMMA InitAllSettled == Init => AllSettled
BY DEF Init, Idle, AllSettled, Settled

LEMMA AllSettledStep ==
    ASSUME Undisturbed
    PROVE  IndInv /\ AllSettled /\ [Next]_vars => AllSettled'
<1> SUFFICES ASSUME IndInv, AllSettled, [Next]_vars, NEW i \in Proc
             PROVE  Settled(proc'[i], disk')
  BY DEF AllSettled
<1>1. Settled(proc[i], disk)
  BY DEF AllSettled
<1>2. CASE Starts(i)
  BY <1>2, StartIs, BeginsSettled
<1>3. CASE (Works(i) \/ Stop(i)) /\ ~Starts(i)
  <2>1. CASE RestoreEntry(i)
    BY <1>1, <2>1, RestoreEntrySettles
  <2>2. CASE \/ CheckpointEntry(i) \/ AddEntry(i) \/ Rehash(i) \/ EndWalk(i) \/ Drop(i)
             \/ EndDrop(i) \/ WalkDown(i) \/ ListBlobs(i)
    <3>1. CheckpointEntry(i) => proc'[i].at = "checkpointing"
      BY CheckpointEntryIs DEF CheckpointEntry, Same
    <3>2. proc'[i].at # "restoring"
      BY <2>2, <3>1, ElsewhereAfter
    <3> QED BY <3>2 DEF Settled
  <2>3. CASE Replay(i) \/ Delete(i) \/ DeleteBlob(i)
    <3>1. proc'[i].at \in {"replaying", "deleting", "pruning"}
      BY <2>3, StepIs DEF Replay, Delete, DeleteBlob, Same
    <3> QED BY <3>1 DEF Settled
  <2>4. CASE Save(i) \/ EndRestore(i) \/ EndPrune(i) \/ Stop(i) \/ CleanUp(i) \/ Tear(i)
    <3>1. proc'[i] = Idle
      BY <2>4, FinishIs DEF Save, EndRestore, EndPrune, Stop, CleanUp, Tear
    <3> QED BY <3>1 DEF Settled, Idle
  <2> QED BY <1>3, <2>1, <2>2, <2>3, <2>4 DEF Works
<1>4. CASE ~Starts(i) /\ ~Works(i) /\ ~Stop(i)
  <2>1. CASE proc[i].at = "idle"
    <3>1. proc'[i] = proc[i]
      BY <1>4, Whose
    <3> QED BY <2>1, <3>1 DEF Settled
  <2>2. CASE proc[i].at # "idle"
    BY <1>1, <1>4, <2>2, NobodyElse DEF Undisturbed
  <2> QED BY <2>1, <2>2
<1> QED BY <1>2, <1>3, <1>4

(* A command that ends without Tear or CleanUp leaves the home directory   *)
(* as it is.                                                               *)
LEMMA EndRests ==
    ASSUME IndInv, [Next]_vars, NEW i \in Proc, proc'[i] = Idle, proc[i].todo = {},
           proc[i].at \notin {"idle", "deleting"}
    PROVE  disk' = disk
<1>1. Works(i) \/ Stop(i)
  <2>1. proc'[i] # proc[i]
    BY DEF Idle
  <2>2. ~Starts(i)
    BY StartIs
  <2> QED BY <2>1, <2>2, Whose
<1>2. ~(RestoreEntry(i) \/ Tear(i) \/ Replay(i) \/ Delete(i) \/ CleanUp(i))
  BY DEF RestoreEntry, Tear, Replay, Delete, CleanUp
<1> QED BY <1>1, <1>2 DEF Works, AddEntry, CheckpointEntry, EndRestore, EndWalk, Drop,
       EndDrop, Rehash, WalkDown, ListBlobs, DeleteBlob, EndPrune, Save, Stop

(* When checkpoint has saved, status finds what it recorded, links or not, *)
(* of all that is there; only what is locked differs.                      *)
THEOREM CheckpointsSettle ==
    ASSUME Alone, Patient
    PROVE  Spec => CheckpointSettles
<1>0. Alone => PruneAlone
  BY DEF Alone, PruneAlone
<1>1. ASSUME IndInv, Course, AllChecked, [Next]_vars, NEW i \in Proc, Ends(i, "checkpoint"),
             NEW p \in ForThisMachine(manifest')
      PROVE  State(p, manifest.files[p])' \in
                {"ok", "missing"} \cup
                (IF manifest'.files[p].locked THEN {"drifted", "modified"} ELSE {})
  <2>1. /\ proc[i].at = "checkpointing" /\ manifest' = proc[i].mem
        /\ proc[i].todo = {} /\ proc'[i] = Idle
    BY <1>1 DEF Ends, Course, InPhase
  <2>2. disk' = disk /\ proc[i].mem \in Manifest
    BY <1>1, <2>1, EndRests, Working
  <2>3. PICK m, e : m = proc[i].mem /\ e = m.files[p]
    OBVIOUS
  <2>4. p \in Applying(m) /\ p \in Tracked(m)
    BY <2>1, <2>3 DEF ForThisMachine, Applying
  <2>5. disk[p].kind # "none" => Says(disk, p, e) \/ e.locked
    BY <1>1, <2>1, <2>3, <2>4 DEF AllChecked, Checked
  <2>6. e.type \in Kind
    BY <2>2, <2>3, <2>4, EntryParts DEF Manifest, Tracked
  <2>7. State(p, e) \in {"ok", "missing"} \cup (IF e.locked THEN {"drifted", "modified"} ELSE {})
    <3>1. CASE disk[p].kind = "none"
      BY <3>1 DEF State, Exists
    <3>2. CASE Says(disk, p, e)
      BY <2>6, <3>2 DEF Says, Led, State, Exists, Matches, Readable, Contents, Follow, Kind
    <3>3. CASE e.locked
      BY <3>3 DEF State
    <3> QED BY <2>5, <3>1, <3>2, <3>3
  <2>8. State(p, manifest.files[p])' = State(p, e)
    BY <2>1, <2>2, <2>3 DEF State, Exists, Matches, Readable, Contents, Follow
  <2> QED BY <2>1, <2>3, <2>7, <2>8
<1>2. IndInv /\ Course /\ AllChecked /\ [Next]_vars =>
        [\A i \in Proc : Ends(i, "checkpoint") =>
            \A p \in ForThisMachine(manifest') :
                State(p, manifest.files[p])' \in
                    {"ok", "missing"} \cup
                    (IF manifest'.files[p].locked THEN {"drifted", "modified"} ELSE {})]_vars
  BY <1>1
<1> QED BY <1>0, <1>2, Inductive, InitCourse, CourseStep, InitAllChecked, AllCheckedStep,
          PTL DEF Spec, CheckpointSettles

(* When restore --force of all has ended, status finds nothing to report,  *)
(* whatever was in the home directory before.                              *)
THEOREM RestoresSettle ==
    ASSUME Undisturbed
    PROVE  Spec => RestoreSettles
<1>0. Alone /\ (Alone => PruneAlone)
  BY DEF Undisturbed, Alone, PruneAlone
<1>1. ASSUME IndInv, Course, AllSettled, NEW i \in Proc, Ends(i, "restore"),
             proc[i].opt = "force", proc[i].arg = None, NEW p \in ForThisMachine(manifest)
      PROVE  State(p, manifest.files[p]) = "ok"
  <2>1. proc[i].at = "restoring" /\ proc[i].mem = manifest /\ proc[i].todo = {}
    BY <1>1 DEF Ends, Course, InPhase, Faithful
  <2>2. p \in Applying(manifest) /\ p \in Tracked(manifest) /\ manifest \in Manifest
    BY <1>1 DEF ForThisMachine, Applying, IndInv, TypeOK
  <2>3. Shows(disk[p], manifest.files[p])
    BY <1>1, <2>1, <2>2 DEF AllSettled, Settled
  <2>4. p \in Path /\ manifest.files[p].type \in {"file", "directory"}
    BY <2>2, NoLinkEntries DEF Undisturbed
  <2> QED BY <1>1, <2>3, <2>4, ShowsIsOk DEF Undisturbed
<1>2. IndInv /\ Course /\ AllSettled =>
        [\A i \in Proc :
            Ends(i, "restore") /\ proc[i].opt = "force" /\ proc[i].arg = None =>
                \A p \in ForThisMachine(manifest) : State(p, manifest.files[p]) = "ok"]_vars
  BY <1>1
<1> QED BY <1>0, <1>2, Inductive, InitCourse, CourseStep, InitAllSettled, AllSettledStep,
          PTL DEF Spec, RestoreSettles

-----------------------------------------------------------------------------
(* Directories, and nothing else, are where there are paths below. *)

Fits(kind, p) ==
    /\ kind = "directory" => Below[p] # {}
    /\ kind \in {"file", "link"} => Below[p] = {}

ShapedOn(on) == \A p \in Path : Fits(on[p].kind, p)

ShapedIn(m) == \A p \in Tracked(m) : Fits(m.files[p].type, p)

Shaped ==
    /\ ShapedOn(disk) /\ ShapedIn(manifest)
    /\ \A i \in Proc : proc[i].at # "idle" => ShapedIn(proc[i].mem)

LEMMA WrittenShaped ==
    ASSUME IndInv, ShapedOn(disk), NEW p \in Path, NEW e, Fits(e.type, p)
    PROVE  /\ ShapedOn(WithParents(p))
           /\ e.type = "file" => \A c : ShapedOn(Overwritten(p, e, c))
           /\ \A o : o.kind = "none" \/ (o.kind = "link" /\ e.type = "link") =>
                     ShapedOn([WithParents(p) EXCEPT ![p] = o])
           /\ Install(p, e) => ShapedOn(disk')
<1>1. disk \in [Path -> Object] /\ DOMAIN WithParents(p) = Path
  BY DEF IndInv, TypeOK, WithParents
<1>2. ShapedOn(WithParents(p))
  BY WithParentsAt DEF ShapedOn, Fits, Directory
<1>3. ASSUME e.type = "file", NEW c PROVE ShapedOn(Overwritten(p, e, c))
  <2>1. Below[Follow(p)] = {}
    <3>1. CASE disk[p].kind = "link"
      <4>1. disk[p] \in Object
        BY <1>1
      <4>2. disk[p].data \in Targets
        BY <3>1, <4>1, ObjectParts
      <4> QED BY <3>1, <4>2, TargetsAssumption DEF Follow
    <3>2. CASE disk[p].kind # "link"
      BY <1>3, <3>2 DEF Follow, Fits
    <3> QED BY <3>1, <3>2
  <2>2. \A q \in Path : \/ Overwritten(p, e, c)[q] = WithParents(p)[q]
                        \/ q = Follow(p) /\ Overwritten(p, e, c)[q].kind = "file"
    BY <1>1, OverwrittenAt
  <2> QED BY <1>2, <2>1, <2>2 DEF ShapedOn, Fits
<1>4. ASSUME NEW o, o.kind = "none" \/ (o.kind = "link" /\ e.type = "link")
      PROVE  ShapedOn([WithParents(p) EXCEPT ![p] = o])
  <2>1. PICK before, then : before = WithParents(p) /\ then = [before EXCEPT ![p] = o]
    OBVIOUS
  <2>2. \A q \in Path : then[q] = before[q] \/ (q = p /\ then[q] = o)
    BY <1>1, <2>1
  <2>3. Fits(o.kind, p)
    BY <1>4 DEF Fits
  <2>4. ShapedOn(then)
    BY <1>2, <2>1, <2>2, <2>3 DEF ShapedOn
  <2> QED BY <2>1, <2>4
<1>5. ASSUME Install(p, e) PROVE ShapedOn(disk')
  <2>1. CASE e.type = "file" /\ disk' = Overwritten(p, e, e.data)
    BY <1>3, <2>1
  <2>2. CASE /\ e.type = "link"
             /\ disk' = [WithParents(p) EXCEPT ![p] =
                  [kind |-> "link", data |-> e.data, mtime |-> clock, mode |-> e.mode]]
    <3>1. PICK o : o = [kind |-> "link", data |-> e.data, mtime |-> clock, mode |-> e.mode]
      OBVIOUS
    <3>2. o.kind = "link" /\ disk' = [WithParents(p) EXCEPT ![p] = o]
      BY <2>2, <3>1
    <3> QED BY <1>4, <2>2, <3>2
  <2> QED BY <1>5, <2>1, <2>2 DEF Install, CanWrite
<1> QED BY <1>2, <1>3, <1>4, <1>5

LEMMA DiskShaped ==
    ASSUME IndInv, Shaped, [Next]_vars
    PROVE  ShapedOn(disk')
<1>1. disk \in [Path -> Object] /\ ShapedOn(disk)
  BY DEF IndInv, TypeOK, Shaped
<1>2. CASE disk' = disk
  BY <1>1, <1>2
<1>3. CASE User
  <2>1. CASE UserWrites
    BY <1>1, <2>1 DEF UserWrites, ShapedOn, Fits
  <2>2. CASE UserLinks
    BY <1>1, <2>2 DEF UserLinks, ShapedOn, Fits
  <2>3. CASE UserRemoves
    BY <1>1, <2>3 DEF UserRemoves, ShapedOn, Fits, Absent
  <2>4. CASE UserMakesDirectory
    BY <1>1, <2>4 DEF UserMakesDirectory, ShapedOn, Fits, Directory
  <2> QED BY <1>3, <2>1, <2>2, <2>3, <2>4 DEF User
<1>4. ASSUME NEW i \in Proc, RestoreEntry(i) PROVE ShapedOn(disk')
  <2>1. PICK p \in proc[i].todo :
        \/ disk' = disk
        \/ Install(p, proc[i].mem.files[p])
        \/ /\ proc[i].mem.files[p].type = "directory"
           /\ disk' = [WithParents(p) EXCEPT ![p] =
                         IF Exists(p) THEN @ ELSE Directory(proc[i].mem.files[p].mode)]
    BY <1>4 DEF RestoreEntry
  <2>2. p \in Path /\ Fits(proc[i].mem.files[p].type, p)
    BY <1>4, Working DEF RestoreEntry, OnCourse, Tracked, Shaped, ShapedIn
  <2>3. CASE /\ proc[i].mem.files[p].type = "directory"
             /\ disk' = [WithParents(p) EXCEPT ![p] =
                           IF Exists(p) THEN @ ELSE Directory(proc[i].mem.files[p].mode)]
    <3>1. Fits("directory", p)
      BY <2>2, <2>3
    <3>2. PICK before : before = WithParents(p)
      OBVIOUS
    <3>3. DOMAIN before = Path
      BY <3>2 DEF WithParents
    <3>4. \A q \in Path : disk'[q] = before[q] \/ (q = p /\ disk'[q].kind = "directory")
      BY <2>2, <2>3, <3>2, <3>3 DEF Directory
    <3>5. ShapedOn(before)
      BY <1>1, <2>2, <3>2, WrittenShaped
    <3> QED BY <3>1, <3>4, <3>5 DEF ShapedOn
  <2> QED BY <1>1, <2>1, <2>2, <2>3, WrittenShaped
<1>5. ASSUME NEW i \in Proc, Replay(i) PROVE ShapedOn(disk')
  <2>1. PICK p \in proc[i].todo : Install(p, proc[i].mem.files[p]) \/ disk' = WithParents(p)
    BY <1>5 DEF Replay
  <2>2. p \in Path /\ Fits(proc[i].mem.files[p].type, p)
    BY <1>5, Working DEF Replay, OnCourse, Tracked, Shaped, ShapedIn
  <2> QED BY <1>1, <2>1, <2>2, WrittenShaped
<1>6. ASSUME NEW i \in Proc, Tear(i) PROVE ShapedOn(disk')
  <2>1. PICK p \in proc[i].todo :
          \/ /\ proc[i].mem.files[p].type = "file"
             /\ \E c \in Content : disk' = Overwritten(p, proc[i].mem.files[p], c)
          \/ disk' = [WithParents(p) EXCEPT ![p] = Absent]
    BY <1>6 DEF Tear, CanWrite
  <2>2. p \in Path /\ Fits(proc[i].mem.files[p].type, p)
    BY <1>6, Working DEF Tear, OnCourse, Tracked, Shaped, ShapedIn
  <2>3. PICK e : e = proc[i].mem.files[p]
    OBVIOUS
  <2>4. Absent.kind = "none"
    BY DEF Absent
  <2> QED BY <1>1, <2>1, <2>2, <2>3, <2>4, WrittenShaped
<1>7. ASSUME NEW i \in Proc, Delete(i) \/ CleanUp(i) PROVE ShapedOn(disk')
  <2>1. CASE Delete(i)
    <3>1. PICK p : disk' = [disk EXCEPT ![p] = Absent] \/ disk' = disk
      BY <2>1 DEF Delete
    <3> QED BY <1>1, <3>1 DEF ShapedOn, Fits, Absent
  <2>2. CASE CleanUp(i)
    <3>1. PICK empty : disk' = [p \in Path |-> IF p \in empty THEN Absent ELSE disk[p]]
      BY <2>2 DEF CleanUp
    <3> QED BY <1>1, <3>1 DEF ShapedOn, Fits, Absent
  <2> QED BY <1>7, <2>1, <2>2
<1>8. ASSUME NEW i \in Proc,
             \/ Starts(i) \/ Stop(i) \/ AddEntry(i) \/ CheckpointEntry(i) \/ EndRestore(i)
             \/ EndWalk(i) \/ Drop(i) \/ EndDrop(i) \/ Rehash(i) \/ WalkDown(i)
             \/ ListBlobs(i) \/ DeleteBlob(i) \/ EndPrune(i) \/ Save(i)
      PROVE  disk' = disk
  <2>1. CASE Starts(i)
    BY <2>1, StartIs
  <2> QED BY <1>8, <2>1 DEF AddEntry, CheckpointEntry, EndRestore, EndWalk, Drop, EndDrop,
             Rehash, WalkDown, ListBlobs, DeleteBlob, EndPrune, Save, Stop
<1> QED BY <1>2, <1>3, <1>4, <1>5, <1>6, <1>7, <1>8 DEF Next, Works, Tick, vars

LEMMA CommandShaped ==
    ASSUME IndInv, Shaped, NEW i \in Proc, Starts(i) \/ Works(i) \/ Stop(i), proc'[i] # Idle
    PROVE  ShapedIn(proc'[i].mem)
<1>1. ShapedOn(disk) /\ ShapedIn(manifest) /\ (proc[i].at # "idle" => ShapedIn(proc[i].mem))
  BY DEF Shaped
<1>2. CASE Starts(i)
  <2>1. proc'[i].mem = manifest \/ Edited(manifest, proc'[i].mem)
    BY <1>2, StartIs DEF Begun
  <2> QED BY <1>1, <2>1 DEF Edited, ShapedIn
<1>3. CASE Recording(i)
  <2>1. proc[i].at # "idle"
    BY <1>3 DEF Recording, AddEntry, CheckpointEntry, Rehash
  <2>2. PICK m, n : m = proc[i].mem /\ n = proc'[i].mem
    OBVIOUS
  <2>3. ASSUME NEW p \in Path, NEW e, Recorded(m, n, p, e), Fits(e.type, p)
        PROVE  ShapedIn(n)
    BY <1>1, <2>1, <2>2, <2>3 DEF Recorded, ShapedIn, Tracked
  <2>4. CASE n = m
    BY <1>1, <2>1, <2>2, <2>4
  <2>5. CASE AddEntry(i) /\ n # m
    <3>1. PICK p : p \in Path /\ Recorded(m, n, p, NewEntry(p, proc[i].opt, proc[i].now))
      BY <2>2, <2>5, AddEntryIs
    <3>2. PICK e : e = NewEntry(p, proc[i].opt, proc[i].now)
      OBVIOUS
    <3>3. Fits(e.type, p)
      BY <1>1, <3>1, <3>2 DEF NewEntry, ShapedOn
    <3> QED BY <2>2, <2>3, <3>1, <3>2, <3>3
  <2>6. CASE CheckpointEntry(i) /\ n # m
    <3>1. PICK p, e : /\ p \in Tracked(m) /\ Recorded(m, n, p, e)
                      /\ Taken(m.files[p], e, p, proc[i].now)
      BY <2>2, <2>6, CheckpointEntryIs
    <3>2. p \in Path /\ e.type = m.files[p].type
      BY <3>1 DEF Tracked, Taken, Renewed
    <3>3. Fits(e.type, p)
      BY <1>1, <2>1, <2>2, <3>1, <3>2 DEF ShapedIn
    <3> QED BY <2>2, <2>3, <3>1, <3>2, <3>3
  <2>7. CASE Rehash(i)
    <3>1. PICK p, e : /\ p \in TrackedFiles(m) /\ Recorded(m, n, p, e)
                      /\ Renewed(m.files[p], e, Contents(p), proc[i].now)
      BY <2>2, <2>7, RehashIs
    <3>2. p \in Path /\ Fits(e.type, p)
      BY <1>1, <2>1, <2>2, <3>1 DEF TrackedFiles, Tracked, Renewed, ShapedIn
    <3> QED BY <2>2, <2>3, <3>1, <3>2
  <2> QED BY <1>3, <2>2, <2>4, <2>5, <2>6, <2>7 DEF Recording
<1>4. CASE Drop(i)
  <2>1. /\ proc[i].at # "idle"
        /\ \A p \in Path : proc'[i].mem.files[p] \in {None, proc[i].mem.files[p]}
    BY <1>4, DropIs DEF Recorded
  <2> QED BY <1>1, <2>1 DEF ShapedIn, Tracked
<1>5. CASE ~Starts(i) /\ ~Recording(i) /\ ~Drop(i)
  <2>1. proc[i].at # "idle" /\ proc'[i].mem = proc[i].mem
    BY <1>5, Turns, WalkDownIs, ListBlobsIs, EndWalkIs, EndDropIs DEF Same
  <2> QED BY <1>1, <2>1
<1> QED BY <1>2, <1>3, <1>4, <1>5

LEMMA InitShaped == Init => Shaped
BY DEF Init, Shaped, ShapedOn, ShapedIn, Fits, Tracked, Idle, Absent, Directory

LEMMA ShapedStep == IndInv /\ Shaped /\ [Next]_vars => Shaped'
<1> SUFFICES ASSUME IndInv, Shaped, [Next]_vars PROVE Shaped'
  OBVIOUS
<1>1. ShapedOn(disk')
  BY DiskShaped
<1>2. CASE User \/ Tick \/ UNCHANGED vars
  BY <1>1, <1>2 DEF Shaped, User, UserWrites, UserLinks, UserRemoves, UserMakesDirectory, Tick, vars
<1>3. ASSUME NEW i \in Proc, Starts(i) \/ Works(i) \/ Stop(i) PROVE Shaped'
  <2>1. /\ proc' = [proc EXCEPT ![i] = proc'[i]] /\ proc \in [Proc -> Process]
        /\ \/ manifest' = manifest
           \/ manifest' = proc[i].mem /\ proc[i].at # "idle"
    BY <1>3, Turns DEF IndInv, TypeOK
  <2>2. ShapedIn(manifest')
    BY <2>1 DEF Shaped
  <2>3. ASSUME NEW j \in Proc, proc'[j].at # "idle" PROVE ShapedIn(proc'[j].mem)
    <3>1. CASE j = i
      BY <1>3, <2>3, <3>1, CommandShaped DEF Idle
    <3>2. CASE j # i
      BY <2>1, <2>3, <3>2 DEF Shaped
    <3> QED BY <3>1, <3>2
  <2> QED BY <1>1, <2>2, <2>3 DEF Shaped
<1> QED BY <1>2, <1>3 DEF Next

-----------------------------------------------------------------------------
(* mirror up. *)

(* What is in the directory is in the manifest, or the walk has it before  *)
(* it; what is gone is dropped, or the loop has it before it; then those   *)
(* hashed again show what is there.                                        *)
MirroredUp(q, on) ==
    /\ q.at \in {"walking", "dropping", "rehashing"} =>
          /\ q.arg \in Path
          /\ \A p \in Below[q.arg] :
                on[p].kind = "file" /\ ~Excluded(q.mem, p) =>
                    p \in Tracked(q.mem) \/ (q.at = "walking" /\ p \in q.todo)
    /\ q.at = "dropping" =>
          \A p \in Below[q.arg] \cap Tracked(q.mem) : on[p].kind # "none" \/ p \in q.todo
    /\ q.at = "rehashing" =>
          \A p \in Below[q.arg] \cap Tracked(q.mem) :
              on[p].kind # "none" /\ (p \notin q.todo => Shows(on[p], q.mem.files[p]))

LEMMA RecordedSame ==
    ASSUME NEW m, NEW n, NEW p \in Path, NEW e \in Entry, Recorded(m, n, p, e)
    PROVE  /\ Tracked(n) = Tracked(m) \cup {p}
           /\ \A x : Excluded(n, x) <=> Excluded(m, x)
           /\ n.files[p] = e
           /\ \A x \in Path \ {p} : n.files[x] = m.files[x]
BY NoneAssumption DEF Recorded, Tracked, Excluded

LEMMA AddEntryMirrors ==
    ASSUME IndInv, NEW i \in Proc, MirroredUp(proc[i], disk), AddEntry(i)
    PROVE  MirroredUp(proc'[i], disk')
<1>1. proc[i].at \in {"adding", "walking"} /\ disk' = disk /\ Same(proc[i], proc'[i])
  BY AddEntryIs DEF AddEntry
<1>2. PICK q, r : q = proc[i] /\ r = proc'[i]
  OBVIOUS
<1>3. PICK p \in q.todo :
        /\ p \in Path /\ r.todo = q.todo \ {p}
        /\ \/ r.mem = q.mem /\ (p \in Tracked(q.mem) \/ Passed(i, p))
           \/ \E e \in Entry : Recorded(q.mem, r.mem, p, e)
  BY <1>2, AddEntryIs
<1>4. CASE q.at = "adding"
  BY <1>1, <1>2, <1>4 DEF Same, MirroredUp
<1>5. CASE q.at = "walking"
  <2>1. /\ r.at = "walking" /\ r.arg = q.arg /\ q.arg \in Path
        /\ \A x \in Below[q.arg] : disk[x].kind = "file" /\ ~Excluded(q.mem, x) =>
                                      x \in Tracked(q.mem) \/ x \in q.todo
    BY <1>1, <1>2, <1>5 DEF Same, MirroredUp
  <2>2. /\ Tracked(q.mem) \subseteq Tracked(r.mem)
        /\ disk[p].kind = "file" => p \in Tracked(r.mem)
        /\ \A x : Excluded(r.mem, x) <=> Excluded(q.mem, x)
    <3>1. CASE r.mem = q.mem /\ (p \in Tracked(q.mem) \/ Passed(i, p))
      BY <3>1 DEF Passed, Leaf
    <3>2. CASE \E e \in Entry : Recorded(q.mem, r.mem, p, e)
      <4>1. PICK e, m, n : e \in Entry /\ m = q.mem /\ n = r.mem /\ Recorded(m, n, p, e)
        BY <3>2
      <4>2. Tracked(n) = Tracked(m) \cup {p} /\ \A x : Excluded(n, x) <=> Excluded(m, x)
        BY <1>3, <4>1, RecordedSame
      <4> QED BY <4>1, <4>2
    <3> QED BY <1>3, <3>1, <3>2
  <2>3. \A x \in Below[q.arg] : disk[x].kind = "file" /\ ~Excluded(r.mem, x) =>
                                   x \in Tracked(r.mem) \/ x \in r.todo
    BY <1>3, <2>1, <2>2
  <2> QED BY <1>1, <1>2, <2>1, <2>3 DEF MirroredUp
<1> QED BY <1>1, <1>2, <1>4, <1>5

LEMMA EndWalkMirrors ==
    ASSUME IndInv, NEW i \in Proc, MirroredUp(proc[i], disk), EndWalk(i)
    PROVE  MirroredUp(proc'[i], disk')
BY EndWalkIs DEF MirroredUp

LEMMA DropMirrors ==
    ASSUME IndInv, NEW i \in Proc, MirroredUp(proc[i], disk), Drop(i)
    PROVE  MirroredUp(proc'[i], disk')
<1>1. proc[i].at = "dropping" /\ disk' = disk /\ Same(proc[i], proc'[i])
  BY DropIs
<1>2. PICK q, r : q = proc[i] /\ r = proc'[i]
  OBVIOUS
<1>3. PICK p \in q.todo :
        /\ p \in Path /\ r.todo = q.todo \ {p}
        /\ Recorded(q.mem, r.mem, p, IF Exists(p) THEN q.mem.files[p] ELSE None)
  BY <1>2, DropIs DEF Tracked
<1>4. /\ \A x : Excluded(r.mem, x) <=> Excluded(q.mem, x)
      /\ \A x \in Path : x \in Tracked(r.mem) <=> x \in Tracked(q.mem) /\ (x # p \/ Exists(p))
  BY <1>3 DEF Recorded, Excluded, Tracked
<1>5. /\ q.arg \in Path /\ Below[q.arg] \subseteq Path
      /\ \A x \in Below[q.arg] : disk[x].kind = "file" /\ ~Excluded(q.mem, x) => x \in Tracked(q.mem)
      /\ \A x \in Below[q.arg] \cap Tracked(q.mem) : disk[x].kind # "none" \/ x \in q.todo
  BY <1>1, <1>2, BelowAssumption DEF MirroredUp
<1>6. \A x \in Below[q.arg] : disk[x].kind = "file" /\ ~Excluded(r.mem, x) => x \in Tracked(r.mem)
  BY <1>4, <1>5 DEF Exists
<1>7. \A x \in Below[q.arg] \cap Tracked(r.mem) : disk[x].kind # "none" \/ x \in r.todo
  BY <1>3, <1>4, <1>5 DEF Exists
<1> QED BY <1>1, <1>2, <1>5, <1>6, <1>7 DEF MirroredUp, Same

LEMMA EndDropMirrors ==
    ASSUME IndInv, NEW i \in Proc, MirroredUp(proc[i], disk), EndDrop(i)
    PROVE  MirroredUp(proc'[i], disk')
<1>1. PICK q, r : q = proc[i] /\ r = proc'[i]
  OBVIOUS
<1>2. /\ q.at = "dropping" /\ q.todo = {} /\ disk' = disk
      /\ r.at = "rehashing" /\ r.arg = q.arg /\ r.mem = q.mem
      /\ r.todo = Below[q.arg] \cap TrackedFiles(q.mem)
  BY <1>1, EndDropIs
<1>3. MirroredUp(q, disk)
  BY <1>1
<1>4. \A x \in Below[r.arg] \cap Tracked(r.mem) :
        disk[x].kind # "none" /\ (x \notin r.todo => Shows(disk[x], r.mem.files[x]))
  BY <1>2, <1>3 DEF MirroredUp, TrackedFiles, Shows
<1> QED BY <1>1, <1>2, <1>3, <1>4 DEF MirroredUp

LEMMA RehashMirrors ==
    ASSUME Targets = {}, IndInv, NEW i \in Proc, MirroredUp(proc[i], disk), Rehash(i)
    PROVE  MirroredUp(proc'[i], disk')
<1>1. proc[i].at = "rehashing" /\ disk' = disk /\ Same(proc[i], proc'[i])
  BY RehashIs DEF Rehash
<1>2. PICK q, r : q = proc[i] /\ r = proc'[i]
  OBVIOUS
<1>3. PICK p \in q.todo :
        /\ p \in TrackedFiles(q.mem) /\ r.todo = q.todo \ {p} /\ Readable(p)
        /\ \E e \in Entry : /\ Recorded(q.mem, r.mem, p, e)
                            /\ Renewed(q.mem.files[p], e, Contents(p), q.now)
  BY <1>2, RehashIs
<1>4. PICK e \in Entry : /\ Recorded(q.mem, r.mem, p, e)
                         /\ Renewed(q.mem.files[p], e, Contents(p), q.now)
  BY <1>3
<1>5. p \in Path /\ p \in Tracked(q.mem) /\ Follow(p) = p
  BY <1>3, NoLinks DEF TrackedFiles, Tracked
<1>6. Shows(disk[p], e)
  BY <1>3, <1>4, <1>5 DEF Readable, Contents, Renewed, Shows
<1>7. /\ Tracked(r.mem) = Tracked(q.mem)
      /\ \A x : Excluded(r.mem, x) <=> Excluded(q.mem, x)
      /\ r.mem.files[p] = e /\ \A x \in Path \ {p} : r.mem.files[x] = q.mem.files[x]
  <2>1. PICK m, n : m = q.mem /\ n = r.mem
    OBVIOUS
  <2>2. Recorded(m, n, p, e)
    BY <1>4, <2>1
  <2>3. /\ Tracked(n) = Tracked(m) \cup {p} /\ \A x : Excluded(n, x) <=> Excluded(m, x)
        /\ n.files[p] = e /\ \A x \in Path \ {p} : n.files[x] = m.files[x]
    BY <1>4, <1>5, <2>2, RecordedSame
  <2> QED BY <1>5, <2>1, <2>3
<1>8. /\ r.at = "rehashing" /\ r.arg = q.arg /\ q.arg \in Path /\ Below[q.arg] \subseteq Path
      /\ \A x \in Below[q.arg] : disk[x].kind = "file" /\ ~Excluded(q.mem, x) => x \in Tracked(q.mem)
      /\ \A x \in Below[q.arg] \cap Tracked(q.mem) :
            disk[x].kind # "none" /\ (x \notin q.todo => Shows(disk[x], q.mem.files[x]))
  BY <1>1, <1>2, BelowAssumption DEF Same, MirroredUp
<1>9. \A x \in Below[q.arg] \cap Tracked(r.mem) :
        disk[x].kind # "none" /\ (x \notin r.todo => Shows(disk[x], r.mem.files[x]))
  <2> SUFFICES ASSUME NEW x \in Below[q.arg] \cap Tracked(r.mem)
               PROVE  disk[x].kind # "none" /\ (x \notin r.todo => Shows(disk[x], r.mem.files[x]))
    OBVIOUS
  <2>1. CASE x = p
    BY <1>6, <1>7, <2>1 DEF Shows
  <2>2. CASE x # p
    BY <1>3, <1>7, <1>8, <2>2
  <2> QED BY <2>1, <2>2
<1> QED BY <1>1, <1>2, <1>7, <1>8, <1>9 DEF MirroredUp

(* The steps of every other command leave mirror up out.                   *)
LEMMA OthersMirrorUp ==
    ASSUME IndInv, NEW i \in Proc, Works(i) \/ Stop(i), ~AddEntry(i), ~EndWalk(i), ~Drop(i), ~EndDrop(i),
           ~Rehash(i)
    PROVE  proc'[i].at \notin {"walking", "dropping", "rehashing"}
<1>1. CASE CheckpointEntry(i) \/ WalkDown(i) \/ ListBlobs(i)
  BY <1>1, CheckpointEntryIs, WalkDownIs, ListBlobsIs DEF CheckpointEntry, Same
<1>2. CASE RestoreEntry(i) \/ Replay(i) \/ Delete(i) \/ DeleteBlob(i)
  BY <1>2, StepIs DEF RestoreEntry, Replay, Delete, DeleteBlob, Same
<1>3. CASE Save(i) \/ EndRestore(i) \/ EndPrune(i) \/ Stop(i) \/ CleanUp(i) \/ Tear(i)
  <2>1. proc'[i] = Idle
    BY <1>3, FinishIs DEF Save, EndRestore, EndPrune, Stop, CleanUp, Tear
  <2> QED BY <2>1 DEF Idle
<1> QED BY <1>1, <1>2, <1>3 DEF Works

AllMirroredUp == \A i \in Proc : MirroredUp(proc[i], disk)

LEMMA InitMirroredUp == Init => AllMirroredUp
BY DEF Init, Idle, AllMirroredUp, MirroredUp

LEMMA BeginsMirrorUp ==
    ASSUME ShapedOn(disk), NEW q, Begun(q)
    PROVE  MirroredUp(q, disk)
<1>1. CASE q.at = "walking"
  <2>1. q.mem = manifest /\ q.arg \in Path /\ q.todo = Walk(q.arg, manifest)
    BY <1>1 DEF Begun
  <2>2. Leaf(q.arg) => Below[q.arg] = {}
    BY <2>1 DEF ShapedOn, Fits, Leaf
  <2> QED BY <1>1, <2>1, <2>2 DEF MirroredUp, Walk
<1>2. CASE q.at # "walking"
  BY <1>2 DEF Begun, MirroredUp
<1> QED BY <1>1, <1>2

LEMMA MirroredUpStep ==
    ASSUME Undisturbed
    PROVE  IndInv /\ Shaped /\ AllMirroredUp /\ [Next]_vars => AllMirroredUp'
<1> SUFFICES ASSUME IndInv, Shaped, AllMirroredUp, [Next]_vars, NEW i \in Proc
             PROVE  MirroredUp(proc'[i], disk')
  BY DEF AllMirroredUp
<1>1. MirroredUp(proc[i], disk)
  BY DEF AllMirroredUp
<1>2. CASE Starts(i)
  BY <1>2, StartIs, BeginsMirrorUp DEF Shaped
<1>3. CASE Works(i) \/ Stop(i)
  <2>1. CASE AddEntry(i)
    BY <1>1, <2>1, AddEntryMirrors
  <2>2. CASE Rehash(i)
    BY <1>1, <2>2, RehashMirrors DEF Undisturbed
  <2>3. CASE EndWalk(i) \/ Drop(i) \/ EndDrop(i)
    BY <1>1, <2>3, EndWalkMirrors, DropMirrors, EndDropMirrors
  <2>4. CASE ~AddEntry(i) /\ ~Rehash(i) /\ ~EndWalk(i) /\ ~Drop(i) /\ ~EndDrop(i)
    BY <1>3, <2>4, OthersMirrorUp DEF MirroredUp
  <2> QED BY <2>1, <2>2, <2>3, <2>4
<1>4. CASE ~Starts(i) /\ ~Works(i) /\ ~Stop(i)
  <2>1. CASE proc[i].at = "idle"
    <3>1. proc'[i] = proc[i]
      BY <1>4, Whose
    <3> QED BY <2>1, <3>1 DEF MirroredUp
  <2>2. CASE proc[i].at # "idle"
    BY <1>1, <1>4, <2>2, NobodyElse DEF Undisturbed
  <2> QED BY <2>1, <2>2
<1> QED BY <1>2, <1>3, <1>4

(* When mirror up has saved, the entries under the directory are the files *)
(* in it that no exclusion covers, with the contents they have on disk,    *)
(* and nothing that is gone.                                               *)
THEOREM MirrorsUp ==
    ASSUME Undisturbed
    PROVE  Spec => MirrorUpExact
<1>0. Alone /\ (Alone => PruneAlone)
  BY DEF Undisturbed, Alone, PruneAlone
<1>1. ASSUME IndInv, Course, AllMirroredUp, NEW i \in Proc, Ends(i, "mirror up"),
             NEW p \in Below[proc[i].arg]
      PROVE  /\ Leaf(p) /\ ~Excluded(manifest', p) => p \in Tracked(manifest')
             /\ p \in Tracked(manifest') => State(p, manifest'.files[p]) = "ok"
  <2>1. /\ proc[i].at = "rehashing" /\ manifest' = proc[i].mem /\ proc[i].todo = {}
    BY <1>1 DEF Ends, Course, InPhase
  <2>2. PICK m : m = proc[i].mem
    OBVIOUS
  <2>3. /\ proc[i].arg \in Path /\ m \in Manifest
        /\ disk[p].kind = "file" /\ ~Excluded(m, p) => p \in Tracked(m)
        /\ p \in Tracked(m) => Shows(disk[p], m.files[p])
    BY <1>1, <2>1, <2>2, Working DEF AllMirroredUp, MirroredUp
  <2>4. p \in Path
    BY <2>3, BelowAssumption
  <2>5. Leaf(p) => disk[p].kind = "file"
    BY <1>1, <2>4, NoLinks DEF Undisturbed, Leaf
  <2>6. p \in Tracked(m) => State(p, m.files[p]) = "ok"
    <3> SUFFICES ASSUME p \in Tracked(m) PROVE State(p, m.files[p]) = "ok"
      OBVIOUS
    <3>1. PICK e : e = m.files[p]
      OBVIOUS
    <3>2. Shows(disk[p], e) /\ e.type \in {"file", "directory"}
      BY <2>3, <3>1, NoLinkEntries DEF Undisturbed
    <3>3. IndInv /\ Targets = {}
      BY <1>1 DEF Undisturbed
    <3>4. State(p, e) = "ok"
      BY <2>4, <3>2, <3>3, ShowsIsOk
    <3> QED BY <3>1, <3>4
  <2> QED BY <2>1, <2>2, <2>3, <2>5, <2>6
<1>2. IndInv /\ Course /\ AllMirroredUp =>
        [\A i \in Proc : Ends(i, "mirror up") =>
            \A p \in Below[proc[i].arg] :
                /\ Leaf(p) /\ ~Excluded(manifest', p) => p \in Tracked(manifest')
                /\ p \in Tracked(manifest') => State(p, manifest'.files[p]) = "ok"]_vars
  BY <1>1
<1> QED BY <1>0, <1>2, Inductive, InitCourse, CourseStep, InitShaped, ShapedStep,
          InitMirroredUp, MirroredUpStep, PTL DEF Spec, MirrorUpExact

-----------------------------------------------------------------------------
(* mirror down. *)

(* What has been written shows its entry; what is to be deleted is not an  *)
(* entry under the directory; with --force the files of the directory are  *)
(* tracked, excluded, or still to be deleted.                              *)
MirroredDown(q, on) ==
    /\ q.at \in {"replaying", "deleting"} =>
          /\ q.arg \in Path
          /\ \A p \in Below[q.arg] \cap TrackedFiles(q.mem) :
                q.at = "deleting" \/ p \notin q.todo => Shows(on[p], q.mem.files[p])
    /\ q.at = "deleting" => q.todo \cap Below[q.arg] \cap Tracked(q.mem) = {}
    /\ q.at = "deleting" /\ q.opt = "force" =>
          \A p \in Below[q.arg] :
              on[p].kind = "file" => p \in Tracked(q.mem) \cup q.todo \/ Excluded(q.mem, p)

AllMirroredDown == \A i \in Proc : MirroredDown(proc[i], disk)

LEMMA ReplayMirrors ==
    ASSUME Targets = {}, IndInv, NEW i \in Proc, MirroredDown(proc[i], disk), Replay(i)
    PROVE  MirroredDown(proc'[i], disk')
<1>1. proc[i].at = "replaying"
  BY DEF Replay
<1>2. PICK p \in proc[i].todo :
        /\ \/ Install(p, proc[i].mem.files[p])
           \/ proc[i].mem.files[p].type = "directory" /\ disk' = WithParents(p)
        /\ Step(i, p, proc[i].mem)
  BY DEF Replay
<1>3. PICK q, r, e : q = proc[i] /\ r = proc'[i] /\ e = proc[i].mem.files[p]
  OBVIOUS
<1>4. /\ r.at = "replaying" /\ r.arg = q.arg /\ r.mem = q.mem /\ r.todo = q.todo \ {p}
  BY <1>1, <1>2, <1>3, StepIs DEF Same
<1>5. p \in Path /\ e \in Entry
  BY <1>1, <1>3, Working DEF OnCourse, Tracked, Manifest
<1>6. /\ q.arg \in Path /\ Below[q.arg] \subseteq Path
      /\ \A x \in Below[q.arg] \cap TrackedFiles(q.mem) :
            x \notin q.todo => Shows(disk[x], q.mem.files[x])
  BY <1>1, <1>3, BelowAssumption DEF MirroredDown
<1>7. /\ e.type = "file" => Shows(disk'[p], e)
      /\ \A x \in Path \ {p} : disk[x].kind # "none" => disk'[x] = disk[x]
  <2>1. CASE Install(p, e)
    BY <1>5, <2>1, InstallShows
  <2>2. CASE e.type = "directory" /\ disk' = WithParents(p)
    BY <1>5, <2>2, ParentsShow
  <2> QED BY <1>2, <1>3, <2>1, <2>2
<1>8. ASSUME NEW x \in Below[q.arg] \cap TrackedFiles(q.mem), x \notin r.todo
      PROVE  Shows(disk'[x], q.mem.files[x])
  <2>1. CASE x = p
    BY <1>3, <1>7, <1>8, <2>1 DEF TrackedFiles
  <2>2. CASE x # p
    <3>1. Shows(disk[x], q.mem.files[x]) /\ x \in Path
      BY <1>4, <1>6, <1>8, <2>2
    <3> QED BY <1>7, <2>2, <3>1 DEF Shows
  <2> QED BY <2>1, <2>2
<1> QED BY <1>3, <1>4, <1>6, <1>8 DEF MirroredDown

LEMMA WalkDownMirrors ==
    ASSUME IndInv, ShapedOn(disk), NEW i \in Proc, MirroredDown(proc[i], disk), WalkDown(i)
    PROVE  MirroredDown(proc'[i], disk')
<1>1. PICK q, r : q = proc[i] /\ r = proc'[i]
  OBVIOUS
<1>2. /\ q.at = "replaying" /\ q.todo = {} /\ disk' = disk
      /\ r.arg = q.arg /\ r.mem = q.mem /\ r.at = "deleting"
      /\ r.todo = Untracked(q.arg, q.mem)
  BY <1>1, WalkDownIs
<1>3. MirroredDown(q, disk)
  BY <1>1
<1>4. q.arg \in Path /\ (Leaf(q.arg) => Below[q.arg] = {})
  BY <1>2, <1>3 DEF MirroredDown, ShapedOn, Fits, Leaf
<1>5. /\ r.todo \cap Below[q.arg] \cap Tracked(q.mem) = {}
      /\ \A p \in Below[q.arg] : p \in Tracked(q.mem) \cup r.todo \/ Excluded(q.mem, p)
  BY <1>2, <1>4 DEF Untracked, Walk
<1> QED BY <1>1, <1>2, <1>3, <1>5 DEF MirroredDown

LEMMA DeleteMirrors ==
    ASSUME IndInv, NEW i \in Proc, MirroredDown(proc[i], disk), Delete(i)
    PROVE  MirroredDown(proc'[i], disk')
<1>1. proc[i].at = "deleting" /\ disk \in [Path -> Object]
  BY Working DEF Delete
<1>2. PICK p \in proc[i].todo :
        /\ \/ disk' = [disk EXCEPT ![p] = Absent]
           \/ (~Leaf(p) \/ proc[i].opt # "force") /\ disk' = disk
        /\ Step(i, p, proc[i].mem)
  BY DEF Delete
<1>3. PICK q, r : q = proc[i] /\ r = proc'[i]
  OBVIOUS
<1>4. /\ r.at = "deleting" /\ r.arg = q.arg /\ r.mem = q.mem /\ r.todo = q.todo \ {p}
      /\ r.opt = q.opt
  BY <1>1, <1>2, <1>3, StepIs DEF Same
<1>5. p \in Path /\ p \notin Below[q.arg] \cap Tracked(q.mem)
  BY <1>1, <1>2, <1>3, Working DEF OnCourse, MirroredDown
<1>6. /\ q.arg \in Path /\ Below[q.arg] \subseteq Path
      /\ q.todo \cap Below[q.arg] \cap Tracked(q.mem) = {}
      /\ \A x \in Below[q.arg] \cap TrackedFiles(q.mem) : Shows(disk[x], q.mem.files[x])
      /\ q.opt = "force" => \A x \in Below[q.arg] : disk[x].kind = "file" =>
                               x \in Tracked(q.mem) \cup q.todo \/ Excluded(q.mem, x)
  BY <1>1, <1>3, BelowAssumption DEF MirroredDown
<1>7. /\ \A x \in Path \ {p} : disk'[x] = disk[x]
      /\ q.opt = "force" => disk'[p].kind # "file"
  BY <1>1, <1>2, <1>3, <1>5 DEF Absent, Leaf
<1>8. \A x \in Below[q.arg] \cap TrackedFiles(q.mem) : Shows(disk'[x], q.mem.files[x])
  BY <1>5, <1>6, <1>7 DEF TrackedFiles
<1>9. q.opt = "force" => \A x \in Below[q.arg] : disk'[x].kind = "file" =>
                            x \in Tracked(q.mem) \cup r.todo \/ Excluded(q.mem, x)
  <2> SUFFICES ASSUME q.opt = "force", NEW x \in Below[q.arg], disk'[x].kind = "file"
               PROVE  x \in Tracked(q.mem) \cup r.todo \/ Excluded(q.mem, x)
    OBVIOUS
  <2>1. x # p /\ x \in Path
    BY <1>6, <1>7
  <2> QED BY <1>4, <1>6, <1>7, <2>1
<1> QED BY <1>3, <1>4, <1>6, <1>8, <1>9 DEF MirroredDown

(* The steps of every other command leave mirror down out.                 *)
LEMMA OthersMirrorDown ==
    ASSUME IndInv, NEW i \in Proc, Works(i) \/ Stop(i), ~Replay(i), ~WalkDown(i), ~Delete(i)
    PROVE  proc'[i].at \notin {"replaying", "deleting"}
<1>1. CASE \/ AddEntry(i) \/ CheckpointEntry(i) \/ Rehash(i) \/ EndWalk(i) \/ Drop(i) \/ EndDrop(i)
           \/ ListBlobs(i)
  BY <1>1, AddEntryIs, CheckpointEntryIs, RehashIs, EndWalkIs, DropIs, EndDropIs, ListBlobsIs
     DEF AddEntry, CheckpointEntry, Rehash, Same
<1>2. CASE RestoreEntry(i) \/ DeleteBlob(i)
  BY <1>2, StepIs DEF RestoreEntry, DeleteBlob, Same
<1>3. CASE Save(i) \/ EndRestore(i) \/ EndPrune(i) \/ Stop(i) \/ CleanUp(i) \/ Tear(i)
  <2>1. proc'[i] = Idle
    BY <1>3, FinishIs DEF Save, EndRestore, EndPrune, Stop, CleanUp, Tear
  <2> QED BY <2>1 DEF Idle
<1> QED BY <1>1, <1>2, <1>3 DEF Works

LEMMA InitMirroredDown == Init => AllMirroredDown
BY DEF Init, Idle, AllMirroredDown, MirroredDown

LEMMA BeginsMirrorDown ==
    ASSUME NEW q, Begun(q)
    PROVE  MirroredDown(q, disk)
<1>1. CASE q.at = "replaying"
  <2>1. q.mem = manifest /\ q.arg \in Path /\ q.todo = Below[q.arg] \cap Tracked(manifest)
    BY <1>1 DEF Begun
  <2> QED BY <1>1, <2>1 DEF MirroredDown, TrackedFiles
<1>2. CASE q.at # "replaying"
  BY <1>2 DEF Begun, MirroredDown
<1> QED BY <1>1, <1>2

LEMMA MirroredDownStep ==
    ASSUME Undisturbed
    PROVE  IndInv /\ Shaped /\ AllMirroredDown /\ [Next]_vars => AllMirroredDown'
<1> SUFFICES ASSUME IndInv, Shaped, AllMirroredDown, [Next]_vars, NEW i \in Proc
             PROVE  MirroredDown(proc'[i], disk')
  BY DEF AllMirroredDown
<1>1. MirroredDown(proc[i], disk)
  BY DEF AllMirroredDown
<1>2. CASE Starts(i)
  BY <1>2, StartIs, BeginsMirrorDown
<1>3. CASE Works(i) \/ Stop(i)
  <2>1. CASE Replay(i)
    BY <1>1, <2>1, ReplayMirrors DEF Undisturbed
  <2>2. CASE WalkDown(i)
    BY <1>1, <2>2, WalkDownMirrors DEF Shaped
  <2>3. CASE Delete(i)
    BY <1>1, <2>3, DeleteMirrors
  <2>4. CASE ~Replay(i) /\ ~WalkDown(i) /\ ~Delete(i)
    BY <1>3, <2>4, OthersMirrorDown DEF MirroredDown
  <2> QED BY <2>1, <2>2, <2>3, <2>4
<1>4. CASE ~Starts(i) /\ ~Works(i) /\ ~Stop(i)
  <2>1. CASE proc[i].at = "idle"
    <3>1. proc'[i] = proc[i]
      BY <1>4, Whose
    <3> QED BY <2>1, <3>1 DEF MirroredDown
  <2>2. CASE proc[i].at # "idle"
    BY <1>1, <1>4, <2>2, NobodyElse DEF Undisturbed
  <2> QED BY <2>1, <2>2
<1> QED BY <1>2, <1>3, <1>4

(* When mirror down --force has ended, the files in the directory, however *)
(* deep, are the entries under it, with their contents, and those an       *)
(* exclusion covers.                                                       *)
THEOREM MirrorsDown ==
    ASSUME Undisturbed
    PROVE  Spec => MirrorDownExact
<1>0. Alone /\ (Alone => PruneAlone)
  BY DEF Undisturbed, Alone, PruneAlone
<1>1. ASSUME IndInv, Course, Shaped, AllMirroredDown, [Next]_vars,
             NEW i \in Proc, Ends(i, "mirror down"), proc[i].opt = "force",
             NEW p \in Below[proc[i].arg]
      PROVE  /\ Leaf(p)' => p \in Tracked(manifest) \/ Excluded(manifest, p)
             /\ p \in Tracked(manifest) /\ manifest.files[p].type # "directory" =>
                    State(p, manifest.files[p])' = "ok"
  <2>1. /\ proc[i].at = "deleting" /\ proc[i].mem = manifest /\ proc[i].todo = {}
        /\ proc'[i] = Idle
    BY <1>1 DEF Ends, Course, InPhase, Faithful
  <2>2. /\ proc[i].arg \in Path
        /\ p \in TrackedFiles(manifest) => Shows(disk[p], manifest.files[p])
        /\ disk[p].kind = "file" => p \in Tracked(manifest) \/ Excluded(manifest, p)
    BY <1>1, <2>1 DEF AllMirroredDown, MirroredDown
  <2>3. p \in Path /\ IndInv /\ Targets = {}
    BY <1>1, <2>2, BelowAssumption DEF Undisturbed
  <2>4. disk[p].kind # "link" /\ manifest \in Manifest
    BY <2>3, NoLinks DEF IndInv, TypeOK
  <2>5. p \in Tracked(manifest) /\ manifest.files[p].type # "directory" => p \in TrackedFiles(manifest)
    BY <1>1, <2>3, <2>4, NoLinkEntries DEF TrackedFiles
  <2>6. CleanUp(i) \/ Stop(i)
    <3>1. proc'[i] # proc[i]
      BY <2>1 DEF Idle
    <3>2. ~Starts(i)
      BY <2>1, <2>3, StartIs
    <3>3. Works(i) \/ Stop(i)
      BY <1>1, <3>1, <3>2, Whose
    <3> QED BY <2>1, <3>3 DEF Works, AddEntry, CheckpointEntry, RestoreEntry, EndRestore, EndWalk,
               Drop, EndDrop, Rehash, Replay, WalkDown, Delete, Tear, ListBlobs, DeleteBlob, EndPrune, Save
  <2>7. /\ manifest' = manifest
        /\ disk'[p] = disk[p] \/ (disk'[p].kind = "none" /\ ~Leaf(p))
    <3>1. CASE CleanUp(i)
      <4>1. PICK empty : /\ disk' = [q \in Path |-> IF q \in empty THEN Absent ELSE disk[q]]
                         /\ \A q \in empty : ~Leaf(q)
        BY <3>1 DEF CleanUp
      <4> QED BY <2>3, <3>1, <4>1 DEF CleanUp, Absent
    <3>2. CASE Stop(i)
      BY <3>2 DEF Stop
    <3> QED BY <2>6, <3>1, <3>2
  <2>8. Leaf(p)' => p \in Tracked(manifest) \/ Excluded(manifest, p)
    BY <2>2, <2>4, <2>7 DEF Leaf
  <2>9. ASSUME p \in Tracked(manifest), manifest.files[p].type # "directory"
        PROVE  State(p, manifest.files[p])' = "ok"
    <3>1. PICK e : e = manifest.files[p]
      OBVIOUS
    <3>2. e.type = "file" /\ disk[p].kind = "file" /\ disk[p].data = e.data
      BY <2>2, <2>5, <2>9, <3>1 DEF TrackedFiles, Shows
    <3>3. disk'[p] = disk[p]
      BY <2>7, <3>2 DEF Leaf
    <3> QED BY <2>7, <3>1, <3>2, <3>3 DEF State, Exists, Matches, Readable, Contents, Follow
  <2> QED BY <2>8, <2>9
<1>2. IndInv /\ Course /\ Shaped /\ AllMirroredDown /\ [Next]_vars =>
        [\A i \in Proc : Ends(i, "mirror down") /\ proc[i].opt = "force" =>
            \A p \in Below[proc[i].arg] :
                /\ Leaf(p)' => p \in Tracked(manifest) \/ Excluded(manifest, p)
                /\ p \in Tracked(manifest) /\ manifest.files[p].type # "directory" =>
                       State(p, manifest.files[p])' = "ok"]_vars
  BY <1>1
<1> QED BY <1>0, <1>2, Inductive, InitCourse, CourseStep, InitShaped, ShapedStep,
          InitMirroredDown, MirroredDownStep, PTL DEF Spec, MirrorDownExact

=============================================================================
