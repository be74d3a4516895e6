---------------------------- MODULE GardenProofs ---------------------------
(***************************************************************************)
(* Theorems about Garden, for any home directory, contents, commands,      *)
(* users and, unless something prunes, any number of processes.            *)
(***************************************************************************)
EXTENDS Garden, TLAPS

-----------------------------------------------------------------------------
(* Facts about the operators of the model. *)

LEMMA IdleType == Idle \in Process
BY MaxTimeAssumption DEF Idle, Process, Time

LEMMA DirectoryType ==
    /\ DefaultMode \in Mode
    /\ Absent \in Object
    /\ \A m \in Mode : Directory(m) \in Object
BY ModeAssumption DEF DefaultMode, Object

(* What there is to an object. *)
LEMMA ObjectParts ==
    ASSUME NEW o \in Object
    PROVE  /\ o.mtime \in Time
           /\ o.kind = "file" => o.data \in Content /\ o.mode \in Mode
           /\ o.kind = "link" => o.data \in Targets /\ o.mode \in Mode
           /\ o.kind = "directory" => o.data = None /\ o.mode \in Mode
           /\ o.kind \in Kind \cup {"none"}
BY MaxTimeAssumption DEF Object, Directory, Absent, Time, Kind

LEMMA FileType ==
    ASSUME NEW c \in Content, NEW m \in Mode, NEW t \in Time
    PROVE  /\ [kind |-> "file", data |-> c, mode |-> m, mtime |-> t] \in Object
           /\ [kind |-> "file", data |-> c, mtime |-> t, mode |-> m] \in Object
BY DEF Object

LEMMA LinkType ==
    ASSUME NEW p \in Targets, NEW m \in Mode, NEW t \in Time
    PROVE  /\ [kind |-> "link", data |-> p, mode |-> m, mtime |-> t] \in Object
           /\ [kind |-> "link", data |-> p, mtime |-> t, mode |-> m] \in Object
BY DEF Object

LEMMA EntryParts ==
    ASSUME NEW e \in Entry
    PROVE  /\ e.mode \in Mode /\ e.locked \in BOOLEAN /\ e.here \in BOOLEAN
           /\ e.updated \in Time
           /\ e.type = "file" => e.data \in Content
           /\ e.type = "link" => e.data \in Targets
           /\ e.type = "directory" => e.data = None
           /\ e.type \in Kind
BY DEF Entry, EntryOf, Kind

(* A manifest stays one when an entry is set or cleared; its blobs are     *)
(* those of before and of the entry.                                       *)
LEMMA SetEntry ==
    ASSUME NEW m \in Manifest, NEW p \in Path, NEW e \in Entry \cup {None},
           NEW blobs, Blobs(m) \subseteq blobs,
           e # None /\ e.type = "file" => e.data \in blobs
    PROVE  /\ [m EXCEPT !.files[p] = e] \in Manifest
           /\ Blobs([m EXCEPT !.files[p] = e]) \subseteq blobs
           /\ \A q \in Path \ {p} : [m EXCEPT !.files[p] = e].files[q] = m.files[q]
<1> DEFINE n == [m EXCEPT !.files[p] = e]
<1>1. /\ n \in Manifest
      /\ n.files[p] = e
      /\ \A q \in Path \ {p} : n.files[q] = m.files[q]
  BY DEF Manifest
<1>2. Blobs(n) \subseteq blobs
  <2> SUFFICES ASSUME NEW q \in TrackedFiles(n) PROVE n.files[q].data \in blobs
    BY DEF Blobs
  <2> HIDE DEF n
  <2>1. CASE q = p
    BY <1>1, <2>1 DEF TrackedFiles, Tracked
  <2>2. CASE q # p
    BY <1>1, <2>2 DEF TrackedFiles, Tracked, Blobs
  <2> QED
    BY <2>1, <2>2
<1> QED
  BY <1>1, <1>2

(* A manifest that keeps some of the entries of another. *)
LEMMA Fewer ==
    ASSUME NEW m \in Manifest, NEW n \in Manifest,
           \A p \in Path : n.files[p] \in {m.files[p], None}
    PROVE  Blobs(n) \subseteq Blobs(m)
BY DEF Blobs, TrackedFiles, Tracked

-----------------------------------------------------------------------------
(* What a step of one process, or of none, has to show. *)

LEMMA ProcessKeeps ==
    ASSUME IndInv, NEW i \in Proc,
           proc' = [proc EXCEPT ![i] = proc'[i]], proc'[i] \in Process,
           disk' \in [Path -> Object], clock' \in Time,
           store \subseteq store', store' \subseteq Content,
           manifest' \in Manifest, Blobs(manifest') \subseteq store',
           \/ manifest' = manifest
           \/ \A j \in Proc \ {i} : proc[j].at \notin {"listing", "pruning"},
           OnCourse(proc'[i], manifest', store')
    PROVE  IndInv'
<1>1. TypeOK'
  BY DEF IndInv, TypeOK
<1>2. Complete'
  BY DEF Complete
<1>3. ASSUME NEW j \in Proc PROVE OnCourse(proc'[j], manifest', store')
  <2>1. CASE j = i
    BY <2>1
  <2>2. CASE j # i
    <3>1. proc'[j] = proc[j]
      BY <2>2 DEF IndInv, TypeOK
    <3>2. OnCourse(proc[j], manifest, store)
      BY DEF IndInv
    <3>3. manifest' = manifest \/ proc[j].at \notin {"listing", "pruning"}
      BY <2>2
    <3> QED
      BY <3>1, <3>2, <3>3 DEF OnCourse
  <2> QED
    BY <2>1, <2>2
<1> QED
  BY <1>1, <1>2, <1>3 DEF IndInv

(* Steps in which no process takes part. *)
LEMMA UserKeeps ==
    ASSUME IndInv, disk' \in [Path -> Object], clock' \in Time,
           UNCHANGED <<manifest, store, proc>>
    PROVE  IndInv'
BY DEF IndInv, TypeOK, Complete

(* A command begins. *)
LEMMA BeginKeeps ==
    ASSUME IndInv, NEW i \in Proc, NEW cmd, NEW at, NEW arg, NEW opt, NEW m \in Manifest, NEW todo,
           Begin(i, cmd, at, arg, opt, m, todo),
           [cmd |-> cmd, at |-> at, arg |-> arg, opt |-> opt,
            now |-> clock, mem |-> m, todo |-> todo] \in Process,
           Blobs(m) \subseteq store,
           at \in {"adding", "walking", "deleting"} => todo \subseteq Path,
           at \in {"checkpointing", "restoring", "replaying"} => todo \subseteq Tracked(m),
           at \notin {"dropping", "rehashing", "pruning"},
           at = "replaying" => arg \in Path,
           at = "listing" => cmd = "prune" /\ m = manifest
    PROVE  IndInv'
<1>1. /\ proc'[i] = [cmd |-> cmd, at |-> at, arg |-> arg, opt |-> opt,
                     now |-> clock, mem |-> m, todo |-> todo]
      /\ proc' = [proc EXCEPT ![i] = proc'[i]]
      /\ UNCHANGED <<disk, manifest, store, clock>>
      /\ cmd \in Commands
  BY DEF Begin, IndInv, TypeOK
<1>2. OnCourse(proc'[i], manifest, store)
  BY <1>1 DEF OnCourse
<1> QED
  BY <1>1, <1>2, ProcessKeeps DEF IndInv, TypeOK, Complete

(* A command ends, in whatever way, without touching the garden. *)
LEMMA FinishKeeps ==
    ASSUME IndInv, NEW i \in Proc, Finish(i),
           disk' \in [Path -> Object], UNCHANGED <<manifest, store, clock>>
    PROVE  IndInv'
<1>1. proc' = [proc EXCEPT ![i] = proc'[i]] /\ proc'[i] = Idle
  BY DEF Finish, IndInv, TypeOK
<1>2. OnCourse(Idle, manifest, store)
  BY DEF OnCourse, Idle
<1> QED
  BY <1>1, <1>2, IdleType, ProcessKeeps DEF IndInv, TypeOK, Complete

(* A loop has done with x. *)
LEMMA StepKeeps ==
    ASSUME IndInv, NEW i \in Proc, NEW x, NEW m \in Manifest, Step(i, x, m),
           proc[i].at \in {"adding", "walking", "deleting", "checkpointing", "restoring",
                           "replaying", "dropping", "rehashing"},
           disk' \in [Path -> Object], UNCHANGED <<manifest, clock>>,
           store \subseteq store', store' \subseteq Content, Blobs(m) \subseteq store',
           \A q \in Path \ {x} : m.files[q] = proc[i].mem.files[q]
    PROVE  IndInv'
<1> DEFINE p == proc[i]
<1>1. p \in Process /\ OnCourse(p, manifest, store)
  BY DEF IndInv, TypeOK
<1>2. proc' = [proc EXCEPT ![i] = proc'[i]] /\ proc'[i] = [p EXCEPT !.todo = @ \ {x}, !.mem = m]
  BY DEF Step, IndInv, TypeOK
<1>3. /\ proc'[i].at = p.at /\ proc'[i].arg = p.arg /\ proc'[i].mem = m /\ proc'[i].todo = p.todo \ {x}
      /\ proc'[i] \in Process
  BY <1>1, <1>2 DEF Process
<1>4. p.todo \subseteq Tracked(p.mem) => p.todo \ {x} \subseteq Tracked(m)
  BY DEF Tracked
<1>5. p.todo \subseteq TrackedFiles(p.mem) => p.todo \ {x} \subseteq TrackedFiles(m)
  BY DEF TrackedFiles, Tracked
<1>6. OnCourse(proc'[i], manifest', store')
  BY <1>1, <1>3, <1>4, <1>5 DEF OnCourse
<1>7. Blobs(manifest') \subseteq store'
  BY DEF IndInv, Complete
<1> QED
  BY <1>2, <1>3, <1>6, <1>7, ProcessKeeps DEF IndInv, TypeOK

-----------------------------------------------------------------------------
(* The user. *)

LEMMA UserKeepsIndInv == IndInv /\ (User \/ Tick) => IndInv'
<1> SUFFICES ASSUME IndInv, User \/ Tick PROVE IndInv'
  OBVIOUS
<1>1. disk \in [Path -> Object] /\ clock \in Time
  BY DEF IndInv, TypeOK
<1>2. CASE UserWrites
  BY <1>1, <1>2, FileType, UserKeeps DEF UserWrites
<1>3. CASE UserLinks
  BY <1>1, <1>3, LinkType, UserKeeps DEF UserLinks
<1>4. CASE UserRemoves
  BY <1>1, <1>4, DirectoryType, UserKeeps DEF UserRemoves
<1>5. CASE UserMakesDirectory
  BY <1>1, <1>5, DirectoryType, UserKeeps DEF UserMakesDirectory
<1>6. CASE Tick
  BY <1>1, <1>6, UserKeeps, MaxTimeAssumption DEF Tick, Time
<1> QED
  BY <1>2, <1>3, <1>4, <1>5, <1>6 DEF User

-----------------------------------------------------------------------------
(* The commands begin. *)

LEMMA InitIndInv == Init => IndInv
<1> SUFFICES ASSUME Init PROVE IndInv
  OBVIOUS
<1>1. \A i \in Proc : proc[i] = Idle
  BY DEF Init
<1>2. TypeOK
  <2>1. disk \in [Path -> Object]
    BY DirectoryType DEF Init
  <2>2. manifest \in Manifest
    BY DEF Init, Manifest
  <2>3. proc \in [Proc -> Process]
    BY IdleType DEF Init
  <2> QED
    BY <2>1, <2>2, <2>3, MaxTimeAssumption DEF Init, TypeOK, Time
<1>3. Complete
  BY DEF Init, Complete, Blobs, TrackedFiles, Tracked
<1>4. OnCourse(Idle, manifest, store)
  BY DEF OnCourse, Idle
<1> QED
  BY <1>1, <1>2, <1>3, <1>4 DEF IndInv

(* The commands that only edit the manifest. *)
LEMMA EditKeeps ==
    ASSUME IndInv, NEW i \in Proc, NEW cmd, NEW p \in Path, NEW m \in Manifest,
           cmd \in {"remove", "lock", "target", "exclude", "include"},
           Blobs(m) \subseteq store, Edit(i, cmd, p, m)
    PROVE  IndInv'
<1>1. [cmd |-> cmd, at |-> "editing", arg |-> p, opt |-> "plain",
       now |-> clock, mem |-> m, todo |-> {}] \in Process
  BY DEF IndInv, TypeOK, Process
<1>2. Begin(i, cmd, "editing", p, "plain", m, {})
  BY DEF Edit
<1> QED
  BY <1>1, <1>2, BeginKeeps

(* A manifest that is edited at one entry, in a flag of the entry. *)
LEMMA FlagEntry ==
    ASSUME IndInv, NEW p \in Tracked(manifest), NEW flag \in BOOLEAN
    PROVE  /\ p \in Path
           /\ [manifest EXCEPT !.files[p].locked = flag] \in Manifest
           /\ [manifest EXCEPT !.files[p].here = flag] \in Manifest
           /\ Blobs([manifest EXCEPT !.files[p].locked = flag]) \subseteq store
           /\ Blobs([manifest EXCEPT !.files[p].here = flag]) \subseteq store
<1> DEFINE e == manifest.files[p]
           l == [e EXCEPT !.locked = flag]
           h == [e EXCEPT !.here = flag]
<1>1. p \in Path /\ e \in Entry /\ manifest \in Manifest /\ Blobs(manifest) \subseteq store
  BY DEF IndInv, TypeOK, Complete, Manifest, Tracked
<1>2. l \in Entry /\ h \in Entry
  BY <1>1 DEF Entry, EntryOf
<1>3. l.type = e.type /\ l.data = e.data /\ h.type = e.type /\ h.data = e.data
  BY <1>1 DEF Entry, EntryOf
<1>4. e.type = "file" => e.data \in store
  BY <1>1 DEF Blobs, TrackedFiles, Tracked
<1>5. /\ [manifest EXCEPT !.files[p].locked = flag] = [manifest EXCEPT !.files[p] = l]
      /\ [manifest EXCEPT !.files[p].here = flag] = [manifest EXCEPT !.files[p] = h]
  BY <1>1 DEF Manifest
<1> HIDE DEF l, h, e
<1>6. /\ [manifest EXCEPT !.files[p] = l] \in Manifest
      /\ Blobs([manifest EXCEPT !.files[p] = l]) \subseteq store
  BY <1>1, <1>2, <1>3, <1>4, SetEntry
<1>7. /\ [manifest EXCEPT !.files[p] = h] \in Manifest
      /\ Blobs([manifest EXCEPT !.files[p] = h]) \subseteq store
  BY <1>1, <1>2, <1>3, <1>4, SetEntry
<1> QED
  BY <1>1, <1>5, <1>6, <1>7

LEMMA EditsKeep ==
    ASSUME IndInv, NEW i \in Proc,
           Remove(i) \/ SetLocked(i) \/ SetTargeting(i) \/ Exclude(i) \/ Include(i)
    PROVE  IndInv'
<1>1. manifest \in Manifest /\ Blobs(manifest) \subseteq store
  BY DEF IndInv, TypeOK, Complete
<1>2. CASE Remove(i)
  <2>1. PICK p \in Tracked(manifest) : Edit(i, "remove", p, [manifest EXCEPT !.files[p] = None])
    BY <1>2 DEF Remove
  <2>2. p \in Path
    BY DEF Tracked
  <2>3. /\ [manifest EXCEPT !.files[p] = None] \in Manifest
        /\ Blobs([manifest EXCEPT !.files[p] = None]) \subseteq store
    BY <1>1, <2>2, SetEntry
  <2> QED
    BY <2>1, <2>2, <2>3, EditKeeps
<1>3. CASE SetLocked(i)
  BY <1>3, FlagEntry, EditKeeps DEF SetLocked
<1>4. CASE SetTargeting(i)
  BY <1>4, FlagEntry, EditKeeps DEF SetTargeting
<1>5. CASE Exclude(i)
  <2>1. PICK p \in Path :
            Edit(i, "exclude", p, IF p \in manifest.exclude THEN manifest
                                  ELSE Purged([manifest EXCEPT !.exclude = @ \cup {p}]))
    BY <1>5 DEF Exclude
  <2>2. PICK m : m = [manifest EXCEPT !.exclude = @ \cup {p}]
    OBVIOUS
  <2>3. m \in Manifest /\ m.files = manifest.files
    BY <1>1, <2>2 DEF Manifest
  <2>4. /\ Purged(m) \in Manifest
        /\ \A q \in Path : Purged(m).files[q] \in {manifest.files[q], None}
    BY <2>3 DEF Purged, Manifest
  <2>5. Blobs(Purged(m)) \subseteq store
    BY <1>1, <2>4, Fewer
  <2> QED
    BY <1>1, <2>1, <2>2, <2>4, <2>5, EditKeeps
<1>6. CASE Include(i)
  <2>1. PICK p \in Path : Edit(i, "include", p, [manifest EXCEPT !.exclude = @ \ {p}])
    BY <1>6 DEF Include
  <2>2. PICK m : m = [manifest EXCEPT !.exclude = @ \ {p}]
    OBVIOUS
  <2>3. m \in Manifest /\ m.files = manifest.files
    BY <1>1, <2>2 DEF Manifest
  <2>4. Blobs(m) \subseteq store
    BY <1>1, <2>3, Fewer
  <2> QED
    BY <2>1, <2>2, <2>3, <2>4, EditKeeps
<1> QED
  BY <1>2, <1>3, <1>4, <1>5, <1>6

LEMMA StartsKeep ==
    ASSUME IndInv, NEW i \in Proc, Starts(i)
    PROVE  IndInv'
<1>1. manifest \in Manifest /\ Blobs(manifest) \subseteq store /\ clock \in Time
  BY DEF IndInv, TypeOK, Complete
<1>2. CASE Add(i)
  <2>1. PICK p \in Path, opt \in {"plain", "lock", "dir", "elsewhere"} :
            Begin(i, "add", "adding", p, opt, manifest,
                  IF opt = "dir" \/ Leaf(p) THEN {p} ELSE Walk(p, manifest))
    BY <1>2 DEF Add
  <2>2. PICK todo : todo = IF opt = "dir" \/ Leaf(p) THEN {p} ELSE Walk(p, manifest)
    OBVIOUS
  <2>3. todo \subseteq Path
    BY <2>2, BelowAssumption DEF Walk
  <2>4. [cmd |-> "add", at |-> "adding", arg |-> p, opt |-> opt,
         now |-> clock, mem |-> manifest, todo |-> todo] \in Process
    BY <1>1, <2>3 DEF Process
  <2> QED
    BY <1>1, <2>1, <2>2, <2>3, <2>4, BeginKeeps
<1>3. CASE Checkpoint(i)
  <2>1. PICK todo : todo = Applying(manifest)
    OBVIOUS
  <2>2. todo \subseteq Tracked(manifest) /\ todo \subseteq Path
    BY <2>1 DEF Applying, Tracked
  <2>3. [cmd |-> "checkpoint", at |-> "checkpointing", arg |-> None, opt |-> "plain",
         now |-> clock, mem |-> manifest, todo |-> todo] \in Process
    BY <1>1, <2>2 DEF Process
  <2>4. Begin(i, "checkpoint", "checkpointing", None, "plain", manifest, todo)
    BY <1>3, <2>1 DEF Checkpoint
  <2> QED
    BY <1>1, <2>2, <2>3, <2>4, BeginKeeps
<1>4. CASE Restore(i)
  <2>1. PICK arg \in Tracked(manifest) \cup {None}, opt \in {"plain", "force"} :
            Begin(i, "restore", "restoring", arg, opt, manifest,
                  {p \in Applying(manifest) : arg \in {p, None}})
    BY <1>4 DEF Restore
  <2>2. PICK todo : todo = {p \in Applying(manifest) : arg \in {p, None}}
    OBVIOUS
  <2>3. todo \subseteq Tracked(manifest) /\ todo \subseteq Path /\ arg \in Path \cup {None}
    BY <2>2 DEF Applying, Tracked
  <2>4. [cmd |-> "restore", at |-> "restoring", arg |-> arg, opt |-> opt,
         now |-> clock, mem |-> manifest, todo |-> todo] \in Process
    BY <1>1, <2>3 DEF Process
  <2> QED
    BY <1>1, <2>1, <2>2, <2>3, <2>4, BeginKeeps
<1>5. CASE MirrorUp(i)
  <2>1. PICK d \in Path : Begin(i, "mirror up", "walking", d, "plain", manifest, Walk(d, manifest))
    BY <1>5 DEF MirrorUp
  <2>2. PICK todo : todo = Walk(d, manifest)
    OBVIOUS
  <2>3. todo \subseteq Path
    BY <2>2, BelowAssumption DEF Walk
  <2>4. [cmd |-> "mirror up", at |-> "walking", arg |-> d, opt |-> "plain",
         now |-> clock, mem |-> manifest, todo |-> todo] \in Process
    BY <1>1, <2>3 DEF Process
  <2>5. PICK cmd : cmd = "mirror up"
    OBVIOUS
  <2>6. Begin(i, cmd, "walking", d, "plain", manifest, todo)
    BY <2>1, <2>2, <2>5
  <2>7. [cmd |-> cmd, at |-> "walking", arg |-> d, opt |-> "plain",
         now |-> clock, mem |-> manifest, todo |-> todo] \in Process
    BY <2>4, <2>5
  <2> QED
    BY <1>1, <2>3, <2>7, <2>6, BeginKeeps
<1>6. CASE MirrorDown(i)
  <2>1. PICK d \in Path, opt \in {"plain", "force"} :
            Begin(i, "mirror down", "replaying", d, opt, manifest, Below[d] \cap Tracked(manifest))
    BY <1>6 DEF MirrorDown
  <2>2. PICK todo : todo = Below[d] \cap Tracked(manifest)
    OBVIOUS
  <2>3. todo \subseteq Path /\ todo \subseteq Tracked(manifest)
    BY <2>2 DEF Tracked
  <2>4. [cmd |-> "mirror down", at |-> "replaying", arg |-> d, opt |-> opt,
         now |-> clock, mem |-> manifest, todo |-> todo] \in Process
    BY <1>1, <2>3 DEF Process
  <2>5. PICK cmd : cmd = "mirror down"
    OBVIOUS
  <2>6. Begin(i, cmd, "replaying", d, opt, manifest, todo)
    BY <2>1, <2>2, <2>5
  <2>7. [cmd |-> cmd, at |-> "replaying", arg |-> d, opt |-> opt,
         now |-> clock, mem |-> manifest, todo |-> todo] \in Process
    BY <2>4, <2>5
  <2> QED
    BY <1>1, <2>3, <2>7, <2>6, BeginKeeps
<1>7. CASE Remove(i) \/ SetLocked(i) \/ SetTargeting(i) \/ Exclude(i) \/ Include(i)
  BY <1>7, EditsKeep
<1>8. CASE Prune(i)
  <2>1. [cmd |-> "prune", at |-> "listing", arg |-> None, opt |-> "plain",
         now |-> clock, mem |-> manifest, todo |-> {}] \in Process
    BY <1>1 DEF Process
  <2>2. Begin(i, "prune", "listing", None, "plain", manifest, {})
    BY <1>8 DEF Prune
  <2> QED
    BY <1>1, <2>1, <2>2, BeginKeeps
<1> QED
  BY <1>2, <1>3, <1>4, <1>5, <1>6, <1>7, <1>8 DEF Starts

-----------------------------------------------------------------------------
(* The commands work. *)

(* What the invariant says of a process that works. *)
LEMMA Working ==
    ASSUME IndInv, NEW i \in Proc, proc[i].at # "idle"
    PROVE  /\ proc[i] \in Process /\ proc[i].mem \in Manifest /\ proc[i].now \in Time
           /\ Blobs(proc[i].mem) \subseteq store
           /\ OnCourse(proc[i], manifest, store)
           /\ disk \in [Path -> Object] /\ manifest \in Manifest /\ clock \in Time
           /\ store \subseteq Content
BY DEF IndInv, TypeOK, OnCourse, Process

LEMMA FollowType ==
    ASSUME NEW p \in Path, disk \in [Path -> Object]
    PROVE  /\ Follow(p) \in Path
           /\ Readable(p) => Contents(p) \in Content
<1>1. disk[p] \in Object
  OBVIOUS
<1>2. Follow(p) \in Path
  BY <1>1, ObjectParts, TargetsAssumption DEF Follow
<1>3. disk[Follow(p)] \in Object
  BY <1>2
<1> QED
  BY <1>2, <1>3, ObjectParts DEF Readable, Contents

(* An entry that is refreshed with contents the store has. *)
LEMMA RefreshedType ==
    ASSUME NEW e \in Entry, NEW now \in Time, NEW data,
           \/ e.type = "file" /\ data \in Content
           \/ e.type = "link" /\ data \in Targets
    PROVE  /\ Refreshed(e, data, now) \in Entry
           /\ Refreshed(e, data, now).type = e.type
           /\ Refreshed(e, data, now).data = data
<1>1. CASE data = e.data
  BY <1>1 DEF Refreshed
<1>2. CASE data # e.data
  <2>1. Refreshed(e, data, now) = [e EXCEPT !.data = data, !.updated = now]
    BY <1>2 DEF Refreshed
  <2> QED
    BY <2>1 DEF Entry, EntryOf
<1> QED
  BY <1>1, <1>2

LEMMA StoredType ==
    ASSUME NEW data, store \subseteq Content
    PROVE  /\ store \subseteq Stored(data) /\ Stored(data) \subseteq Content
           /\ data \in Content => data \in Stored(data)
BY DEF Stored

(* A loop records an entry. *)
LEMMA RecordKeeps ==
    ASSUME IndInv, NEW i \in Proc, NEW p \in Path, NEW e \in Entry,
           proc[i].at \in {"adding", "walking", "checkpointing", "rehashing"},
           Step(i, p, [proc[i].mem EXCEPT !.files[p] = e]),
           UNCHANGED <<disk, manifest, clock>>,
           store \subseteq store', store' \subseteq Content,
           e.type = "file" => e.data \in store'
    PROVE  IndInv'
<1>1. PICK m : m = [proc[i].mem EXCEPT !.files[p] = e]
  OBVIOUS
<1>2. /\ proc[i].mem \in Manifest /\ Blobs(proc[i].mem) \subseteq store
      /\ disk \in [Path -> Object]
  BY Working
<1>3. PICK old, blobs : old = proc[i].mem /\ blobs = store'
  OBVIOUS
<1>4. /\ m = [old EXCEPT !.files[p] = e] /\ old \in Manifest /\ Blobs(old) \subseteq blobs
      /\ e \in Entry \cup {None} /\ (e # None /\ e.type = "file" => e.data \in blobs)
  BY <1>1, <1>2, <1>3
<1>5. /\ m \in Manifest /\ Blobs(m) \subseteq blobs
      /\ \A q \in Path \ {p} : m.files[q] = old.files[q]
  BY <1>4, SetEntry
<1>6. Step(i, p, m)
  BY <1>1
<1> QED
  BY <1>2, <1>3, <1>5, <1>6, StepKeeps

LEMMA AddEntryKeeps ==
    ASSUME IndInv, NEW i \in Proc, AddEntry(i)
    PROVE  IndInv'
<1>1. PICK p \in proc[i].todo :
        \/ /\ p \in Tracked(proc[i].mem) \/ Passed(i, p)
           /\ Step(i, p, proc[i].mem) /\ store' = store
        \/ /\ p \notin Tracked(proc[i].mem) /\ Exists(p) /\ ~Passed(i, p)
           /\ store' = Stored(disk[p].data)
           /\ Step(i, p, [proc[i].mem EXCEPT !.files[p] =
                              NewEntry(p, proc[i].opt, proc[i].now)])
  BY DEF AddEntry
<1>2. proc[i].at \in {"adding", "walking"} /\ UNCHANGED <<disk, manifest, clock>>
  BY DEF AddEntry
<1>3. /\ proc[i] \in Process /\ proc[i].mem \in Manifest /\ proc[i].now \in Time
      /\ Blobs(proc[i].mem) \subseteq store
      /\ disk \in [Path -> Object] /\ store \subseteq Content
      /\ p \in Path
  BY <1>2, Working DEF OnCourse
<1>4. CASE p \in Tracked(proc[i].mem) \/ Passed(i, p)
  <2>1. Step(i, p, proc[i].mem) /\ store' = store
    BY <1>1, <1>4
  <2> QED
    BY <1>2, <1>3, <2>1, StepKeeps
<1>5. CASE p \notin Tracked(proc[i].mem) /\ ~Passed(i, p)
  <2>1. PICK e : e = NewEntry(p, proc[i].opt, proc[i].now)
    OBVIOUS
  <2>2. /\ Exists(p) /\ store' = Stored(disk[p].data)
        /\ Step(i, p, [proc[i].mem EXCEPT !.files[p] = e])
    BY <1>1, <1>5, <2>1
  <2>3. disk[p] \in Object /\ disk[p].kind \in Kind
    BY <1>3, <2>2, ObjectParts DEF Exists
  <2>4. e \in Entry /\ e.type = disk[p].kind /\ e.data = disk[p].data
    BY <1>3, <2>1, <2>3, ObjectParts DEF NewEntry, Entry, EntryOf, Kind
  <2>5. /\ store \subseteq store' /\ store' \subseteq Content
        /\ e.type = "file" => e.data \in store'
    BY <1>3, <2>2, <2>3, <2>4, StoredType, ObjectParts
  <2> QED
    BY <1>2, <1>3, <2>2, <2>4, <2>5, RecordKeeps
<1> QED
  BY <1>4, <1>5

LEMMA CheckpointEntryKeeps ==
    ASSUME IndInv, NEW i \in Proc, CheckpointEntry(i)
    PROVE  IndInv'
<1> DEFINE m == proc[i].mem
           Kept(p) == [m.files[p] EXCEPT !.mode = disk[p].mode]
           Record(p, new) == Step(i, p, [m EXCEPT !.files[p] = new])
<1>1. PICK p \in proc[i].todo :
        \/ ~Exists(p) /\ Step(i, p, m) /\ store' = store
        \/ /\ Exists(p) /\ OnlyMode(Kept(p))
           /\ Record(p, Kept(p)) /\ store' = store
        \/ /\ ~OnlyMode(Kept(p)) /\ Kept(p).type = "file" /\ Exists(p) /\ Readable(p)
           /\ store' = Stored(Contents(p))
           /\ Record(p, Refreshed(Kept(p), Contents(p), proc[i].now))
        \/ /\ ~OnlyMode(Kept(p)) /\ Kept(p).type = "link" /\ disk[p].kind = "link"
           /\ Record(p, Refreshed(Kept(p), disk[p].data, proc[i].now)) /\ store' = store
  BY DEF CheckpointEntry
<1>2. proc[i].at = "checkpointing" /\ UNCHANGED <<disk, manifest, clock>>
  BY DEF CheckpointEntry
<1>3. /\ proc[i] \in Process /\ m \in Manifest /\ proc[i].now \in Time
      /\ Blobs(m) \subseteq store
      /\ disk \in [Path -> Object] /\ store \subseteq Content
      /\ p \in Tracked(m) /\ p \in Path
  BY <1>2, Working DEF OnCourse, Tracked
<1>4. /\ m.files[p] \in Entry /\ disk[p] \in Object
      /\ m.files[p].type = "file" => m.files[p].data \in store
  BY <1>3 DEF Manifest, Tracked, Blobs, TrackedFiles
<1>5. CASE ~Exists(p) /\ Step(i, p, m) /\ store' = store
  BY <1>2, <1>3, <1>5, StepKeeps
<1>6. CASE Exists(p)
  <2>1. PICK e : e = Kept(p)
    OBVIOUS
  <2>2. disk[p].mode \in Mode
    BY <1>4, <1>6, ObjectParts DEF Exists, Kind
  <2>3. e \in Entry /\ e.type = m.files[p].type /\ e.data = m.files[p].data
    BY <1>4, <2>1, <2>2 DEF Entry, EntryOf
  <2>4. CASE Record(p, e) /\ store' = store
    BY <1>2, <1>3, <1>4, <2>3, <2>4, RecordKeeps
  <2>5. CASE /\ e.type = "file" /\ Readable(p) /\ store' = Stored(Contents(p))
             /\ Record(p, Refreshed(e, Contents(p), proc[i].now))
    <3>1. PICK new : new = Refreshed(e, Contents(p), proc[i].now)
      OBVIOUS
    <3>2. Contents(p) \in Content
      BY <1>3, <2>5, FollowType
    <3>3. new \in Entry /\ new.data = Contents(p)
      BY <1>3, <2>3, <2>5, <3>1, <3>2, RefreshedType
    <3>4. store \subseteq store' /\ store' \subseteq Content /\ Contents(p) \in store'
      BY <1>3, <2>5, <3>2, StoredType
    <3> QED
      BY <1>2, <1>3, <2>5, <3>1, <3>3, <3>4, RecordKeeps
  <2>6. CASE /\ e.type = "link" /\ disk[p].kind = "link"
             /\ Record(p, Refreshed(e, disk[p].data, proc[i].now)) /\ store' = store
    <3>1. PICK new : new = Refreshed(e, disk[p].data, proc[i].now)
      OBVIOUS
    <3>2. disk[p].data \in Targets
      BY <1>4, <2>6, ObjectParts
    <3>3. new \in Entry /\ new.type = "link"
      BY <1>3, <2>3, <2>6, <3>1, <3>2, RefreshedType
    <3> QED
      BY <1>2, <1>3, <2>6, <3>1, <3>3, RecordKeeps
  <2> QED
    BY <1>1, <1>6, <2>1, <2>4, <2>5, <2>6
<1>7. disk[p].kind = "link" => Exists(p)
  BY DEF Exists
<1> QED
  BY <1>1, <1>5, <1>6, <1>7

LEMMA RehashKeeps ==
    ASSUME IndInv, NEW i \in Proc, Rehash(i)
    PROVE  IndInv'
<1>1. PICK p \in proc[i].todo :
        /\ Readable(p)
        /\ store' = Stored(Contents(p))
        /\ Step(i, p, [proc[i].mem EXCEPT !.files[p] =
                          Refreshed(@, Contents(p), proc[i].now)])
  BY DEF Rehash
<1>2. proc[i].at = "rehashing" /\ UNCHANGED <<disk, manifest, clock>>
  BY DEF Rehash
<1>3. /\ proc[i] \in Process /\ proc[i].mem \in Manifest /\ proc[i].now \in Time
      /\ disk \in [Path -> Object] /\ store \subseteq Content
      /\ p \in TrackedFiles(proc[i].mem)
  BY <1>2, Working DEF OnCourse
<1>4. /\ p \in Path /\ proc[i].mem.files[p] \in Entry /\ proc[i].mem.files[p].type = "file"
  BY <1>3 DEF Manifest, Tracked, TrackedFiles
<1>5. PICK new : new = Refreshed(proc[i].mem.files[p], Contents(p), proc[i].now)
  OBVIOUS
<1>6. Contents(p) \in Content
  BY <1>1, <1>3, <1>4, FollowType
<1>7. new \in Entry /\ new.data = Contents(p)
  BY <1>3, <1>4, <1>5, <1>6, RefreshedType
<1>8. store \subseteq store' /\ store' \subseteq Content /\ Contents(p) \in store'
  BY <1>1, <1>3, <1>6, StoredType
<1>9. Step(i, p, [proc[i].mem EXCEPT !.files[p] = new])
  BY <1>1, <1>3, <1>4, <1>5 DEF Manifest
<1> QED
  BY <1>2, <1>4, <1>7, <1>8, <1>9, RecordKeeps

LEMMA WithParentsType ==
    ASSUME NEW p \in Path, disk \in [Path -> Object]
    PROVE  WithParents(p) \in [Path -> Object]
BY DirectoryType DEF WithParents

(* A file that is written, whole or torn, is one. *)
LEMMA OverwrittenType ==
    ASSUME NEW p \in Path, NEW e \in Entry, NEW c \in Content,
           disk \in [Path -> Object], clock \in Time
    PROVE  Overwritten(p, e, c) \in [Path -> Object]
<1>1. PICK before : before = WithParents(p)
  OBVIOUS
<1>2. before \in [Path -> Object]
  BY <1>1, WithParentsType
<1>3. PICK t : t = Follow(p)
  OBVIOUS
<1>4. t \in Path
  BY <1>3, FollowType
<1>5. PICK mode : mode = IF Exists(t) THEN disk[t].mode ELSE e.mode
  OBVIOUS
<1>6. Overwritten(p, e, c) = [before EXCEPT ![t] = [kind |-> "file", data |-> c, mtime |-> clock,
                                                   mode |-> mode]]
  BY <1>1, <1>3, <1>5 DEF Overwritten
<1>7. disk[t] \in Object /\ disk[t].kind \in Kind \cup {"none"}
  BY <1>4, ObjectParts
<1>8. Exists(t) => disk[t].mode \in Mode
  BY <1>7, ObjectParts DEF Exists, Kind
<1>9. mode \in Mode
  BY <1>5, <1>8, EntryParts
<1> QED
  BY <1>2, <1>4, <1>6, <1>9, FileType

(* What is installed is what the entry names. *)
LEMMA InstallType ==
    ASSUME NEW p \in Path, NEW e \in Entry, disk \in [Path -> Object], clock \in Time,
           Install(p, e)
    PROVE  disk' \in [Path -> Object]
<1>1. PICK before : before = WithParents(p)
  OBVIOUS
<1>2. before \in [Path -> Object]
  BY <1>1, WithParentsType
<1>3. CASE e.type = "file"
  <2>1. e.data \in Content /\ disk' = Overwritten(p, e, e.data)
    BY <1>3, EntryParts DEF Install
  <2> QED
    BY <2>1, OverwrittenType
<1>4. CASE e.type # "file"
  <2>1. /\ e.type = "link"
        /\ disk' = [before EXCEPT ![p] =
             [kind |-> "link", data |-> e.data, mtime |-> clock, mode |-> e.mode]]
    BY <1>1, <1>4 DEF Install, CanWrite
  <2>2. e.data \in Targets /\ e.mode \in Mode
    BY <2>1, EntryParts
  <2> QED
    BY <1>2, <2>1, <2>2, LinkType
<1> QED
  BY <1>3, <1>4

LEMMA RestoreEntryKeeps ==
    ASSUME IndInv, NEW i \in Proc, RestoreEntry(i)
    PROVE  IndInv'
<1>1. PICK p \in proc[i].todo :
        /\ \/ disk' = disk
           \/ Install(p, proc[i].mem.files[p])
           \/ disk' = [WithParents(p) EXCEPT ![p] =
                         IF Exists(p) THEN @ ELSE Directory(proc[i].mem.files[p].mode)]
        /\ Step(i, p, proc[i].mem)
  BY DEF RestoreEntry
<1>2. proc[i].at = "restoring" /\ UNCHANGED <<manifest, store, clock>>
  BY DEF RestoreEntry
<1>3. /\ proc[i].mem \in Manifest /\ Blobs(proc[i].mem) \subseteq store
      /\ disk \in [Path -> Object] /\ store \subseteq Content /\ clock \in Time
      /\ p \in Path /\ proc[i].mem.files[p] \in Entry
  BY <1>2, Working DEF OnCourse, Tracked, Manifest
<1>4. disk' \in [Path -> Object]
  <2>1. CASE disk' = disk
    BY <1>3, <2>1
  <2>2. CASE Install(p, proc[i].mem.files[p])
    BY <1>3, <2>2, InstallType
  <2>3. CASE disk' = [WithParents(p) EXCEPT ![p] =
                        IF Exists(p) THEN @ ELSE Directory(proc[i].mem.files[p].mode)]
    BY <1>3, <2>3, WithParentsType, DirectoryType, EntryParts
  <2> QED
    BY <1>1, <2>1, <2>2, <2>3
<1> QED
  BY <1>1, <1>2, <1>3, <1>4, StepKeeps

LEMMA ReplayKeeps ==
    ASSUME IndInv, NEW i \in Proc, Replay(i)
    PROVE  IndInv'
<1>1. PICK p \in proc[i].todo :
        /\ Install(p, proc[i].mem.files[p]) \/ disk' = WithParents(p)
        /\ Step(i, p, proc[i].mem)
  BY DEF Replay
<1>2. proc[i].at = "replaying" /\ UNCHANGED <<manifest, store, clock>>
  BY DEF Replay
<1>3. /\ proc[i].mem \in Manifest /\ Blobs(proc[i].mem) \subseteq store
      /\ disk \in [Path -> Object] /\ store \subseteq Content /\ clock \in Time
      /\ p \in Path /\ proc[i].mem.files[p] \in Entry
  BY <1>2, Working DEF OnCourse, Tracked, Manifest
<1>4. disk' \in [Path -> Object]
  BY <1>1, <1>3, InstallType, WithParentsType
<1> QED
  BY <1>1, <1>2, <1>3, <1>4, StepKeeps

LEMMA DeleteKeeps ==
    ASSUME IndInv, NEW i \in Proc, Delete(i)
    PROVE  IndInv'
<1>1. PICK p \in proc[i].todo :
        /\ disk' = [disk EXCEPT ![p] = Absent] \/ disk' = disk
        /\ Step(i, p, proc[i].mem)
  BY DEF Delete
<1>2. proc[i].at = "deleting" /\ UNCHANGED <<manifest, store, clock>>
  BY DEF Delete
<1>3. /\ proc[i].mem \in Manifest /\ Blobs(proc[i].mem) \subseteq store
      /\ disk \in [Path -> Object] /\ store \subseteq Content /\ p \in Path
  BY <1>2, Working DEF OnCourse
<1>4. disk' \in [Path -> Object]
  BY <1>1, <1>3, DirectoryType
<1> QED
  BY <1>1, <1>2, <1>3, <1>4, StepKeeps

(* The steps that end a command without saving. *)
LEMMA EndsKeep ==
    ASSUME IndInv, NEW i \in Proc,
           EndRestore(i) \/ CleanUp(i) \/ EndPrune(i) \/ Stop(i)
    PROVE  IndInv'
<1>1. disk \in [Path -> Object]
  BY DEF IndInv, TypeOK
<1>2. CASE EndRestore(i) \/ EndPrune(i) \/ Stop(i)
  BY <1>1, <1>2, FinishKeeps DEF EndRestore, EndPrune, Stop
<1>3. CASE CleanUp(i)
  <2>1. PICK empty : disk' = [p \in Path |-> IF p \in empty THEN Absent ELSE disk[p]]
    BY <1>3 DEF CleanUp
  <2>2. disk' \in [Path -> Object]
    BY <1>1, <2>1, DirectoryType
  <2> QED
    BY <1>3, <2>2, FinishKeeps DEF CleanUp
<1> QED
  BY <1>2, <1>3

(* A kill in the middle of a write changes the home directory and nothing  *)
(* else.                                                                   *)
LEMMA TearKeeps ==
    ASSUME IndInv, NEW i \in Proc, Tear(i)
    PROVE  IndInv'
<1>1. PICK p \in proc[i].todo :
        \/ \E c \in Content : disk' = Overwritten(p, proc[i].mem.files[p], c)
        \/ disk' = [WithParents(p) EXCEPT ![p] = Absent]
  BY DEF Tear
<1>2. Finish(i) /\ UNCHANGED <<manifest, store, clock>>
  BY DEF Tear
<1>3. /\ disk \in [Path -> Object] /\ clock \in Time
      /\ p \in Path /\ proc[i].mem.files[p] \in Entry
  BY Working DEF Tear, OnCourse, Tracked, Manifest
<1>4. disk' \in [Path -> Object]
  BY <1>1, <1>3, OverwrittenType, WithParentsType, DirectoryType
<1> QED
  BY <1>2, <1>4, FinishKeeps

(* The steps between two loops of a command. *)
LEMMA DropKeeps ==
    ASSUME IndInv, NEW i \in Proc, Drop(i)
    PROVE  IndInv'
<1>1. PICK p \in proc[i].todo :
        Step(i, p, [proc[i].mem EXCEPT !.files[p] = IF Exists(p) THEN @ ELSE None])
  BY DEF Drop
<1>2. proc[i].at = "dropping" /\ UNCHANGED <<disk, manifest, store, clock>>
  BY DEF Drop
<1>3. /\ proc[i].mem \in Manifest /\ Blobs(proc[i].mem) \subseteq store
      /\ disk \in [Path -> Object] /\ store \subseteq Content /\ p \in Path
  BY <1>2, Working DEF OnCourse, Tracked
<1>4. PICK m : m = [proc[i].mem EXCEPT !.files[p] = IF Exists(p) THEN @ ELSE None]
  OBVIOUS
<1>5. /\ m \in Manifest
      /\ \A q \in Path : m.files[q] \in {proc[i].mem.files[q], None}
      /\ \A q \in Path \ {p} : m.files[q] = proc[i].mem.files[q]
  BY <1>3, <1>4 DEF Manifest
<1>6. Blobs(m) \subseteq store
  BY <1>3, <1>5, Fewer
<1> QED
  BY <1>1, <1>2, <1>3, <1>4, <1>5, <1>6, StepKeeps

LEMMA EndWalkKeeps ==
    ASSUME IndInv, NEW i \in Proc, EndWalk(i) \/ EndDrop(i)
    PROVE  IndInv'
<1>1. PICK at, todo :
        /\ \/ at = "dropping" /\ todo = Below[proc[i].arg] \cap Tracked(proc[i].mem)
           \/ at = "rehashing" /\ todo = Below[proc[i].arg] \cap TrackedFiles(proc[i].mem)
        /\ proc' = [proc EXCEPT ![i].at = at, ![i].todo = todo]
  BY DEF EndWalk, EndDrop
<1>2. proc[i].at \in {"walking", "dropping"} /\ UNCHANGED <<disk, manifest, store, clock>>
  BY DEF EndWalk, EndDrop
<1>3. /\ proc[i] \in Process /\ proc[i].mem \in Manifest
      /\ Blobs(proc[i].mem) \subseteq store
      /\ disk \in [Path -> Object] /\ store \subseteq Content /\ clock \in Time
      /\ manifest \in Manifest
  BY <1>2, Working
<1>4. /\ todo \subseteq Path /\ at \in {"dropping", "rehashing"}
      /\ at = "dropping" => todo \subseteq Tracked(proc[i].mem)
      /\ at = "rehashing" => todo \subseteq TrackedFiles(proc[i].mem)
  BY <1>1 DEF TrackedFiles, Tracked
<1>5. /\ proc' = [proc EXCEPT ![i] = proc'[i]]
      /\ proc'[i] = [proc[i] EXCEPT !.at = at, !.todo = todo]
  BY <1>1 DEF IndInv, TypeOK
<1>6. /\ proc'[i] \in Process
      /\ proc'[i].at = at /\ proc'[i].mem = proc[i].mem /\ proc'[i].todo = todo
  BY <1>3, <1>4, <1>5 DEF Process
<1>7. OnCourse(proc'[i], manifest, store)
  BY <1>1, <1>3, <1>4, <1>6 DEF OnCourse
<1> QED
  BY <1>2, <1>3, <1>5, <1>6, <1>7, ProcessKeeps DEF IndInv, Complete

LEMMA WalkDownKeeps ==
    ASSUME IndInv, NEW i \in Proc, WalkDown(i)
    PROVE  IndInv'
<1>1. PICK todo : todo = Untracked(proc[i].arg, proc[i].mem)
  OBVIOUS
<1>2. /\ proc[i].at = "replaying" /\ UNCHANGED <<disk, manifest, store, clock>>
      /\ proc' = [proc EXCEPT ![i].at = "deleting", ![i].todo = todo]
  BY <1>1 DEF WalkDown
<1>3. /\ proc[i] \in Process /\ proc[i].mem \in Manifest
      /\ Blobs(proc[i].mem) \subseteq store
      /\ disk \in [Path -> Object] /\ store \subseteq Content /\ clock \in Time
      /\ manifest \in Manifest
  BY <1>2, Working
<1>4. todo \subseteq Path
  <2>1. proc[i].arg \in Path
    BY <1>2, Working DEF OnCourse
  <2> QED
    BY <1>1, <2>1, BelowAssumption DEF Untracked, Walk
<1>5. /\ proc' = [proc EXCEPT ![i] = proc'[i]]
      /\ proc'[i] = [proc[i] EXCEPT !.at = "deleting", !.todo = todo]
  BY <1>2 DEF IndInv, TypeOK
<1>6. /\ proc'[i] \in Process
      /\ proc'[i].at = "deleting" /\ proc'[i].mem = proc[i].mem /\ proc'[i].todo = todo
  BY <1>3, <1>4, <1>5 DEF Process
<1>7. OnCourse(proc'[i], manifest, store)
  BY <1>3, <1>4, <1>6 DEF OnCourse
<1> QED
  BY <1>2, <1>3, <1>5, <1>6, <1>7, ProcessKeeps DEF IndInv, Complete

LEMMA ListBlobsKeeps ==
    ASSUME IndInv, NEW i \in Proc, ListBlobs(i)
    PROVE  IndInv'
<1>1. PICK todo : todo = Orphans(proc[i].mem)
  OBVIOUS
<1>2. /\ proc[i].at = "listing" /\ UNCHANGED <<disk, manifest, store, clock>>
      /\ proc' = [proc EXCEPT ![i].at = "pruning", ![i].todo = todo]
  BY <1>1 DEF ListBlobs
<1>3. /\ proc[i] \in Process /\ proc[i].mem = manifest
      /\ Blobs(manifest) \subseteq store /\ "prune" \in Commands
      /\ disk \in [Path -> Object] /\ store \subseteq Content /\ clock \in Time
      /\ manifest \in Manifest
  BY <1>2, Working DEF OnCourse
<1>4. todo \subseteq Content /\ todo \cap Blobs(manifest) = {}
  BY <1>1, <1>3 DEF Orphans
<1>5. /\ proc' = [proc EXCEPT ![i] = proc'[i]]
      /\ proc'[i] = [proc[i] EXCEPT !.at = "pruning", !.todo = todo]
  BY <1>2 DEF IndInv, TypeOK
<1>6. /\ proc'[i] \in Process
      /\ proc'[i].at = "pruning" /\ proc'[i].mem = manifest /\ proc'[i].todo = todo
  BY <1>3, <1>4, <1>5 DEF Process
<1>7. OnCourse(proc'[i], manifest, store)
  BY <1>3, <1>4, <1>6 DEF OnCourse
<1> QED
  BY <1>2, <1>3, <1>5, <1>6, <1>7, ProcessKeeps

(* What prune deletes, no entry names: the manifest is still the one it    *)
(* loaded.                                                                 *)
LEMMA DeleteBlobKeeps ==
    ASSUME PruneAlone, IndInv, NEW i \in Proc, DeleteBlob(i)
    PROVE  IndInv'
<1>1. PICK h \in proc[i].todo \cap store :
        store' = store \ {h} /\ Step(i, h, proc[i].mem)
  BY DEF DeleteBlob
<1>2. proc[i].at = "pruning" /\ UNCHANGED <<disk, manifest, clock>>
  BY DEF DeleteBlob
<1>3. /\ proc[i] \in Process /\ proc[i].mem = manifest
      /\ Blobs(manifest) \subseteq store /\ "prune" \in Commands
      /\ proc[i].todo \cap Blobs(manifest) = {}
      /\ disk \in [Path -> Object] /\ store \subseteq Content /\ clock \in Time
      /\ manifest \in Manifest
  BY <1>2, Working DEF OnCourse
<1>4. Blobs(manifest) \subseteq store'
  BY <1>1, <1>3
<1>5. /\ proc' = [proc EXCEPT ![i] = proc'[i]]
      /\ proc'[i] = [proc[i] EXCEPT !.todo = @ \ {h}, !.mem = manifest]
  BY <1>1, <1>3 DEF Step, IndInv, TypeOK
<1>6. /\ proc'[i] \in Process
      /\ proc'[i].at = "pruning" /\ proc'[i].mem = manifest
      /\ proc'[i].todo = proc[i].todo \ {h}
  BY <1>2, <1>3, <1>5 DEF Process
<1>7. OnCourse(proc'[i], manifest, store')
  BY <1>3, <1>4, <1>6 DEF OnCourse
<1>8. \A j \in Proc : j = i
  BY <1>3 DEF PruneAlone
<1>9. TypeOK'
  BY <1>1, <1>2, <1>3, <1>5, <1>6 DEF IndInv, TypeOK
<1>10. Complete'
  BY <1>2, <1>4 DEF Complete
<1> QED
  BY <1>2, <1>7, <1>8, <1>9, <1>10 DEF IndInv

LEMMA SaveKeeps ==
    ASSUME PruneAlone, IndInv, NEW i \in Proc, Save(i)
    PROVE  IndInv'
<1>1. /\ proc[i].at \in {"adding", "checkpointing", "rehashing", "editing"}
      /\ manifest' = proc[i].mem /\ Finish(i) /\ UNCHANGED <<disk, store, clock>>
  BY DEF Save
<1>2. /\ proc[i].mem \in Manifest /\ Blobs(proc[i].mem) \subseteq store
      /\ disk \in [Path -> Object] /\ store \subseteq Content /\ clock \in Time
  BY <1>1, Working
<1>3. proc' = [proc EXCEPT ![i] = proc'[i]] /\ proc'[i] = Idle
  BY <1>1 DEF Finish, IndInv, TypeOK
<1>4. OnCourse(Idle, manifest', store')
  BY DEF OnCourse, Idle
<1>5. ASSUME NEW j \in Proc \ {i} PROVE proc[j].at \notin {"listing", "pruning"}
  <2>1. "prune" \notin Commands
    BY DEF PruneAlone
  <2> QED
    BY <2>1 DEF IndInv, OnCourse
<1> QED
  BY <1>1, <1>2, <1>3, <1>4, <1>5, IdleType, ProcessKeeps

-----------------------------------------------------------------------------
(* Any step. *)

LEMMA WorksKeep ==
    ASSUME PruneAlone, IndInv, NEW i \in Proc, Works(i) \/ Stop(i)
    PROVE  IndInv'
<1>1. CASE EndRestore(i) \/ CleanUp(i) \/ EndPrune(i) \/ Stop(i)
  BY <1>1, EndsKeep
<1>2. CASE AddEntry(i) \/ CheckpointEntry(i) \/ Rehash(i)
  BY <1>2, AddEntryKeeps, CheckpointEntryKeeps, RehashKeeps
<1>3. CASE RestoreEntry(i) \/ Replay(i) \/ Delete(i)
  BY <1>3, RestoreEntryKeeps, ReplayKeeps, DeleteKeeps
<1>4. CASE EndWalk(i) \/ Drop(i) \/ EndDrop(i) \/ WalkDown(i) \/ ListBlobs(i)
  BY <1>4, DropKeeps, EndWalkKeeps, WalkDownKeeps, ListBlobsKeeps
<1>5. CASE DeleteBlob(i) \/ Save(i)
  BY <1>5, DeleteBlobKeeps, SaveKeeps
<1>6. CASE Tear(i)
  BY <1>6, TearKeeps
<1> QED
  BY <1>1, <1>2, <1>3, <1>4, <1>5, <1>6 DEF Works

LEMMA StutterKeeps ==
    ASSUME IndInv, UNCHANGED vars
    PROVE  IndInv'
BY DEF vars, IndInv, TypeOK, Complete

(* IndInv is inductive: a command may save only what the store can restore *)
(* (garden.go writes a blob before the entry that names it), and a prune   *)
(* works on the manifest as it is.                                         *)
THEOREM Inductive ==
    ASSUME PruneAlone
    PROVE  Spec => []IndInv
<1>1. Init => IndInv
  BY InitIndInv
<1>2. IndInv /\ [Next]_vars => IndInv'
  <2> SUFFICES ASSUME IndInv, [Next]_vars PROVE IndInv'
    OBVIOUS
  <2>1. CASE User \/ Tick
    BY <2>1, UserKeepsIndInv
  <2>2. ASSUME NEW i \in Proc, Starts(i) \/ Works(i) \/ Stop(i) PROVE IndInv'
    BY <2>2, StartsKeep, WorksKeep
  <2>3. CASE UNCHANGED vars
    BY <2>3, StutterKeeps
  <2> QED
    BY <2>1, <2>2, <2>3 DEF Next
<1> QED
  BY <1>1, <1>2, PTL DEF Spec

(* Every variable keeps its type: manifests, objects, processes and blobs  *)
(* are what garden.go, mirror.go and manifest.go build.                    *)
THEOREM TypeCorrect ==
    ASSUME PruneAlone
    PROVE  Spec => []TypeOK
<1>1. IndInv => TypeOK
  BY DEF IndInv
<1> QED
  BY <1>1, Inductive, PTL

(* Whatever is interrupted and however many processes interleave, every    *)
(* file that manifest.yaml names can be restored, as long as nothing       *)
(* prunes beside another process.                                          *)
THEOREM AlwaysComplete ==
    ASSUME PruneAlone
    PROVE  Spec => []Complete
<1>1. IndInv => Complete
  BY DEF IndInv
<1> QED
  BY <1>1, Inductive, PTL

(* Only prune makes the store smaller. *)
LEMMA OthersKeepBlobs ==
    ASSUME IndInv, [Next]_vars, ~(\E i \in Proc : DeleteBlob(i))
    PROVE  store \subseteq store'
<1>1. store \subseteq Content
  BY DEF IndInv, TypeOK
<1>2. CASE User \/ Tick \/ UNCHANGED vars
  BY <1>2 DEF User, UserWrites, UserLinks, UserRemoves, UserMakesDirectory, Tick, vars
<1>3. ASSUME NEW i \in Proc, Starts(i) PROVE store \subseteq store'
  BY <1>3 DEF Starts, Add, Checkpoint, Restore, MirrorUp, MirrorDown, Remove, SetLocked,
              SetTargeting, Exclude, Include, Prune, Edit, Begin
<1>4. ASSUME NEW i \in Proc, AddEntry(i) \/ CheckpointEntry(i) \/ Rehash(i)
      PROVE  store \subseteq store'
  BY <1>4 DEF AddEntry, CheckpointEntry, Rehash, Stored
<1>5. ASSUME NEW i \in Proc,
             \/ RestoreEntry(i) \/ EndRestore(i) \/ Drop(i) \/ Replay(i) \/ WalkDown(i)
             \/ Delete(i) \/ CleanUp(i) \/ ListBlobs(i) \/ EndPrune(i) \/ Save(i) \/ Stop(i)
             \/ Tear(i) \/ EndWalk(i) \/ EndDrop(i)
      PROVE  store \subseteq store'
  BY <1>5 DEF RestoreEntry, EndRestore, Drop, Replay, WalkDown, Delete, CleanUp,
              ListBlobs, EndPrune, Save, Stop, Tear, EndWalk, EndDrop
<1> QED
  BY <1>2, <1>3, <1>4, <1>5 DEF Next, Works

(* prune deletes no blob that an entry names: the entries may have come    *)
(* and gone since it listed them only if another process ran.              *)
THEOREM PrunesOrphans ==
    ASSUME PruneAlone
    PROVE  Spec => PruneOrphans
<1>1. IndInv /\ [Next]_vars => [\A h \in store \ store' : h \notin Blobs(manifest)]_vars
  <2> SUFFICES ASSUME IndInv, [Next]_vars, NEW h \in store \ store'
               PROVE  h \notin Blobs(manifest)
    OBVIOUS
  <2>1. PICK i \in Proc : DeleteBlob(i)
    BY OthersKeepBlobs
  <2>2. h \in proc[i].todo /\ proc[i].at = "pruning"
    BY <2>1 DEF DeleteBlob
  <2> QED
    BY <2>2 DEF IndInv, OnCourse
<1> QED
  BY <1>1, Inductive, PTL DEF Spec, PruneOrphans
=============================================================================
