-------------------------------- MODULE Fleet -------------------------------
(***************************************************************************)
(* Several machines that share their files through one server: what init,  *)
(* add, checkpoint, remove, target, tag, restore, verify, prune, push and  *)
(* pull do to a machine's manifest, blobs, tags and home directory         *)
(* (cmd/sgard, garden), what travels (server/convert.go), and what becomes *)
(* of blobs that are damaged on a disk (store, verify).                    *)
(*                                                                         *)
(* A command is one step here: Garden has the interleavings of the         *)
(* commands of one machine, and mirror, exclude and lock, which are not    *)
(* here; GardenSync has those of the calls on the server, Encryption the   *)
(* keys.  A hash is identified with the contents it stands for, so a store *)
(* maps each name to the bytes found under it.  Only regular files are     *)
(* here; whether a restore without --force takes a file that exists, which *)
(* depends on timestamps and on the user, is left open.                    *)
(***************************************************************************)
EXTENDS Integers, FiniteSets

CONSTANTS
    Machine, Server,
    File,       \* the paths that are tracked
    Data,       \* contents, and so the names of blobs
    Written,    \* the contents users give their files
    Rotten,     \* what a damaged blob may contain
    Label,      \* labels of machines, in upper and lower case
    Lower,      \* Lower[l]: l in lower case
    Own,        \* Own[m]: the labels of m that are not tags: host, os, arch
    Tag,        \* the labels users give as tags
    Choices,    \* the sets of labels users give --only and --never
    Commands,   \* the commands that are run
    Cut,        \* whether a command may be cut off midway
    MaxTime,    \* bound: edits and timestamps
    MaxDamage,  \* bound: blobs damaged or lost
    None

Site == Machine \cup {Server}

ASSUME SiteAssumption == Server \notin Machine
ASSUME DataAssumption == Written \subseteq Data /\ Rotten \subseteq Data
ASSUME LabelAssumption ==
    /\ Lower \in [Label -> Label] /\ Own \in [Machine -> SUBSET Label]
    /\ Tag \subseteq Label /\ Choices \subseteq SUBSET Label /\ {} \notin Choices
ASSUME BoundAssumption == MaxTime \in Nat /\ MaxDamage \in Nat
ASSUME CutAssumption == Cut \in BOOLEAN

VARIABLES
    home,      \* the files of each machine
    tags,      \* <repo>/tags of each machine
    manifest,  \* manifest.yaml of each site, None before init
    store,     \* store[s][h]: the bytes under the name h at s
    damaged,   \* the blobs that were damaged or lost on disk, wherever
    clock      \* no two edits or timestamps are of the same nanosecond

vars == <<home, tags, manifest, store, damaged, clock>>

-----------------------------------------------------------------------------
Time == 0 .. MaxTime

Targeting == [only : SUBSET Label, never : SUBSET Label]
Everywhere == [only |-> {}, never |-> {}]

Entry == [data : Data, only : SUBSET Label, never : SUBSET Label]

Manifest == [updated : Time, files : [File -> Entry \cup {None}]]

ASSUME NoneAssumption == None \notin Data /\ None \notin Manifest

(* manifest.NewWithTime *)
New(t) == [updated |-> t, files |-> [f \in File |-> None]]

Tracked(n) == {f \in File : n.files[f] # None}

Blobs(n) == {n.files[f].data : f \in Tracked(n)}

NoBlobs == [h \in Data |-> None]

Present(blobs) == {h \in Data : blobs[h] # None}

Sound(blobs) == {h \in Data : blobs[h] = h}

Init ==
    /\ home = [m \in Machine |-> [f \in File |-> None]]
    /\ tags = [m \in Machine |-> {}]
    /\ manifest = [s \in Site |-> IF s = Server THEN New(0) ELSE None]
    /\ store = [s \in Site |-> NoBlobs]
    /\ damaged = {}
    /\ clock = 0

(* The time of this step, which passes. *)
Now == clock + 1
Passes == clock < MaxTime /\ clock' = Now

-----------------------------------------------------------------------------
(* Labels. *)

Identity(m) == Own[m] \cup tags[m]

(* Mutant of Matches: matchers are compared as they are written. *)
MatchesExactly(matchers, m) == matchers \cap Identity(m) # {}

Matches(matchers, m) ==
    \E x \in matchers, l \in Identity(m) : Lower[x] = Lower[l]

(* With both only and never set it is an error. *)
Applies(e, m) ==
    IF e.only # {} THEN Matches(e.only, m) ELSE ~Matches(e.never, m)

Conflicting(n) == \E f \in Tracked(n) : n.files[f].only # {} /\ n.files[f].never # {}

Applying(n, m) == {f \in Tracked(n) : Applies(n.files[f], m)}

(* The user. *)
UserWrites(m) ==
    \E f \in File, d \in Written \cup {None} :
        /\ home[m][f] # d
        /\ home' = [home EXCEPT ![m][f] = d]
        /\ Passes
        /\ UNCHANGED <<tags, manifest, store, damaged>>

(* writeTags truncates the file before it writes: a command that is cut    *)
(* off leaves some of the tags (a name cut short is nobody's label).       *)
WriteTags(m, all) ==
    /\ \E left \in SUBSET all :
        /\ left = all \/ Cut
        /\ tags' = [tags EXCEPT ![m] = left]
    /\ UNCHANGED <<home, manifest, store, damaged, clock>>

SaveTag(m) ==
    /\ "tag" \in Commands /\ manifest[m] # None
    /\ \E t \in Tag \ tags[m] : WriteTags(m, tags[m] \cup {t})

RemoveTag(m) ==
    /\ "tag" \in Commands /\ manifest[m] # None
    /\ \E t \in Tag : WriteTags(m, tags[m] \ {t})

-----------------------------------------------------------------------------
(* The blobs of a site. *)

(* store.Write of each of the contents: a name that exists is left alone.  *)
Wrote(blobs, contents) ==
    [h \in Data |-> IF h \in contents /\ blobs[h] = None THEN h ELSE blobs[h]]

(* A disk damages a blob or loses it. *)
Rot(s) ==
    \E h \in Present(store[s]), d \in Rotten \cup {None} :
        /\ Cardinality(damaged) < MaxDamage /\ d # store[s][h]
        /\ store' = [store EXCEPT ![s][h] = d]
        /\ damaged' = damaged \cup {<<s, h>>}
        /\ UNCHANGED <<home, tags, manifest, clock>>

Deleted(blobs, hashes) == [h \in Data |-> IF h \in hashes THEN None ELSE blobs[h]]

(* prune, and prune --remote at the server. *)
Prune(s) ==
    /\ "prune" \in Commands /\ manifest[s] # None
    /\ LET orphans == Present(store[s]) \ Blobs(manifest[s])
       IN  \E gone \in SUBSET orphans :
            /\ gone = orphans \/ Cut
            /\ store' = [store EXCEPT ![s] = Deleted(@, gone)]
    /\ UNCHANGED <<home, tags, manifest, damaged, clock>>

(* Mutant of Verify: a blob that is there is taken to be good. *)
VerifyPresence(m, f) ==
    IF store[m][manifest[m].files[f].data] = None THEN "missing" ELSE "ok"

(* What verify says of a tracked file. *)
Verify(m, f) ==
    LET hash == manifest[m].files[f].data
    IN  CASE store[m][hash] = None -> "missing"
          [] store[m][hash] = hash -> "ok"
          [] OTHER -> "mismatch"

-----------------------------------------------------------------------------
(* The commands that change one machine. *)

(* garden.Init *)
InitGarden(m) ==
    /\ "init" \in Commands /\ manifest[m] = None
    /\ manifest' = [manifest EXCEPT ![m] = New(Now)]
    /\ Passes
    /\ UNCHANGED <<home, tags, store, damaged>>

(* The targetings the command line accepts: it refuses both at once. *)
Targetings ==
    {Everywhere} \cup {[Everywhere EXCEPT !.only = c] : c \in Choices}
                 \cup {[Everywhere EXCEPT !.never = c] : c \in Choices}

(* n with an entry for f: a path that is tracked is skipped, wherever it   *)
(* applies.                                                                *)
Added(n, f, e) ==
    [updated |-> Now,
     files |-> IF f \in Tracked(n) THEN n.files ELSE [n.files EXCEPT ![f] = e]]

Add(m) ==
    /\ "add" \in Commands /\ manifest[m] # None
    /\ \E f \in File, t \in Targetings :
        LET n == manifest[m]
            d == home[m][f]
            e == [data |-> d, only |-> t.only, never |-> t.never]
        IN  /\ d # None
            /\ manifest' = [manifest EXCEPT ![m] = Added(n, f, e)]
            /\ store' = [store EXCEPT ![m] = Wrote(@, IF f \in Tracked(n) THEN {} ELSE {d})]
    /\ Passes
    /\ UNCHANGED <<home, tags, damaged>>

(* add is cut off: the blob is there and the entry is not. *)
AddFails(m) ==
    /\ "add" \in Commands /\ manifest[m] # None /\ Cut
    /\ \E f \in File \ Tracked(manifest[m]) :
        /\ home[m][f] # None
        /\ store' = [store EXCEPT ![m] = Wrote(@, {home[m][f]})]
    /\ UNCHANGED <<home, tags, manifest, damaged, clock>>

(* Mutant of Stamp: Manifest.Updated is left as it was. *)
StampKept(n) == n.updated

(* Manifest.Updated after a checkpoint of n. *)
Stamp(n) == Now

(* Mutant of Found: a file that is missing is not skipped. *)
FoundMissing(n, m) == Applying(n, m)

(* What a checkpoint of n records. *)
Found(n, m) == {f \in Applying(n, m) : home[m][f] # None}

Checkpointed(n, m) ==
    [updated |-> Stamp(n),
     files |-> [f \in File |-> IF f \in Found(n, m) THEN [n.files[f] EXCEPT !.data = home[m][f]]
                               ELSE n.files[f]]]

Checkpoint(m) ==
    /\ "checkpoint" \in Commands /\ manifest[m] # None /\ ~Conflicting(manifest[m])
    /\ manifest' = [manifest EXCEPT ![m] = Checkpointed(@, m)]
    /\ store' = [store EXCEPT ![m] = Wrote(@, {home[m][f] : f \in Found(manifest[m], m)})]
    /\ Passes
    /\ UNCHANGED <<home, tags, damaged>>

(* checkpoint is cut off, or ends at an entry it refuses: some blobs are   *)
(* there.                                                                  *)
CheckpointFails(m) ==
    /\ "checkpoint" \in Commands /\ manifest[m] # None
    /\ Cut \/ Conflicting(manifest[m])
    /\ \E done \in SUBSET Found(manifest[m], m) :
        store' = [store EXCEPT ![m] = Wrote(@, {home[m][f] : f \in done})]
    /\ UNCHANGED <<home, tags, manifest, damaged, clock>>

Remove(m) ==
    /\ "remove" \in Commands /\ manifest[m] # None
    /\ \E f \in Tracked(manifest[m]) :
        manifest' = [manifest EXCEPT ![m].files[f] = None]
    /\ UNCHANGED <<home, tags, store, damaged, clock>>

(* Mutant of Retargeted: the other list stays. *)
RetargetedBoth(e, t) ==
    [e EXCEPT !.only = IF t.only = {} THEN @ ELSE t.only,
              !.never = IF t.never = {} THEN @ ELSE t.never]

(* One list replaces the other, or --clear empties both. *)
Retargeted(e, t) == [e EXCEPT !.only = t.only, !.never = t.never]

SetTargeting(m) ==
    /\ "target" \in Commands /\ manifest[m] # None
    /\ \E f \in Tracked(manifest[m]), t \in Targetings :
        manifest' = [manifest EXCEPT ![m].files[f] = Retargeted(@, t)]
    /\ UNCHANGED <<home, tags, store, damaged, clock>>

(* The home directory of m once the entries of n in done are restored from *)
(* these blobs: restoreFile does not look at what it writes.               *)
Restored(m, n, blobs, done) ==
    [f \in File |-> IF f \in done THEN blobs[n.files[f].data] ELSE home[m][f]]

(* A restore of all of n writes the files in done: with force all that     *)
(* apply, without at least those that are not there, and if it is cut off  *)
(* or a blob is missing any of them.                                       *)
MayRestore(m, n, blobs, force, done) ==
    LET all == Applying(n, m)
        readable == {f \in all : n.files[f].data \in Present(blobs)}
        must == IF force THEN all ELSE {f \in all : home[m][f] = None}
    IN  /\ done \subseteq readable
        /\ must \subseteq done \/ Cut \/ readable # all

Restore(m) ==
    /\ "restore" \in Commands /\ manifest[m] # None /\ ~Conflicting(manifest[m])
    /\ \E done \in SUBSET File, force \in BOOLEAN :
        /\ MayRestore(m, manifest[m], store[m], force, done)
        /\ home' = [home EXCEPT ![m] = Restored(m, manifest[m], store[m], done)]
    /\ UNCHANGED <<tags, manifest, store, damaged, clock>>

-----------------------------------------------------------------------------
(* What travels. *)

(* Mutant of Converted: the message has no field for never. *)
ConvertedWithoutNever(n) ==
    [n EXCEPT !.files = [f \in File |-> IF @[f] = None THEN None ELSE [@[f] EXCEPT !.never = {}]]]

(* ManifestToProto, then ProtoToManifest. *)
Converted(n) ==
    LET ConvertedEntry(e) == [data |-> e.data, only |-> e.only, never |-> e.never]
    IN  [updated |-> n.updated,
         files |-> [f \in File |-> IF n.files[f] = None THEN None
                                   ELSE ConvertedEntry(n.files[f])]]

(* Mutant of Received: the bytes are stored under the name that was sent.  *)
ReceivedUnchecked(to, from, sent) ==
    [h \in Data |-> IF h \in sent /\ to[h] = None THEN from[h] ELSE to[h]]

(* writeAndVerify of the blobs that were sent: store.Write names them      *)
(* again by their contents.                                                *)
Received(to, from, sent) == Wrote(to, {from[h] : h \in sent})

Missing(n, blobs) == Blobs(n) \ Present(blobs)

(* The sender reads each blob as it sends it and the receiver checks each  *)
(* as it writes it: a transfer ends with the first that is missing or      *)
(* damaged, or where it is cut off.                                        *)
Sent(from, wanted, sent) ==
    /\ sent \subseteq wanted \cap Present(from)
    /\ Cardinality(sent \ Sound(from)) <= 1

(* Mutant of Arrived: the hashes are not compared. *)
ArrivedPresent(from, wanted, sent) == sent = wanted

(* All that was wanted arrived as it should. *)
Arrived(from, wanted, sent) == sent = wanted /\ sent \subseteq Sound(from)

Newer(a, b) == a.updated > b.updated

(* push: PushManifest and PushBlobs of m.  installed: nothing went wrong.  *)
PushTo(m, installed) ==
    LET n == manifest[m]
        wanted == Missing(n, store[Server])
    IN  \E sent \in SUBSET wanted :
        /\ Sent(store[m], wanted, sent)
        /\ installed => Arrived(store[m], wanted, sent)
        /\ manifest' = [manifest EXCEPT ![Server] = IF installed THEN Converted(n) ELSE @]
        /\ store' = [store EXCEPT ![Server] = Received(@, store[m], sent)]

Push(m) ==
    /\ "push" \in Commands /\ manifest[m] # None
    /\ Newer(manifest[m], manifest[Server])
    /\ PushTo(m, TRUE)
    /\ UNCHANGED <<home, tags, damaged, clock>>

PushFails(m) ==
    /\ "push" \in Commands /\ manifest[m] # None
    /\ Newer(manifest[m], manifest[Server])
    /\ Cut \/ ~(Missing(manifest[m], store[Server]) \subseteq Sound(store[m]))
    /\ PushTo(m, FALSE)
    /\ UNCHANGED <<home, tags, damaged, clock>>

(* The manifest that a pull finds at m: it makes a garden if there is none. *)
Opened(m) == IF manifest[m] = None THEN New(Now) ELSE manifest[m]

(* A pull is declined when the garden has files and the server has no      *)
(* newer manifest.                                                         *)
Pulls(m) ==
    /\ "pull" \in Commands
    /\ Tracked(Opened(m)) = {} \/ Newer(manifest[Server], Opened(m))

(* The files in done are restored after a pull, by force if a blob came    *)
(* and otherwise not at all.                                               *)
AfterPull(m, n, blobs, wanted, done) ==
    IF wanted = {} \/ Conflicting(n) THEN done = {} ELSE MayRestore(m, n, blobs, TRUE, done)

(* pull: PullManifest, PullBlobs and the restore.                          *)
Pull(m) ==
    /\ Pulls(m)
    /\ LET n == Converted(manifest[Server])
           wanted == Missing(n, store[m])
           blobs == Received(store[m], store[Server], wanted)
       IN  /\ wanted \subseteq Sound(store[Server])
           /\ manifest' = [manifest EXCEPT ![m] = n]
           /\ store' = [store EXCEPT ![m] = blobs]
           /\ \E done \in SUBSET File :
                /\ AfterPull(m, n, blobs, wanted, done)
                /\ home' = [home EXCEPT ![m] = Restored(m, n, blobs, done)]
    /\ UNCHANGED <<tags, damaged, clock>>

PullFails(m) ==
    /\ Pulls(m)
    /\ LET wanted == Missing(manifest[Server], store[m])
       IN  \E sent \in SUBSET wanted :
            /\ Sent(store[Server], wanted, sent)
            /\ Cut \/ ~(wanted \subseteq Sound(store[Server]))
            /\ store' = [store EXCEPT ![m] = Received(@, store[Server], sent)]
    /\ manifest' = [manifest EXCEPT ![m] = Opened(m)]
    /\ IF manifest[m] = None THEN Passes ELSE UNCHANGED clock
    /\ UNCHANGED <<home, tags, damaged>>

-----------------------------------------------------------------------------
Runs(m) ==
    \/ SaveTag(m) \/ RemoveTag(m) \/ InitGarden(m) \/ Add(m) \/ AddFails(m)
    \/ Checkpoint(m) \/ CheckpointFails(m) \/ Remove(m) \/ SetTargeting(m) \/ Restore(m)
    \/ Push(m) \/ PushFails(m) \/ Pull(m) \/ PullFails(m)

Next ==
    \/ \E m \in Machine : UserWrites(m) \/ Runs(m)
    \/ \E s \in Site : Prune(s) \/ Rot(s)

Spec == Init /\ [][Next]_vars

(* Whoever has something to push or to pull does so in the end, and it is  *)
(* not cut off for ever.                                                   *)
FairSpec == Spec /\ \A m \in Machine : WF_vars(Push(m)) /\ WF_vars(Pull(m))

-----------------------------------------------------------------------------
(* Properties. *)

TypeOK ==
    /\ home \in [Machine -> [File -> Data \cup {None}]]
    /\ tags \in [Machine -> SUBSET Tag]
    /\ manifest \in [Site -> Manifest \cup {None}] /\ manifest[Server] # None
    /\ store \in [Site -> [Data -> Data \cup {None}]]
    /\ damaged \subseteq Site \X Data
    /\ clock \in Time

(* The blobs that a manifest names are in the store beside it, on every    *)
(* machine and on the server, unless that disk has lost them.              *)
Complete ==
    \A s \in Site : manifest[s] # None =>
        \A h \in Blobs(manifest[s]) : store[s][h] # None \/ <<s, h>> \in damaged

(* A damaged blob stays where it is: no push and no pull gives another     *)
(* site a blob that is not what its name says.                             *)
DamageStays ==
    \A s \in Site, h \in Data : store[s][h] \in {h, None} \/ <<s, h>> \in damaged

(* Where verify finds nothing to report, the files that a restore, or a    *)
(* pull, writes are as the manifest has them.                              *)
VerifiedRestores ==
    [][\A m \in Machine :
          /\ manifest'[m] # None /\ home'[m] # home[m] /\ clock' = clock
          /\ (\A f \in Tracked(manifest[m]) : Verify(m, f) = "ok")'
          => \A f \in File : home'[m][f] # home[m][f] =>
                 f \in Tracked(manifest'[m]) /\ home'[m][f] = manifest'[m].files[f].data]_vars

(* The entry is meant for m, in whatever case its labels are written. *)
MeantFor(e, m) ==
    LET InLowerCase(labels) == {Lower[l] : l \in labels}
        own == InLowerCase(Identity(m))
    IN  /\ e.only = {} \/ InLowerCase(e.only) \cap own # {}
        /\ InLowerCase(e.never) \cap own = {}

(* restore, checkpoint, add, target, remove and pull leave alone what is   *)
(* not meant for the machine: they do not write its files and do not       *)
(* record its contents; entries of other machines change by a pull alone.  *)
(* mirror up and mirror down ignore the targeting (Garden).                *)
TargetingRespected ==
    [][\A m \in Machine, f \in File :
          /\ home'[m][f] # home[m][f] /\ clock' = clock =>
                 f \in Tracked(manifest'[m]) /\ MeantFor(manifest'[m].files[f], m)
          /\ manifest[m] # None /\ manifest'[m] \notin {manifest[m], manifest[Server]} =>
                 \/ f \notin Tracked(manifest[m]) \cap Tracked(manifest'[m])
                 \/ manifest'[m].files[f].data = manifest[m].files[f].data
                 \/ MeantFor(manifest[m].files[f], m)]_vars

(* No entry has both lists, here or on any machine it travels to: the one  *)
(* that had would stop every checkpoint, restore and status there.         *)
OneTargeting == \A s \in Site : manifest[s] # None => ~Conflicting(manifest[s])

(* The time of a manifest tells which manifest it is: machines and server  *)
(* that agree on Updated agree on every entry.                             *)
SameTimeSameManifest ==
    \A s, t \in Site :
        manifest[s] # None /\ manifest[t] # None /\ manifest[s].updated = manifest[t].updated
            => manifest[s] = manifest[t]

(* Once nobody edits and everybody pushes and pulls, every machine has the *)
(* manifest of the server.                                                 *)
Converges == <>[](\A m \in Machine : manifest[m] = manifest[Server])

(* A pull that brings a newer manifest restores the files that apply.      *)
PullRestores ==
    [][\A m \in Machine :
          manifest'[m] # manifest[m] /\ manifest'[m] = manifest[Server] =>
              \A f \in Applying(manifest'[m], m) : home'[m][f] = manifest'[m].files[f].data]_vars

(* A pull overwrites no file that differs from what was recorded of it.    *)
PullAsks ==
    [][\A m \in Machine, f \in File :
          manifest[m] # None /\ manifest'[m] # manifest[m] /\ home'[m][f] # home[m][f] =>
              \/ home[m][f] = None
              \/ f \in Tracked(manifest[m]) /\ home[m][f] = manifest[m].files[f].data]_vars

(* Only the commands that move Manifest.Updated run. *)
AllStamp == Commands \cap {"remove", "target"} = {}
=============================================================================
