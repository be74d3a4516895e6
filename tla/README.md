# sgard in TLA+

sgard tracks dotfiles.  A *garden* is a directory with `manifest.yaml` (what is
tracked) and a content-addressed blob store; commands copy files between the
home directory and the garden, and `sgardd` keeps a garden on a server that the
machines push to and pull from.  This directory holds TLA+ specifications of
sgard, the TLC configurations that check them, and theorems with proofs for
TLAPS.  `PROJECT.json` maps every definition to the lines it models and lists the
runs, the hazards, the divergences found and the theorems.

## The system

| Component | State | Operations | Modelled in |
|---|---|---|---|
| sgardd (`server/server.go`) | the garden it serves, `pendingManifest`, `mu` | `PushManifest`, `PushBlobs`, `PullManifest`, `PullBlobs`, `Prune`, restart | `GardenSync` |
| synchronising client (`client/client.go`, `cmd/sgard/{push,pull,prune}.go`) | the local garden, the RPC it waits for | push, pull, remote prune, retry after an expired token | `GardenSync`; what arrives, in `Fleet` |
| chunk framing (`doPush`, `PushBlobs`, `PullBlobs`, `doPull`) | the blob being put together | send, receive, verify | `BlobStream` |
| garden commands (`garden/*.go`) | home directory, `manifest.yaml`, blobs, processes | add, checkpoint, restore, status, mirror up and down, remove, lock, target, exclude, include, prune | `Garden` |
| encryption (`garden/encrypt*.go`) | the slots and entries of the manifest, blobs, the unlocked DEK | encrypt init, unlock, add-fido2, remove-slot, change-passphrase, rotate-dek, and what the other commands do with encrypted entries | `Encryption` |
| authentication (`server/auth.go`, `client/auth.go`) | `authorized_keys`, `jwt.key`, the cached token | Authenticate, token checks, challenge, retry, restart | `Auth` |
| labels and tags (`garden/{targeting,identity,tags}.go`) | the tags file | tag, untag, whether an entry applies | `Fleet`; one Boolean per entry in `Garden` |
| blobs on a disk (`store/store.go`, `garden/verify.go`) | what is found under each hash | write, read, delete, verify | `Fleet`; `Garden` under interleavings |
| messages (`server/convert.go`) | | manifests to and from messages | `Fleet` |
| diff, info, list, CLI flags, TLS, FIDO2 hardware, generated code | | | not modelled, see below |

How they interact.  A client calls the server by RPC and both are gardens: the
handlers of sgardd change its manifest and store under `Server.mu`.  The commands
of one machine share the manifest, the store and the home directory with no lock
at all, and the home directory with the user.  A manifest made on one machine decides,
by its labels, what commands do on another.  Encryption lives inside the
manifest that synchronisation moves around; authentication is an interceptor in
front of every RPC and a retry around every command.

What is hard:

- A push is two RPCs and nothing is held between them: other pushes, prunes and
  restarts of sgardd come in between, and the manifest waits in one slot that all
  clients share.
- Handlers wait for a readers-writer lock and do not notice that their client has
  gone.
- Blobs and manifest are separate files: what is written first, and what a crash
  leaves behind; `os.WriteFile` truncates before it writes.
- Processes on one machine load the manifest, work for a while, and save it.
- restore decides by timestamps in whole seconds whether to ask; push and pull decide
  by the timestamp of the manifest which manifest is newer, and not every command
  that changes a manifest moves it.
- A blob is never written again while its name exists, damaged or not.
- A rotation touches every encrypted blob and every slot, and any step may fail.
- Tokens expire, keys change and clocks are off while a command runs.

The list of hazards, each at its line, is in `PROJECT.json` with the properties
that watch it.  Where the code does not prevent a hazard no property that holds can
watch it; its note names the property that is false and the configuration that shows it.

## Modules

`Manifests` is the data that travels between the machines of `GardenSync`: a manifest is
a timestamp and the set of what its entries reference.  `CompleteGarden` is the abstract
specification of what synchronisation promises to one user: a register that holds a
manifest with all of its blobs and is replaced as a whole by newer ones.

**`GardenSync`** composes sgardd with any number of machines.  An RPC is a record in
the set `calls`: on the wire, waiting for `mu`, or serving.  Each handler is split
where the code lets others in: `Arrive` (past the interceptor, queued for `mu`),
then the short handlers in one step (`PushManifest`, `Prune`: they hold `mu`
throughout), and `PushBlobs` and `PullBlobs` in one step per blob.  `PullManifest` reads under
`RLock`.  `Return` is the end of a handler: the answer reaches the client or is lost,
and Go's `RWMutex` lets the readers that wait in before the next writer
(`LetReadersIn`).  A client is a record in `cli` whose `pc` is the place in `doPush`,
`doPull` or `Prune` where it waits.  Faults are a constant: disconnects, restarts,
expired tokens (the interceptor answers `Unauthenticated`, `retryOnAuth` runs the whole
command again, once), and a disk that fails.  A disconnected client may leave its
handler behind (`live = FALSE`): it goes on and takes effect.

**`Fleet`** is what `GardenSync` leaves out of the data: several machines whose
manifests have entries with contents and targeting, a tags file each, a home directory each,
and stores in which a blob may be damaged or lost.  A command is one step, whole or cut
off midway (`Cut`; `AddFails` and `CheckpointFails` leave blobs without entries).  `Applies` are the matchers of `targeting.go`, `Converted` is
`convert.go` both ways, `Received` is `writeAndVerify`, `Verify` is the command.  `Push`
and `Pull` are the whole exchange, `PushFails` and `PullFails` what is left of one that
broke or met a bad blob.

**`Garden`** is the local garden.  A command is a process with the manifest it loaded
(`mem`), the time it read at the start (`now`) and the entries its loop has still to
visit (`todo`), in any order.  Each step handles one entry, or one path of a walk, which
reads what is there when it comes to it; `Save` replaces
`manifest.yaml`; `Stop` is an error or a kill at any point, `Tear` a kill inside
`os.WriteFile` or between the two calls of `restoreLink`.  The user writes, links and
removes files, only while no command runs or at any moment (`Patient`).  `disk` is what
`Lstat` finds; `Follow` is what `ReadFile` and `WriteFile` do with a link.
`Commands` selects which commands a run uses, so that each run can afford what
its question needs.

**`Encryption`** follows one command at a time over the slots of the manifest, the
encrypted entries and the blobs, while the user edits files at any moment; `run` is the
`Garden` in memory with its unlocked DEK.

**`Auth`** is the token of a machine and sgardd's verdict on it.  `calm`, `first` and
`signed` are history kept for the properties.

**`BlobStream`** is the sender and the receiver of one stream, for pushes and pulls
alike.

Every module has a type invariant; those of `Auth` and `BlobStream` are proved and part of
the inductive invariants, so no run repeats them.

The `MC` modules give model values, symmetry sets and constant functions.  Each module
has its proofs in a module of its own: `FleetProofs`, `EncryptionProofs`, `AuthProofs`,
`BlobStreamProofs`; `GardenSync` has two, `GardenSyncProofs` (the invariants) and
`GardenSyncStepProofs` (what a step never does, and the refinement), and so has `Garden`:
`GardenProofs` (the invariants) and `GardenStepProofs` (what the commands achieve).

## What is checked

`tlc -config <run>.cfg <module>.tla`; the constants are in the `.cfg` of the same
name.  Runs that pass:

| Run | Question | Instance |
|---|---|---|
| `sync_faults` | The manifest that is served only moves forward, what is parked is newer than it, machines have the blobs of their manifests, streams are not disturbed, and what a command told its user stays true | 2 machines that all push, pull, prune; 1 blob; times 0..2; 2 edits; disconnects, restarts, disk errors |
| `sync_one_writer` | With one machine that writes, sgardd implements `CompleteGarden` | 2 blobs; times 0..2; every fault |
| `sync_ends` | Every command ends, and a push that is reported as done has moved the server on | fairness; 2 machines that push, one that prunes; disconnects, expired tokens, one RPC that outlives its client |
| `fleet_agrees` | Manifests with one timestamp are one manifest, every machine ends up with the server's, and add, checkpoint, restore and pull touch nothing that is not meant for the machine | fairness; 2 machines told apart by a tag in another case, 1 file, 2 contents, 4 edits or stamps, commands cut off |
| `fleet_damage` | Every blob a manifest names is beside it, a damaged one goes nowhere, verify tells what restore will write, no entry gets both lists | every command of `Fleet` but init, prune at machines and server, one blob damaged or lost, 3 edits or stamps |
| `garden_home` | Every file the manifest names can be restored, prune deletes orphans only, restore overwrites nothing silently that was not recorded | one process that may be killed anywhere, 2 files, links, 2 contents, seconds 0..2, a user who edits while commands run |
| `garden_settles` | After checkpoint, or restore --force, status finds what it should; checkpoint, add and restore keep the recorded contents of what is locked | a directory with 2 files, 2 seconds |
| `garden_mirror` | After mirror up, or down, the files and their entries agree; excluded files survive, also the clean-up of directories, and are not picked up | a directory with a file and a directory with another, exclusions on any of the four |
| `enc_slots` | Every slot opens every sealed blob; a rotation leaves nothing under the old DEK; restore writes the recorded plaintext and nothing else | 2 files, 2 passphrases, 2 devices, 1 label, 2 DEKs, every command, kills, a user who edits while commands run |
| `auth_tokens` | An authorized key gets its call through, and no call is served without a recent proof of possession | 2 keys that come and go, a clock off by 2 windows, 3 signing keys, times 0..5 |
| `stream_framing` | Blobs arrive whole and in order | 0 to 4 bytes in chunks of 2, up to 3 blobs, repeated ones too |

Why the bounds are enough to be interesting.  Two machines give every race between
two RPCs and a third time lets a manifest lie strictly between two others; two
edits are needed for a manifest to go stale while it is parked.  Blobs matter only
by being present or not: one shows a lost blob, two show a push that is half done.
In `Fleet` every edit and every stamp takes a time of its own (`MaxTime`, nanoseconds in
the code): four are a file, an add, a change and a checkpoint, so that a second machine
can be behind, level and ahead; the server's garden is the oldest.  `Rotten` is what a
damaged blob may hold, other contents included; one damaged blob (`MaxDamage`) reaches
every reader of it.
One second more than an entry's gives older, equal and newer.  Two DEKs are a
rotation.  A token lives two windows and the clock runs to five, so that a token
expires, is renewed by a challenge, and expires again.  Chunks of two bytes give
empty, partial, exact, one more and double.  Two processes on one garden are left to
the proof of `AlwaysComplete` and to `garden_two.cfg`, which checks the inductive
invariant of that proof on two processes.

Several runs allow a deadlock.  The streams of `stream_framing` end or break; users and
disks whose edits are bounded stop, and nobody has to start a command.

One run is violated, a disagreement between the code and what its docs say of it
(`findings` quotes both): `says_push_installs`.  Two pushes overlap; the first stream to
end installs the other's manifest and both report success.

More configurations of the kind are kept to reproduce what else the code and its docs
disagree on.  Each states one property the module explains; TLC violates it:

| Configuration | Said at | What TLC shows |
|---|---|---|
| `says_server_complete` | `ARCHITECTURE.md:174` | a prune between the RPCs of a push deletes blobs it needs; the server serves a manifest it cannot deliver |
| `says_push_survives_restart` | `ARCHITECTURE.md:174` | sgardd restarts between the RPCs of a push; the push succeeds and installs nothing |
| `says_up_to_date` | `proto/sgard/v1/sgard.proto:70` | remove does not move the timestamp; push answers "up to date" to a garden that differs |
| `says_remove_travels` | `proto/sgard/v1/sgard.proto:70` | after remove two machines and the server stay different for good, each push and pull "up to date" |
| `says_pull_restores` | `cmd/sgard/pull.go:12` | a pull that moves no blob replaces the manifest and restores nothing |
| `says_pull_asks` | `ARCHITECTURE.md:801` | a pull that moves a blob overwrites every file that differs, whatever its time |
| `says_mirror_unlocks` | `ARCHITECTURE.md:505` | mirror up stores the plaintext of an encrypted file as its blob, which no slot opens |
| `says_pull_keeps` | `client/client.go:188` | pull replaces a newer garden that has no files |
| `says_restore_asks` | `ARCHITECTURE.md:801` | restore writes through a link without asking |
| `says_locked_skipped` | `ARCHITECTURE.md:814` | checkpoint records the mode of a locked file |
| `says_locked_authoritative` | `ARCHITECTURE.md:810` | mirror up records the contents of a locked file |
| `says_add_updates_locked` | `README.md:105` | add of a locked, tracked file does nothing |
| `says_elsewhere_untouched` | `README.md:124` | mirror down writes entries of other machines |
| `says_mirror_up_syncs` | `garden/mirror.go:10` | mirror up does not see a changed link |
| `says_mirror_down_exact` (`MirrorDownRestores`) | `garden/mirror.go:109` | mirror down removes a tracked, empty directory |
| `says_excluded_untracked` | `ARCHITECTURE.md:787` | add of an excluded path that is named tracks it |
| `says_exclude_untracks` | `garden/exclude.go:9` | a second exclude of a path leaves it tracked |
| `says_prune_orphans` | `garden/prune.go:5` | prune with a stale manifest deletes the blobs of a concurrent add |
| `says_last_slot_stays` | `garden/encrypt.go:138` | a rotation without its device drops the last slot |
| `says_rotation_keeps_keks` | `garden/encrypt.go:216` | a mistyped passphrase becomes the passphrase |
| `says_unknown_key_reauthenticates` | `ARCHITECTURE.md:234` | the token of a key that is no longer known is refused without a retry |

### Fairness

`sync_ends` and `fleet_agrees` assume some.  In `GardenSync`, handlers that can take the
lock again and again get it
(strong fairness of `Handle`, per client: Go's mutex goes into a starvation mode that
hands over in order, and `RWMutex` hands over to the readers that wait); requests on
the wire arrive, streams move on or fail, and a client process that can act acts
(weak fairness): gRPC's keepalive ends a stream whose peer is gone.  Nothing is assumed of the
users: no command has to be started.  A client that is alive but never reads keeps
`mu` for as long as it likes; the fairness of `Transfer` excludes it, the hazard list
has it.

`Converges` in `Fleet` is about users who do come back: weak fairness of `Push` and
`Pull` says that a machine that stays ahead of the server, or behind it, is synchronised in
the end by a command that is not cut off.  No other command has to be run, and edits are
finite.  Convergence is what the code then has to do on its own: that the comparison of
timestamps leaves no two machines each thinking they are done.  It is false once remove
or target run, which leave the timestamp alone (`says_remove_travels.cfg`).

## What is proved

Each set of theorems holds for every value of the constants that satisfies the named
`ASSUME`s of the module: any number of machines, files, blobs, processes, keys, times.
Further assumptions are in the theorem.

### Synchronisation

`GardenSyncProofs` proves, under every combination of faults:

- `TypeCorrect`, `PendingStaysNewer` (the parked manifest is newer than the served
  one), `GardensComplete` (no machine has a manifest without its blobs),
  `PushesReadable` (a push finds the blobs it was asked for), `RejectedStayBehind`
  (what a command reported stays true), and
- `LastTimestampWins`, the action property that the manifest served is replaced
  only by a newer one.

The argument is one inductive invariant, `IndInv`.  The properties are not inductive
by themselves: that a machine has its blobs after a pull depends on
`PullBringsAll` (whatever the manifest being pulled needs is here, or is asked for in the
one PullBlobs under way), which depends on `LiveCalls` (a client waits for
one RPC, the one its `pc` names).  That a parked manifest is newer than the one
served needs only that the server compares when it parks and that `ApplyPending`
empties the slot.  `PushCarriesLocal` ties the request to the
local manifest, so that a rejection speaks of it.  Lemmas say what `Return` and
`Rest` leave of the other calls (`ReturnType`, `RestSame`, `RestOnce`); every action
then preserves `IndInv` by one of a few frame lemmas (`MoveOn`, `ReturnKeeps`,
`TurnKeeps`, `IdleKeeps`) or by a lemma of its own.

`GardenSyncStepProofs` proves the action properties:

- `StreamsAreSafe`: nothing a stream depends on is deleted while it is served.  This is
  the lock: `Prune` finds no handler serving.
- `PullsGoForward`: a pull that says "pulled" replaced an empty garden or an older one.
- `PushesAdvance`: a push that says "pushed" has moved the server past the manifest it was
  compared with, if sgardd was not restarted.

`Turns` says in eight alternatives what any step does to the command of a client; the
two last theorems follow from it and `StepInv`: the manifest that is about to replace a
garden is newer than it (`PullAhead`; the comparison was made an RPC earlier), and
while a client streams, what it has pushed waits, or has given way to something newer
(`ParkedOrPast`).  A restart forgets what waits, and `says_push_survives_restart.cfg`
shows the rest.

It also proves, for `SoleWriter(w)` (at most the machine w pushes and prunes, any
number pull, no RPC outlives its client) and every fault:

- `ServerStaysComplete`: the server has every blob of the manifest it serves;
- `Implements`: `GardenSync` implements `CompleteGarden`.

The invariant, `OneWriter`, is that there is at most one RPC that writes, and that while it
streams, what the parked manifest names is in the store or still to come (`Filling`).
A failed stream leaves a parked manifest whose blobs may be incomplete: the next
PushManifest of the same machine replaces it before the next stream can end.  Without the
assumption both theorems are false: `says_server_complete.cfg` needs a second machine
that prunes, and a handler that outlives its client is a second writer.

### Machines that share a manifest

`FleetProofs`:

- `TypeCorrect`, and `NeverConflicting`: no entry gets both lists of labels;
- `AlwaysBacked`: every blob a manifest names is in the store beside it, on machines and
  server, unless that disk lost it;
- `DamageNeverTravels`: a damaged blob reaches no other site.  `store.Write` names what it
  stores by its contents, so what arrives under a wrong name is stored under its own;
- `VerifyTells`: where verify reports nothing, what is restored is what was recorded;
- `OthersUntouched`: the commands of `Fleet` (no mirror up, no mirror down) write and record
  only what is meant for the machine;
- `TimesNameManifests`: sites that agree on `Updated` agree on every entry, as long as
  no command runs that leaves `Updated` alone (`AllStamp`: neither remove nor target).

The last needs a strengthening: no timestamp is ahead of the clock, so that a new
stamp is new everywhere.  The others are inductive with `TypeOK`, or follow from it in one
step.

### A local garden

`GardenProofs` proves, for every home directory, contents, modes, commands, users and clock:

- `TypeCorrect`;
- `AlwaysComplete`: every file that `manifest.yaml` names has its blob, whatever is killed
  and however any number of processes interleave;
- `PrunesOrphans`: prune deletes no blob an entry names, unless it runs beside another process.

All three assume `PruneAlone`: if prune is among the commands there is one process.
Without it they are false (`says_prune_orphans.cfg`): a prune keeps what
the manifest it loaded names, and another process may save one that names more.  With it,
losing the race to save loses updates but never a blob.  The
inductive invariant adds to `Complete` what each process carries (`OnCourse`):
the manifest a command works on, and may save at any later time, names blobs the
store has; the entries a loop has still to visit are in that manifest; a prune holds the
manifest as it is and its list spares what that names.  `SetEntry` and `Fewer` say what an
edit does to the blobs a manifest names.  `ProcessKeeps` is the frame of every step of one
process; `BeginKeeps`, `StepKeeps`, `RecordKeeps` and `FinishKeeps` are its instances
for a start, an iteration and an end, and each action has a lemma that cites one of them.

`GardenStepProofs` proves what the commands achieve.  With any number of processes
(`PruneAlone` again, for `IndInv`):

- `EntriesDated`: no entry is from the future, and a file older than its entry contains
  what the entry names;
- `RestoresQuietly`: restore without `--force` writes over no file whose contents its entry
  does not name, if the user never agrees (`TRUE \notin Answers`).

The second follows from the first.  restore compares seconds, and takes a file that is older
than its entry without asking; that this loses nothing is because nobody backdates a file
(`Moved`, for every action) and every stamp an entry gets is of a time when its file was read.

For one process at a time (`Alone`; two that save lose each other's updates), with the user
free to edit at every step and commands killed anywhere:

- `LocksKept`: the contents of a locked entry stay, unless mirror up is among the commands
  (`says_locked_authoritative.cfg` has the mirror up that changes them);
- `ExclusionsHold`, `ExcludedStays`: add and mirror up track nothing excluded but the path add
  is given, and mirror down deletes nothing excluded.

They rest on `Course`: what the manifest in the memory of a command has to do with
`manifest.yaml`.  Each phase of each command (`InPhase`) says which manifest the command
began with and what it may have changed (`Faithful`).  `Begun` and `StepIs` are what starts
and steps do to a process; `Turns` brings all steps into these two forms.

For one process whose user waits until it has ended (`Patient`):

- `CheckpointsSettle`: after checkpoint status finds what was recorded, links included, of
  all that is there; a locked entry may be reported;
- `RestoresSettle`: after `restore --force` of everything status has nothing to report,
  whatever was in the home directory before;
- `MirrorsUp`: after mirror up the entries under the directory are the files in it that no
  exclusion covers, with the contents on disk, and nothing that is gone;
- `MirrorsDown`: after `mirror down --force` the files in the directory are the entries
  under it, with their contents, and what an exclusion covers.

Each has an invariant of the loop, over the entries it has visited and those in `todo`:
`AllChecked`, `AllSettled`, `AllMirroredUp`, `AllMirroredDown`.  `NobodyElse` says that
nothing but the command moves meanwhile.  `Shaped`, that paths below others are below
directories, and files and links are not above any, is what lets a restore make the
directories of a file and tells mirror up which of the paths it walks may be entries.
The last three are for a home directory without symbolic links (`Targets = {}`): a write
through a link changes a file that has been visited already, and mirror up does not look
again at what a tracked link points to.  `MirrorsDown` is about
files, however deep: a directory that is tracked and empty is deleted by the clean-up
(`says_mirror_down_exact.cfg`).

`CheckpointSettles` lets a locked entry be reported as "drifted" or, a link, as
"modified": status asks for the lock of files only (`garden.go`, `Status`).

### Encryption

`EncryptionProofs`, for any number of files, passphrases, devices, labels and rotations:

- `TypeCorrect`;
- `SlotsOpen`: every slot of the manifest opens every sealed blob, to the plaintext
  recorded for it, wherever a rotation or another command was killed;
- `RotationReplaces`: a rotation that saves leaves no slot and no entry under the old DEK;
- `RestoresWhatWasSealed`: restore writes nothing to an encrypted file but the recorded
  plaintext.

The inductive invariant says of the manifest on disk that all its slots wrap one DEK and
that its encrypted entries are sealed under it and `Held` by the store, and of the
command under way (`RunOK`) that the manifest in its memory is the same but for what it has
done: `Under` one DEK, which it has in hand, or, in the middle of a rotation, under the
new DEK wherever it has been and with every slot still under the old.  Nothing is saved in the
middle, which is why a kill is harmless.

### Authentication

`AuthProofs`:

- `TypeCorrect`;
- `ProofsAreRecent`: no call is served without a proof of possession made within a
  token's life and the window of a signature;
- `AuthorizedGetThrough`: the call of an authorized key is served at the first try or by the
  retry, if nothing changed meanwhile and the machine's clock is not off, or there is a
  token to renew by challenge.

`Proven` bounds the life of every token there is, by when the proof behind it was made;
`Undisturbed` is what an undisturbed process holds at each place: the token it began with,
then, if that was refused, one that sgardd has just issued (`Fresh`).  Tokens live at
least one unit of time (`TimesAssumption`), or a fresh one would have expired.

### The stream

`BlobStreamProofs`, for every list of blobs, of every size, and every size of a chunk:

- `TypeCorrect`, `WritesInOrder` (what has been written is a prefix of what was asked for,
  wherever the stream breaks), `NeverMismatches`, `DeliversAll`.

The invariant `InStep` says that there are places in the stream, one for each chunk under
way and one more, that each follows on the one before (`Succ`), that the chunks are
those sent from them (`From`), that the sender is at the last and that the receiver has
`Reached` the first: the blobs before it are written, but for the one in the buffer.
`TakenIn` is the step of the receiver, `ChunkIs` that a chunk put after what came before
is a longer prefix of the blob.  Stated as the existence of the places, the
invariant needs no induction over the chunks.

### Only model-checked

Liveness, `Terminates` and `Converges`: fairness and `ENABLED` are beyond the prover.
Every invariant and every action property of a passing run has a theorem.  Those of
`Garden` about what a command achieves are proved under the assumptions above and checked
under those of the runs.

## Abstractions

- `GardenSync`: hashes stand for contents; equal requests of clients that are gone are one
  member of `calls`; the edits of a
  manifest (`MaxEdits`) and RPCs without a client (`MaxLate`) are bounded; one sgard
  process per garden at a time.
- `Fleet`: a command is one step; whether restore without force takes an existing file is
  left open; regular files only, no locks, no encryption, no exclusions, and neither mirror up
  nor mirror down, which take no notice of targeting (`says_elsewhere_untouched.cfg`).  A hash is identified
  with its contents: what is found under it may differ.  No two stamps are of the same nanosecond.
- `Garden`: nothing but a kill happens between the `Lstat` of an entry
  and the write of its file, or between the two calls of `restoreLink`; a process that
  reads sees whole files; which paths are directories and which are files or links does not
  change; one machine, whose
  labels are whether an entry applies; the user's time stamps are the clock.
- `Encryption`: ciphers are perfect, the nonces that tell equal contents apart are
  left out, one command runs at a time; which devices answer while a rotation re-wraps the
  slots is one choice, made slot by slot in the code.
- `Auth`: signatures are perfect and time is whole units of the window.

Not modelled: the fields of entries that `convert.go` copies and no property tells apart;
diff, info and list, which change nothing and decide nothing; how a client finds its SSH
key; flags and configuration, TLS, libfido2, generated code.

## Plan

1. Slots and rotations across machines, in `Fleet` or beside it.  None of the slot commands
   moves `Updated`, so a push after them is "up to date" (`ARCHITECTURE.md:566` expects
   them to be synchronised).
2. The garden theorems with links whose targets are tracked, and paths that are now a
   directory and now a file.
3. `GardenSync` with a writer whose RPCs may outlive it: what weaker register than
   `CompleteGarden` it still implements.
