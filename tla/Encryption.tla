----------------------------- MODULE Encryption ----------------------------
(***************************************************************************)
(* Encrypted entries and the slots that open them: encrypt.go,             *)
(* encrypt_fido2.go, and what add, checkpoint, restore and mirror up do    *)
(* with encrypted entries.  A data encryption key (DEK) encrypts blobs;    *)
(* each slot of the manifest wraps the DEK under a key encryption key that *)
(* a passphrase or a FIDO2 device yields.  The manifest is only saved as a *)
(* whole, and a command may fail, or be killed, at any point before that.  *)
(*                                                                         *)
(* Ciphers are perfect: what was sealed under a key opens under that key   *)
(* and no other.  A blob is identified with what was sealed and the key:   *)
(* the nonces, which tell equal contents apart, are left out.  One command *)
(* runs at a time, beside a user who edits; Garden has the interleavings   *)
(* of commands.                                                            *)
(***************************************************************************)
EXTENDS Naturals, FiniteSets

CONSTANTS
    File,        \* the files that may be tracked
    Content,     \* what they may contain
    Passphrase,  \* what the user may type
    Device,      \* FIDO2 devices
    Label,       \* names of FIDO2 slots
    MaxDek,      \* bound: the DEKs that are generated
    Commands,    \* the commands that are run
    None

Dek == 1 .. MaxDek

ASSUME MaxDekAssumption == MaxDek \in Nat
ASSUME NoneAssumption == None \notin Content \cup Passphrase \cup Device \cup Dek
ASSUME KekAssumption == Passphrase \cap Device = {} /\ "passphrase" \notin Label

VARIABLES
    disk,      \* the contents of each file, None when there is none
    manifest,  \* manifest.yaml
    store,     \* the blobs
    inserted,  \* the device that is connected
    used,      \* how many DEKs have been generated
    run        \* the command under way

vars == <<disk, manifest, store, inserted, used, run>>

-----------------------------------------------------------------------------
Name == {"passphrase"} \cup Label

(* A slot: the source of its KEK and the DEK it wraps. *)
Slot == [kek : Passphrase \cup Device, dek : Dek]

(* A plaintext blob has no DEK. *)
Blob == [dek : Dek \cup {None}, data : Content]

(* blob is what Hash names, plain what PlaintextHash is the hash of. *)
Entry == [encrypted : BOOLEAN, blob : Blob, plain : Content \cup {None}]

ASSUME EntryAssumption == None \notin Entry

(* initialized tells Encryption without slots from no Encryption. *)
Manifest == [initialized : BOOLEAN, slots : [Name -> Slot \cup {None}],
             files : [File -> Entry \cup {None}]]

Slots(m) == {n \in Name : m.slots[n] # None}
Tracked(m) == {f \in File : m.files[f] # None}
Encrypted(m) == {f \in Tracked(m) : m.files[f].encrypted}

(* dek and mem are the Garden's: the DEK when it is unlocked, the manifest *)
(* in memory.  old is the DEK that a rotation replaces.                    *)
Run == [cmd : {"none", "slot", "passphrase", "rotate", "add", "checkpoint", "restore", "mirror"},
        at : {"idle", "unlocked", "reencrypting", "hashing", "restoring", "saving"},
        dek : Dek \cup {None}, old : Dek \cup {None}, mem : Manifest \cup {None},
        todo : SUBSET File]

Idle == [cmd |-> "none", at |-> "idle", dek |-> None, old |-> None, mem |-> None, todo |-> {}]

Init ==
    /\ disk = [f \in File |-> None]
    /\ manifest = [initialized |-> FALSE, slots |-> [n \in Name |-> None],
                   files |-> [f \in File |-> None]]
    /\ store = {}
    /\ inserted = None
    /\ used = 0
    /\ run = Idle

-----------------------------------------------------------------------------
(* The user. *)

UserWrites ==
    \E f \in File, c \in Content \cup {None} :
        /\ disk' = [disk EXCEPT ![f] = c]
        /\ UNCHANGED <<manifest, store, inserted, used, run>>

Insert ==
    \E d \in Device \cup {None} :
        /\ inserted' = d
        /\ UNCHANGED <<disk, manifest, store, used, run>>

-----------------------------------------------------------------------------
(* Slots. *)

EncryptInit ==
    /\ run = Idle /\ ~manifest.initialized /\ used < MaxDek
    /\ used' = used + 1
    /\ \E p \in Passphrase :
        manifest' = [manifest EXCEPT !.initialized = TRUE,
                                     !.slots["passphrase"] = [kek |-> p, dek |-> used']]
    /\ UNCHANGED <<disk, store, inserted, run>>

(* What UnlockDEK finds when the user types p: the slots of the device are *)
(* tried first, and any may fail for want of a touch.                      *)
Unlocked(m, p) == {m.slots[n].dek : n \in {n \in Slots(m) :
    m.slots[n].kek = IF n = "passphrase" THEN p ELSE inserted}}

(* The commands that open the garden and unlock its DEK, and what comes    *)
(* next for each.                                                          *)
Unlock(cmd, at, m, todo) ==
    \E p \in Passphrase : \E dek \in Unlocked(manifest, p) :
        run' = [cmd |-> cmd, at |-> at, dek |-> dek, old |-> None, mem |-> m, todo |-> todo]

UnlockForSlots ==
    \E cmd \in {"slot", "passphrase", "rotate"} \cap Commands :
        /\ run = Idle
        /\ Unlock(cmd, "unlocked", manifest, {})
        /\ UNCHANGED <<disk, manifest, store, inserted, used>>

SaveSlots(slots) ==
    /\ manifest' = [run.mem EXCEPT !.slots = slots]
    /\ run' = Idle
    /\ UNCHANGED <<disk, store, inserted, used>>

AddFIDO2Slot ==
    /\ run.cmd = "slot" /\ inserted # None
    /\ \E l \in Label \ Slots(run.mem) :
        SaveSlots([run.mem.slots EXCEPT ![l] = [kek |-> inserted, dek |-> run.dek]])

RemoveSlot ==
    \E n \in Slots(manifest) :
        /\ run = Idle /\ Cardinality(Slots(manifest)) > 1
        /\ manifest' = [manifest EXCEPT !.slots[n] = None]
        /\ UNCHANGED <<disk, store, inserted, used, run>>

ChangePassphrase ==
    /\ run.cmd = "passphrase" /\ "passphrase" \in Slots(run.mem)
    /\ \E p \in Passphrase :
        SaveSlots([run.mem.slots EXCEPT !["passphrase"] = [kek |-> p, dek |-> run.dek]])

-----------------------------------------------------------------------------
(* rotate-dek *)

BeginRotation ==
    /\ run.cmd = "rotate" /\ run.at = "unlocked" /\ used < MaxDek
    /\ used' = used + 1
    /\ run' = [run EXCEPT !.at = "reencrypting", !.dek = used', !.old = run.dek,
                          !.todo = Encrypted(run.mem)]
    /\ UNCHANGED <<disk, manifest, store, inserted>>

(* Mutant of Opens: decryption does not notice that the key is wrong. *)
OpensAnything(blob, dek) == TRUE

Opens(blob, dek) == blob.dek = dek

Reencrypt ==
    /\ run.at = "reencrypting"
    /\ \E f \in run.todo :
        LET blob == run.mem.files[f].blob
            new == [blob EXCEPT !.dek = run.dek]
        IN  /\ blob \in store /\ Opens(blob, run.old)
            /\ store' = store \cup {new}
            /\ run' = [run EXCEPT !.mem.files[f].blob = new, !.todo = @ \ {f}]
    /\ UNCHANGED <<disk, manifest, inserted, used>>

(* Mutant of Rewrapped: a slot whose device is absent stays as it is. *)
RewrappedOrKept(slots, p, ready, dek) ==
    [n \in Name |->
        IF slots[n] = None THEN None
        ELSE IF n = "passphrase" THEN [kek |-> p, dek |-> dek]
        ELSE IF n \in ready THEN [slots[n] EXCEPT !.dek = dek]
        ELSE slots[n]]

(* The passphrase slot takes whatever is typed; a FIDO2 slot goes unless   *)
(* its device is ready.                                                    *)
Rewrapped(slots, p, ready, dek) ==
    [n \in Name |->
        IF slots[n] = None THEN None
        ELSE IF n = "passphrase" THEN [kek |-> p, dek |-> dek]
        ELSE IF n \in ready THEN [slots[n] EXCEPT !.dek = dek]
        ELSE None]

(* A device is asked for at each slot, and the user may change it between. *)
Rewrap ==
    /\ run.at = "reencrypting" /\ run.todo = {}
    /\ \E p \in Passphrase, ready \in SUBSET (Label \cap Slots(run.mem)) :
        SaveSlots(Rewrapped(run.mem.slots, p, ready, run.dek))

-----------------------------------------------------------------------------
(* Commands on entries. *)

Sealed(data, encrypt, dek) == [dek |-> IF encrypt THEN dek ELSE None, data |-> data]

AddEntry(f, encrypt, dek) ==
    LET blob == Sealed(disk[f], encrypt, dek)
        entry == [encrypted |-> encrypt, blob |-> blob,
                  plain |-> IF encrypt THEN disk[f] ELSE None]
    IN  /\ store' = store \cup {blob}
        /\ run' = [Idle EXCEPT !.cmd = "add", !.at = "saving", !.dek = dek,
                               !.mem = [manifest EXCEPT !.files[f] = entry]]

(* add, of a file that is not tracked. *)
Add ==
    \E f \in File \ Tracked(manifest), encrypt \in BOOLEAN :
        /\ run = Idle /\ "add" \in Commands /\ disk[f] # None
        /\ \E p \in Passphrase, dek \in Dek \cup {None} :
            /\ IF encrypt THEN dek \in Unlocked(manifest, p) ELSE dek = None
            /\ AddEntry(f, encrypt, dek)
        /\ UNCHANGED <<disk, manifest, inserted, used>>

(* checkpoint and restore unlock the DEK when some entry is encrypted. *)
Open(cmd, at) ==
    /\ run = Idle /\ cmd \in Commands
    /\ IF Encrypted(manifest) # {}
       THEN Unlock(cmd, at, manifest, Tracked(manifest))
       ELSE run' = [Idle EXCEPT !.cmd = cmd, !.at = at, !.mem = manifest,
                                !.todo = Tracked(manifest)]
    /\ UNCHANGED <<disk, manifest, store, inserted, used>>

Checkpoint == Open("checkpoint", "hashing")

(* Mutant of Recorded: only the hash of the ciphertext is updated. *)
RecordedBlob(e, blob) == [e EXCEPT !.blob = blob]

(* The entry of a file whose contents have changed. *)
Recorded(e, blob) ==
    [e EXCEPT !.blob = blob, !.plain = IF e.encrypted THEN blob.data ELSE None]

(* Mutant of Unchanged: a missing file is taken for an empty one. *)
UnchangedOrNew(f, e) == e.encrypted /\ disk[f] = e.plain

Unchanged(f, e) == disk[f] = None \/ (e.encrypted /\ disk[f] = e.plain)

(* A missing file is skipped.  An encrypted one is compared by the hash of *)
(* its plaintext and only sealed again when that has changed.              *)
CheckpointEntry ==
    /\ run.cmd = "checkpoint" /\ run.at = "hashing"
    /\ \E f \in run.todo :
        LET e == run.mem.files[f]
            blob == Sealed(disk[f], e.encrypted, run.dek)
        IN  \/ /\ Unchanged(f, e)
               /\ run' = [run EXCEPT !.todo = @ \ {f}]
               /\ store' = store
            \/ /\ ~Unchanged(f, e)
               /\ store' = store \cup {blob}
               /\ run' = [run EXCEPT !.mem.files[f] = Recorded(e, blob), !.todo = @ \ {f}]
    /\ UNCHANGED <<disk, manifest, inserted, used>>

(* The manifest without what is gone and with what is new. *)
Mirrored ==
    LET New(f) == [encrypted |-> FALSE, blob |-> Sealed(disk[f], FALSE, None), plain |-> None]
    IN  [manifest EXCEPT !.files = [f \in File |->
            IF disk[f] = None THEN None ELSE IF f \in Tracked(manifest) THEN @[f] ELSE New(f)]]

(* mirror up does not unlock the DEK: an entry gets the hash of the file,  *)
(* encrypted or not.                                                       *)
MirrorUp ==
    /\ run = Idle /\ "mirror" \in Commands
    /\ store' = store \cup {Mirrored.files[f].blob : f \in Tracked(Mirrored) \ Tracked(manifest)}
    /\ run' = [Idle EXCEPT !.cmd = "mirror", !.at = "hashing", !.mem = Mirrored,
                           !.todo = Tracked(Mirrored) \cap Tracked(manifest)]
    /\ UNCHANGED <<disk, manifest, inserted, used>>

Rehash ==
    /\ run.cmd = "mirror" /\ run.at = "hashing"
    /\ \E f \in run.todo :
        LET blob == Sealed(disk[f], FALSE, None)
        IN  /\ disk[f] # None
            /\ store' = store \cup {blob}
            /\ run' = [run EXCEPT !.mem.files[f].blob = blob, !.todo = @ \ {f}]
    /\ UNCHANGED <<disk, manifest, inserted, used>>

Restore == Open("restore", "restoring")

(* With or without a question first, in Garden. *)
RestoreEntry ==
    /\ run.at = "restoring"
    /\ \E f \in run.todo :
        LET e == run.mem.files[f]
        IN  /\ \/ disk' = disk /\ disk[f] # None
               \/ /\ e.blob \in store
                  /\ e.encrypted => Opens(e.blob, run.dek)
                  /\ disk' = [disk EXCEPT ![f] = e.blob.data]
            /\ run' = [run EXCEPT !.todo = @ \ {f}]
    /\ UNCHANGED <<manifest, store, inserted, used>>

EndRestore ==
    /\ run.at = "restoring" /\ run.todo = {}
    /\ run' = Idle
    /\ UNCHANGED <<disk, manifest, store, inserted, used>>

Save ==
    /\ run.at \in {"hashing", "saving"} /\ run.todo = {}
    /\ manifest' = run.mem
    /\ run' = Idle
    /\ UNCHANGED <<disk, store, inserted, used>>

(* An error, a refused passphrase, or a kill: the manifest stays. *)
Stop ==
    /\ run # Idle
    /\ run' = Idle
    /\ UNCHANGED <<disk, manifest, store, inserted, used>>

-----------------------------------------------------------------------------
Next ==
    \/ UserWrites \/ Insert
    \/ EncryptInit \/ UnlockForSlots \/ AddFIDO2Slot \/ RemoveSlot \/ ChangePassphrase
    \/ BeginRotation \/ Reencrypt \/ Rewrap
    \/ Add \/ Checkpoint \/ CheckpointEntry \/ MirrorUp \/ Rehash
    \/ Restore \/ RestoreEntry \/ EndRestore
    \/ Save \/ Stop

Spec == Init /\ [][Next]_vars

-----------------------------------------------------------------------------
(* Properties. *)

TypeOK ==
    /\ disk \in [File -> Content \cup {None}]
    /\ manifest \in Manifest
    /\ store \subseteq Blob
    /\ inserted \in Device \cup {None}
    /\ used \in 0 .. MaxDek
    /\ run \in Run

OpenedByAllSlots(m, f) ==
    LET e == m.files[f]
    IN  /\ e.blob \in store
        /\ e.blob.data = e.plain
        /\ \A n \in Slots(m) : Opens(e.blob, m.slots[n].dek)

(* Whatever was interrupted, in whatever order slots, DEKs and files       *)
(* changed, every slot opens every sealed blob of the manifest, and what   *)
(* it opens to is the plaintext that status compares with.                 *)
SlotsOpenSealed ==
    \A f \in Encrypted(manifest) :
        manifest.files[f].blob.dek # None => OpenedByAllSlots(manifest, f)

(* The blob of every encrypted entry is sealed, and opened by every slot.  *)
SlotsOpenEntries == \A f \in Encrypted(manifest) : OpenedByAllSlots(manifest, f)

(* A rotation that succeeds leaves nothing of the manifest under the DEK   *)
(* it replaced.                                                            *)
RotationReplacesDek ==
    [][run.at = "reencrypting" /\ manifest' # manifest =>
          /\ \A n \in Slots(manifest') : manifest'.slots[n].dek # run.old
          /\ \A f \in Encrypted(manifest') : manifest'.files[f].blob.dek # run.old]_vars

(* Whatever became of the entry, restore never writes contents to an       *)
(* encrypted file that are not the plaintext recorded for it.              *)
RestoresPlaintext ==
    [][\A f \in Encrypted(manifest) :
          RestoreEntry /\ disk'[f] # disk[f] => disk'[f] = manifest.files[f].plain]_vars

(* A repository with slots never loses its last one. *)
LastSlotStays == [][Slots(manifest) # {} => Slots(manifest') # {}]_vars

(* A rotation wraps the new DEK again under the KEKs of the slots: whoever *)
(* opened a slot that is still there opens it afterwards.                  *)
RotationKeepsKeks ==
    [][run.at = "reencrypting" /\ manifest' # manifest =>
          \A n \in Slots(manifest') : manifest'.slots[n].kek = manifest.slots[n].kek]_vars
=============================================================================
