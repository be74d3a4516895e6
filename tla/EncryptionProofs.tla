-------------------------- MODULE EncryptionProofs --------------------------
(* Proofs about Encryption, for every number of files, passphrases,        *)
(* devices, slots and rotations.                                           *)
EXTENDS Encryption, TLAPS

(* The sealed blobs of encrypted entries are there, with the plaintext     *)
(* that is recorded.                                                       *)
Held(m, blobs) ==
    \A f \in Encrypted(m) : m.files[f].blob.dek # None =>
        m.files[f].blob \in blobs /\ m.files[f].blob.data = m.files[f].plain

(* All slots wrap d and no blob is sealed under another DEK. *)
Under(m, d) ==
    /\ \A n \in Slots(m) : m.slots[n].dek = d
    /\ \A f \in Encrypted(m) : m.files[f].blob.dek \in {None, d}

(* A manifest that is saved. *)
ManifestOK(m, blobs, u) ==
    /\ Held(m, blobs)
    /\ \E d \in Dek \cup {None} : Under(m, d)
    /\ ~m.initialized => Slots(m) = {} /\ Encrypted(m) = {}
    /\ \A n \in Slots(m) : m.slots[n].dek <= u

Phases == {"slot", "passphrase", "rotate"} \X {"unlocked"}
          \cup {<<"rotate", "reencrypting">>, <<"add", "saving">>, <<"checkpoint", "hashing">>,
                <<"mirror", "hashing">>, <<"restore", "restoring">>}

(* A command under way, on the manifest m that was saved last. *)
RunOK(r, m, blobs, u) ==
    /\ r.mem \in Manifest /\ r.mem.initialized = m.initialized /\ r.mem.slots = m.slots
    /\ r.todo \subseteq Tracked(r.mem)
    /\ <<r.cmd, r.at>> \in Phases
    /\ r.cmd \in {"slot", "passphrase", "rotate"} => r.dek \in Dek
    /\ r.cmd \in {"checkpoint", "restore"} /\ Encrypted(r.mem) # {} => r.dek \in Dek
    /\ r.dek \in Dek => r.dek <= u /\ m.initialized
    /\ ~m.initialized => Encrypted(r.mem) = {}
    /\ Held(r.mem, blobs)
    /\ r.at = "restoring" => r.mem = m
    /\ r.at # "reencrypting" => \E d \in Dek \cup {None} :
          Under(r.mem, d) /\ (r.dek \in Dek => d = r.dek)
    /\ r.at = "reencrypting" =>
          /\ r.old \in Dek /\ r.old < r.dek
          /\ \A f \in Encrypted(r.mem) \ r.todo : r.mem.files[f].blob.dek = r.dek

IndInv ==
    /\ TypeOK
    /\ ManifestOK(manifest, store, used)
    /\ run = Idle \/ RunOK(run, manifest, store, used)

-----------------------------------------------------------------------------
(* Manifests. *)

LEMMA SlotsIn ==
  ASSUME NEW m \in Manifest, NEW n \in Slots(m)
  PROVE  n \in Name /\ m.slots[n] \in Slot /\ m.slots[n].dek \in Dek
                    /\ m.slots[n].kek \in Passphrase \cup Device
  BY DEF Slots, Manifest, Slot

LEMMA TrackedIn ==
  ASSUME NEW m \in Manifest, NEW f \in Tracked(m)
  PROVE  f \in File /\ m.files[f] \in Entry /\ m.files[f].blob \in Blob
                    /\ m.files[f].encrypted \in BOOLEAN
  BY DEF Tracked, Manifest, Entry

LEMMA EncryptedIn ==
  ASSUME NEW m \in Manifest
  PROVE  Encrypted(m) \subseteq Tracked(m)
  BY DEF Encrypted

(* An entry is put in place of what m has of f. *)
Put(m, f, e) == [m EXCEPT !.files[f] = e]

LEMMA PutEntry ==
  ASSUME NEW m \in Manifest, NEW f \in File, NEW e \in Entry
  PROVE  /\ Put(m, f, e) \in Manifest /\ Put(m, f, e).slots = m.slots /\ Put(m, f, e).initialized = m.initialized
         /\ Slots(Put(m, f, e)) = Slots(m) /\ Put(m, f, e).files[f] = e
         /\ \A g \in File : g # f => Put(m, f, e).files[g] = m.files[g]
         /\ \A g \in Encrypted(Put(m, f, e)) : g \in File /\ (g # f => g \in Encrypted(m))
         /\ f \in Encrypted(Put(m, f, e)) => e.encrypted
         /\ f \in Tracked(m) => Tracked(m) \subseteq Tracked(Put(m, f, e))
<1>1. Put(m, f, e) \in Manifest /\ Put(m, f, e).slots = m.slots /\ Put(m, f, e).initialized = m.initialized
  BY DEF Manifest, Put
<1>2. \A g \in File : Put(m, f, e).files[g] = IF g = f THEN e ELSE m.files[g]
  BY DEF Manifest, Put
<1>3. Slots(Put(m, f, e)) = Slots(m)
  BY <1>1 DEF Slots
<1>4. f \in Tracked(m) => Tracked(m) \subseteq Tracked(Put(m, f, e))
  <2> SUFFICES ASSUME f \in Tracked(m), NEW g \in Tracked(m), g \notin Tracked(Put(m, f, e)) PROVE FALSE
    OBVIOUS
  <2>1. g = f /\ e = None
    BY <1>2 DEF Tracked
  <2>2. Put(m, f, e).files[f] = e
    BY <1>2
  <2> QED BY <2>1, EntryAssumption DEF Tracked
<1> QED BY <1>1, <1>2, <1>3, <1>4 DEF Encrypted, Tracked

LEMMA PutHeld ==
  ASSUME NEW m \in Manifest, NEW f \in File, NEW e \in Entry,
         NEW blobs, NEW more, blobs \subseteq more, Held(m, blobs),
         e.encrypted /\ e.blob.dek # None => e.blob \in more /\ e.blob.data = e.plain
  PROVE  Held(Put(m, f, e), more)
<1>1. /\ Put(m, f, e).files[f] = e /\ \A g \in File : g # f => Put(m, f, e).files[g] = m.files[g]
      /\ \A g \in Encrypted(Put(m, f, e)) : g \in File /\ (g # f => g \in Encrypted(m))
      /\ f \in Encrypted(Put(m, f, e)) => e.encrypted
  BY PutEntry
<1> QED BY <1>1 DEF Held

LEMMA PutUnder ==
  ASSUME NEW m \in Manifest, NEW f \in File, NEW e \in Entry,
         NEW d, Under(m, d), e.encrypted => e.blob.dek \in {None, d}
  PROVE  Under(Put(m, f, e), d)
<1>1. /\ Put(m, f, e).files[f] = e /\ \A g \in File : g # f => Put(m, f, e).files[g] = m.files[g]
      /\ \A g \in Encrypted(Put(m, f, e)) : g \in File /\ (g # f => g \in Encrypted(m))
      /\ f \in Encrypted(Put(m, f, e)) => e.encrypted
      /\ Put(m, f, e).slots = m.slots /\ Slots(Put(m, f, e)) = Slots(m)
  BY PutEntry
<1> QED BY <1>1 DEF Under

(* What is true of a store and of a count of DEKs stays true when they     *)
(* grow.                                                                   *)
LEMMA ManifestGrows ==
  ASSUME NEW m \in Manifest, NEW blobs, NEW more, blobs \subseteq more,
         NEW u \in Nat, NEW v \in Nat, u <= v, ManifestOK(m, blobs, u)
  PROVE  ManifestOK(m, more, v)
<1>1. Held(m, more)
  BY DEF ManifestOK, Held
<1>2. \A n \in Slots(m) : m.slots[n].dek <= v
  BY SlotsIn, MaxDekAssumption DEF ManifestOK, Dek
<1> QED BY <1>1, <1>2 DEF ManifestOK

LEMMA RunGrows ==
  ASSUME NEW r, NEW m, NEW blobs, NEW more, blobs \subseteq more,
         NEW u \in Nat, NEW v \in Nat, u <= v, RunOK(r, m, blobs, u)
  PROVE  RunOK(r, m, more, v)
<1>1. Held(r.mem, more)
  BY DEF RunOK, Held
<1>2. r.dek \in Dek => r.dek <= v
  BY MaxDekAssumption DEF RunOK, Dek
<1> QED BY <1>1, <1>2 DEF RunOK

(* Whatever unlocks the DEK opens a slot. *)
LEMMA UnlockedIs ==
  ASSUME NEW m \in Manifest, NEW p, NEW dek \in Unlocked(m, p)
  PROVE  \E n \in Slots(m) : dek = m.slots[n].dek /\ dek \in Dek
BY SlotsIn DEF Unlocked

LEMMA UnlockedOpens ==
  ASSUME NEW m \in Manifest, NEW p, NEW dek \in Unlocked(m, p), NEW blobs, NEW u, ManifestOK(m, blobs, u)
  PROVE  dek \in Dek /\ dek <= u /\ m.initialized /\ Under(m, dek)
<1>1. PICK n \in Slots(m) : dek = m.slots[n].dek /\ dek \in Dek
  BY UnlockedIs
<1>2. PICK d : Under(m, d)
  BY DEF ManifestOK
<1>3. d = dek
  BY <1>1, <1>2 DEF Under
<1>4. m.initialized
  BY <1>1 DEF ManifestOK, Manifest
<1> QED BY <1>1, <1>2, <1>3, <1>4 DEF ManifestOK

-----------------------------------------------------------------------------
LEMMA Types ==
  ASSUME TypeOK
  PROVE  /\ disk \in [File -> Content \cup {None}] /\ manifest \in Manifest /\ store \subseteq Blob
         /\ inserted \in Device \cup {None} /\ used \in Nat /\ used <= MaxDek /\ run \in Run
  BY MaxDekAssumption DEF TypeOK

LEMMA IdleType == Idle \in Run
  BY DEF Idle, Run

LEMMA InitInv == Init => IndInv
<1> SUFFICES ASSUME Init PROVE IndInv
  OBVIOUS
<1>1. TypeOK
  BY IdleType, MaxDekAssumption DEF Init, TypeOK, Manifest
<1>2. Slots(manifest) = {} /\ Encrypted(manifest) = {}
  BY DEF Init, Slots, Encrypted, Tracked
<1>3. Under(manifest, None) /\ Held(manifest, store)
  BY <1>2 DEF Under, Held
<1> QED BY <1>1, <1>2, <1>3 DEF Init, IndInv, ManifestOK

(* A step that ends a command and saves m. *)
LEMMA Saves ==
  ASSUME TypeOK, UNCHANGED <<disk, store, inserted, used>>, manifest' \in Manifest,
         ManifestOK(manifest', store, used), run' = Idle
  PROVE  IndInv'
<1>1. TypeOK'
  BY IdleType DEF TypeOK
<1> QED BY <1>1 DEF IndInv

(* A step that leaves the saved manifest alone. *)
LEMMA Runs ==
  ASSUME IndInv, manifest' = manifest, UNCHANGED <<disk, inserted>>,
         store \subseteq store', store' \subseteq Blob, used' \in 0 .. MaxDek, used <= used',
         run' \in Run, run' = Idle \/ RunOK(run', manifest, store', used')
  PROVE  IndInv'
<1>1. TypeOK'
  BY DEF TypeOK, IndInv
<1>2. used \in Nat /\ used' \in Nat /\ manifest \in Manifest
  BY Types, MaxDekAssumption DEF IndInv
<1>3. ManifestOK(manifest, store', used')
  BY <1>2, ManifestGrows DEF IndInv
<1> QED BY <1>1, <1>3 DEF IndInv

(* The command under way. *)
LEMMA Running ==
  ASSUME IndInv, run # Idle
  PROVE  /\ RunOK(run, manifest, store, used) /\ run \in Run
         /\ run.mem \in Manifest /\ Slots(run.mem) = Slots(manifest)
         /\ run.dek \in Dek \cup {None}
<1>1. RunOK(run, manifest, store, used)
  BY DEF IndInv
<1> QED BY <1>1, Types DEF IndInv, RunOK, Slots, Run

-----------------------------------------------------------------------------
(* Slots. *)

(* The slots of m become s. *)
LEMMA PutSlots ==
  ASSUME NEW m \in Manifest, NEW s \in [Name -> Slot \cup {None}], NEW new, new = [m EXCEPT !.slots = s]
  PROVE  /\ new \in Manifest /\ new.slots = s /\ new.initialized = m.initialized
         /\ new.files = m.files /\ Encrypted(new) = Encrypted(m)
  BY DEF Manifest, Encrypted, Tracked

(* A manifest whose slots are of one DEK. *)
LEMMA SlotsOK ==
  ASSUME NEW m \in Manifest, NEW s \in [Name -> Slot \cup {None}], NEW new, new = [m EXCEPT !.slots = s],
         NEW blobs, NEW u, Held(m, blobs), m.initialized, NEW d \in Dek, d <= u,
         \A n \in Name : s[n] # None => s[n].dek = d,
         \A f \in Encrypted(m) : m.files[f].blob.dek \in {None, d}
  PROVE  ManifestOK(new, blobs, u)
<1>1. /\ new.slots = s /\ new.initialized /\ new.files = m.files /\ Encrypted(new) = Encrypted(m)
  BY PutSlots
<1>2. Held(new, blobs)
  BY <1>1 DEF Held
<1>3. \A n \in Slots(new) : new.slots[n].dek = d
  BY <1>1 DEF Slots
<1>4. Under(new, d)
  BY <1>1, <1>3 DEF Under
<1> QED BY <1>1, <1>2, <1>3, <1>4 DEF ManifestOK

(* Between unlocking and saving nothing in the slots changes. *)
LEMMA UnlockedRun ==
  ASSUME IndInv, run # Idle, run.cmd \in {"slot", "passphrase", "rotate"}, run.at = "unlocked"
  PROVE  /\ run.mem \in Manifest /\ run.dek \in Dek /\ run.dek <= used /\ run.mem.initialized
         /\ Held(run.mem, store) /\ Under(run.mem, run.dek)
  BY Running DEF RunOK

LEMMA EncryptInitInv == ASSUME IndInv, EncryptInit PROVE IndInv'
<1> PICK p \in Passphrase :
      manifest' = [manifest EXCEPT !.initialized = TRUE,
                                   !.slots["passphrase"] = [kek |-> p, dek |-> used']]
  BY DEF EncryptInit
<1> DEFINE slot == [kek |-> p, dek |-> used']
<1>1. used' = used + 1 /\ used' \in Dek /\ used' \in 0 .. MaxDek /\ used \in Nat
  BY Types, MaxDekAssumption DEF EncryptInit, Dek, IndInv
<1>2. manifest \in Manifest /\ Slots(manifest) = {} /\ Encrypted(manifest) = {} /\ slot \in Slot
  BY <1>1, Types DEF IndInv, ManifestOK, EncryptInit, Slot
<1>3. /\ manifest' \in Manifest /\ manifest'.files = manifest.files /\ manifest'.initialized = TRUE
      /\ \A n \in Name : manifest'.slots[n] = IF n = "passphrase" THEN slot ELSE manifest.slots[n]
  BY <1>2 DEF Manifest
<1>4. Encrypted(manifest') = {}
  BY <1>2, <1>3 DEF Encrypted, Tracked
<1>5. \A n \in Slots(manifest') : manifest'.slots[n] = slot
  BY <1>2, <1>3 DEF Slots
<1> HIDE DEF slot
<1>6. slot.dek = used'
  BY DEF slot
<1>7. Under(manifest', used') /\ Held(manifest', store)
  BY <1>4, <1>5, <1>6 DEF Under, Held
<1>8. ManifestOK(manifest', store, used')
  BY <1>1, <1>3, <1>5, <1>6, <1>7 DEF ManifestOK
<1>9. TypeOK'
  BY <1>1, <1>3 DEF TypeOK, IndInv, EncryptInit
<1> QED BY <1>8, <1>9 DEF IndInv, EncryptInit

LEMMA AddFIDO2SlotInv == ASSUME IndInv, run # Idle, AddFIDO2Slot PROVE IndInv'
<1>1. run.at = "unlocked"
  BY Running DEF RunOK, Phases, AddFIDO2Slot
<1> PICK l \in Label \ Slots(run.mem) :
      SaveSlots([run.mem.slots EXCEPT ![l] = [kek |-> inserted, dek |-> run.dek]])
  BY DEF AddFIDO2Slot
<1>2. PICK slot \in Slot : slot = [kek |-> inserted, dek |-> run.dek]
  BY <1>1, UnlockedRun, Types DEF AddFIDO2Slot, IndInv, Slot
<1>3. PICK s : s = [run.mem.slots EXCEPT ![l] = slot]
  OBVIOUS
<1>4. manifest' = [run.mem EXCEPT !.slots = s] /\ run' = Idle /\ UNCHANGED <<disk, store, inserted, used>>
  BY <1>2, <1>3 DEF SaveSlots
<1>5. /\ run.mem \in Manifest /\ run.dek \in Dek /\ run.dek <= used /\ run.mem.initialized
      /\ Held(run.mem, store) /\ Under(run.mem, run.dek)
  BY <1>1, UnlockedRun DEF AddFIDO2Slot
<1>6. s \in [Name -> Slot \cup {None}] /\ \A n \in Name : s[n] = IF n = l THEN slot ELSE run.mem.slots[n]
  BY <1>3, <1>5 DEF Manifest, Name
<1>7. slot.dek = run.dek
  BY <1>2
<1>8. \A n \in Name : s[n] # None => s[n].dek = run.dek
  BY <1>5, <1>6, <1>7 DEF Under, Slots
<1>9. ManifestOK(manifest', store, used)
  BY <1>4, <1>5, <1>6, <1>8, SlotsOK DEF Under
<1> QED BY <1>4, <1>5, <1>6, <1>9, PutSlots, Saves DEF IndInv

LEMMA ChangePassphraseInv == ASSUME IndInv, run # Idle, ChangePassphrase PROVE IndInv'
<1>1. run.at = "unlocked"
  BY Running DEF RunOK, Phases, ChangePassphrase
<1> PICK p \in Passphrase :
      SaveSlots([run.mem.slots EXCEPT !["passphrase"] = [kek |-> p, dek |-> run.dek]])
  BY DEF ChangePassphrase
<1>2. PICK slot \in Slot : slot = [kek |-> p, dek |-> run.dek]
  BY <1>1, UnlockedRun DEF ChangePassphrase, Slot
<1>3. PICK s : s = [run.mem.slots EXCEPT !["passphrase"] = slot]
  OBVIOUS
<1>4. manifest' = [run.mem EXCEPT !.slots = s] /\ run' = Idle /\ UNCHANGED <<disk, store, inserted, used>>
  BY <1>2, <1>3 DEF SaveSlots
<1>5. /\ run.mem \in Manifest /\ run.dek \in Dek /\ run.dek <= used /\ run.mem.initialized
      /\ Held(run.mem, store) /\ Under(run.mem, run.dek)
  BY <1>1, UnlockedRun DEF ChangePassphrase
<1>6. /\ s \in [Name -> Slot \cup {None}]
      /\ \A n \in Name : s[n] = IF n = "passphrase" THEN slot ELSE run.mem.slots[n]
  BY <1>3, <1>5 DEF Manifest, Name
<1>7. slot.dek = run.dek
  BY <1>2
<1>8. \A n \in Name : s[n] # None => s[n].dek = run.dek
  BY <1>5, <1>6, <1>7 DEF Under, Slots
<1>9. ManifestOK(manifest', store, used)
  BY <1>4, <1>5, <1>6, <1>8, SlotsOK DEF Under
<1> QED BY <1>4, <1>5, <1>6, <1>9, PutSlots, Saves DEF IndInv

LEMMA RemoveSlotInv == ASSUME IndInv, RemoveSlot PROVE IndInv'
<1> PICK n \in Slots(manifest) : manifest' = [manifest EXCEPT !.slots[n] = None]
  BY DEF RemoveSlot
<1>1. manifest \in Manifest /\ n \in Name
  BY Types, SlotsIn DEF IndInv
<1>2. /\ manifest' \in Manifest /\ manifest'.files = manifest.files
      /\ manifest'.initialized = manifest.initialized
      /\ \A k \in Name : manifest'.slots[k] = IF k = n THEN None ELSE manifest.slots[k]
  BY <1>1 DEF Manifest
<1>3. /\ Encrypted(manifest') = Encrypted(manifest)
      /\ \A k \in Slots(manifest') : k \in Slots(manifest) /\ manifest'.slots[k] = manifest.slots[k]
  BY <1>2 DEF Encrypted, Tracked, Slots
<1>4. Held(manifest', store) /\ \A d : Under(manifest, d) => Under(manifest', d)
  BY <1>2, <1>3 DEF IndInv, ManifestOK, Held, Under
<1>5. ManifestOK(manifest', store, used)
  BY <1>2, <1>3, <1>4 DEF IndInv, ManifestOK
<1> QED BY <1>2, <1>5, Saves DEF RemoveSlot, IndInv

-----------------------------------------------------------------------------
(* Commands that begin. *)

LEMMA PhaseTypes ==
  ASSUME NEW cmd, NEW at, <<cmd, at>> \in Phases
  PROVE  /\ cmd \in {"slot", "passphrase", "rotate", "add", "checkpoint", "restore", "mirror"}
         /\ at \in {"unlocked", "reencrypting", "hashing", "restoring", "saving"}
  BY DEF Phases

LEMMA Unlocks ==
  ASSUME IndInv, NEW cmd, NEW at, <<cmd, at>> \in Phases, at # "reencrypting",
         NEW todo \in SUBSET Tracked(manifest), Unlock(cmd, at, manifest, todo)
  PROVE  run' \in Run /\ RunOK(run', manifest, store, used)
<1> PICK p \in Passphrase : \E dek \in Unlocked(manifest, p) :
      run' = [cmd |-> cmd, at |-> at, dek |-> dek, old |-> None, mem |-> manifest, todo |-> todo]
  BY DEF Unlock
<1> PICK dek \in Unlocked(manifest, p) :
      run' = [cmd |-> cmd, at |-> at, dek |-> dek, old |-> None, mem |-> manifest, todo |-> todo]
  OBVIOUS
<1>1. manifest \in Manifest /\ ManifestOK(manifest, store, used)
  BY Types DEF IndInv
<1>2. dek \in Dek /\ dek <= used /\ manifest.initialized /\ Under(manifest, dek)
  BY <1>1, UnlockedOpens
<1>3. /\ run'.cmd = cmd /\ run'.at = at /\ run'.dek = dek /\ run'.old = None
      /\ run'.mem = manifest /\ run'.todo = todo
  OBVIOUS
<1>4. run' \in Run
  <2>1. todo \subseteq File
    BY <1>1, TrackedIn
  <2> QED BY <1>1, <1>2, <2>1, PhaseTypes DEF Run
<1>5. Held(manifest, store)
  BY <1>1 DEF ManifestOK
<1>6. RunOK(run', manifest, store, used)
  BY <1>1, <1>2, <1>3, <1>5 DEF RunOK
<1> QED BY <1>4, <1>6

LEMMA UnlockForSlotsInv == ASSUME IndInv, UnlockForSlots PROVE IndInv'
<1>1. PICK cmd \in {"slot", "passphrase", "rotate"} : Unlock(cmd, "unlocked", manifest, {})
  BY DEF UnlockForSlots
<1>2. <<cmd, "unlocked">> \in Phases
  BY DEF Phases
<1>3. run' \in Run /\ RunOK(run', manifest, store, used)
  BY <1>1, <1>2, Unlocks
<1> QED BY <1>3, Types, Runs DEF UnlockForSlots, IndInv, TypeOK

(* checkpoint and restore, where nothing is encrypted. *)
LEMMA OpensPlain ==
  ASSUME IndInv, NEW cmd, NEW at, <<cmd, at>> \in {<<"checkpoint", "hashing">>, <<"restore", "restoring">>},
         Encrypted(manifest) = {},
         run' = [cmd |-> cmd, at |-> at, dek |-> None, old |-> None, mem |-> manifest,
                 todo |-> Tracked(manifest)]
  PROVE  run' \in Run /\ RunOK(run', manifest, store, used)
<1>1. manifest \in Manifest /\ ManifestOK(manifest, store, used) /\ <<cmd, at>> \in Phases
  BY Types DEF IndInv, Phases
<1>2. /\ run'.cmd = cmd /\ run'.at = at /\ run'.dek = None /\ run'.old = None
      /\ run'.mem = manifest /\ run'.todo = Tracked(manifest)
  OBVIOUS
<1>3. run' \in Run
  <2>1. Tracked(manifest) \subseteq File
    BY <1>1, TrackedIn
  <2> QED BY <1>1, <2>1, PhaseTypes DEF Run
<1>4. None \notin Dek
  BY NoneAssumption
<1>5. RunOK(run', manifest, store, used)
  BY <1>1, <1>2, <1>4 DEF RunOK, ManifestOK
<1> QED BY <1>3, <1>5

LEMMA OpenInv ==
  ASSUME IndInv, NEW cmd, NEW at, Open(cmd, at),
         <<cmd, at>> \in {<<"checkpoint", "hashing">>, <<"restore", "restoring">>}
  PROVE  IndInv'
<1>1. run' \in Run /\ RunOK(run', manifest, store, used)
  <2>1. CASE Encrypted(manifest) # {}
    <3>1. <<cmd, at>> \in Phases /\ at # "reencrypting"
      BY DEF Phases
    <3>2. Unlock(cmd, at, manifest, Tracked(manifest))
      BY <2>1 DEF Open
    <3> QED BY <3>1, <3>2, Unlocks
  <2>2. CASE Encrypted(manifest) = {}
    <3>1. run' = [cmd |-> cmd, at |-> at, dek |-> None, old |-> None, mem |-> manifest,
                  todo |-> Tracked(manifest)]
      BY <2>2 DEF Open, Idle
    <3> QED BY <2>2, <3>1, OpensPlain
  <2> QED BY <2>1, <2>2
<1>2. UNCHANGED <<disk, manifest, store, inserted, used>>
  BY DEF Open
<1> QED BY <1>1, <1>2, Types, Runs DEF IndInv, TypeOK

LEMMA AddInv == ASSUME IndInv, Add PROVE IndInv'
<1>1. PICK f \in File \ Tracked(manifest), encrypt \in BOOLEAN, p \in Passphrase, dek \in Dek \cup {None} :
        /\ disk[f] # None
        /\ IF encrypt THEN dek \in Unlocked(manifest, p) ELSE dek = None
        /\ AddEntry(f, encrypt, dek)
  BY DEF Add
<1>2. PICK blob : blob = Sealed(disk[f], encrypt, dek)
  OBVIOUS
<1>3. PICK e : e = [encrypted |-> encrypt, blob |-> blob, plain |-> IF encrypt THEN disk[f] ELSE None]
  OBVIOUS
<1>4. PICK new : new = Put(manifest, f, e)
  OBVIOUS
<1>5. manifest \in Manifest /\ ManifestOK(manifest, store, used) /\ disk[f] \in Content
  BY <1>1, Types DEF IndInv
<1>6. blob \in Blob /\ e \in Entry
  BY <1>1, <1>2, <1>3, <1>5 DEF Sealed, Blob, Entry
<1>7. store' = store \cup {blob}
  BY <1>1, <1>2 DEF AddEntry
<1>8. run' = [cmd |-> "add", at |-> "saving", dek |-> dek, old |-> None, mem |-> new, todo |-> {}]
  BY <1>1, <1>2, <1>3, <1>4 DEF AddEntry, Idle, Put
<1>9. /\ new \in Manifest /\ new.slots = manifest.slots /\ new.initialized = manifest.initialized
      /\ \A g \in Encrypted(new) : g # f => g \in Encrypted(manifest)
      /\ f \in Encrypted(new) => encrypt
  BY <1>3, <1>4, <1>5, <1>6, PutEntry
<1>10. encrypt => dek \in Dek /\ dek <= used /\ manifest.initialized /\ Under(manifest, dek)
  BY <1>1, <1>5, UnlockedOpens
<1>11. Held(new, store')
  <2>1. e.encrypted /\ e.blob.dek # None => e.blob \in store' /\ e.blob.data = e.plain
    BY <1>2, <1>3, <1>7 DEF Sealed
  <2>2. Held(manifest, store) /\ store \subseteq store'
    BY <1>5, <1>7 DEF ManifestOK
  <2> QED BY <1>4, <1>5, <1>6, <2>1, <2>2, PutHeld
<1>12. PICK d \in Dek \cup {None} : Under(manifest, d) /\ (encrypt => d = dek)
  BY <1>5, <1>10 DEF ManifestOK
<1>13. Under(new, d)
  <2>1. e.encrypted => e.blob.dek \in {None, d}
    BY <1>2, <1>3, <1>12 DEF Sealed
  <2> QED BY <1>4, <1>5, <1>6, <1>12, <2>1, PutUnder
<1>14. dek \in Dek => encrypt
  BY <1>1, NoneAssumption
<1>15. ~manifest.initialized => Encrypted(new) = {}
  BY <1>5, <1>9, <1>10 DEF ManifestOK
<1>16. /\ run'.cmd = "add" /\ run'.at = "saving" /\ run'.dek = dek /\ run'.mem = new /\ run'.todo = {}
  BY <1>8
<1>17. <<"add", "saving">> \in Phases
  BY DEF Phases
<1>18. RunOK(run', manifest, store', used)
  BY <1>9, <1>10, <1>11, <1>12, <1>13, <1>14, <1>15, <1>16, <1>17 DEF RunOK
<1>19. run' \in Run
  BY <1>8, <1>9 DEF Run
<1>20. UNCHANGED <<disk, manifest, inserted, used>> /\ store \subseteq store' /\ store' \subseteq Blob
  BY <1>6, <1>7, Types DEF Add, IndInv
<1> QED BY <1>18, <1>19, <1>20, Types, Runs DEF IndInv, TypeOK

-----------------------------------------------------------------------------
(* Commands under way. *)

(* The command goes on with f done and the manifest m in memory. *)
GoesOn(f, m) == run' = [run EXCEPT !.mem = m, !.todo = @ \ {f}]

LEMMA GoesOnIs ==
  ASSUME run \in Run, NEW f, NEW m \in Manifest, GoesOn(f, m)
  PROVE  /\ run' \in Run /\ run'.cmd = run.cmd /\ run'.at = run.at /\ run'.dek = run.dek
         /\ run'.old = run.old /\ run'.mem = m /\ run'.todo = run.todo \ {f}
  BY DEF GoesOn, Run

(* checkpoint and mirror up put e in place of what they have of f. *)
LEMMA HashedOK ==
  ASSUME IndInv, run # Idle, run.at = "hashing", NEW f \in run.todo, NEW e \in Entry,
         GoesOn(f, Put(run.mem, f, e)), store \subseteq store',
         e.encrypted => /\ f \in Encrypted(run.mem) /\ e.blob.dek \in {None, run.dek}
                        /\ e.blob.dek # None => e.blob \in store' /\ e.blob.data = e.plain
  PROVE  run' \in Run /\ RunOK(run', manifest, store', used)
<1> DEFINE new == Put(run.mem, f, e)
<1>1. RunOK(run, manifest, store, used) /\ run \in Run /\ run.mem \in Manifest /\ run.dek \in Dek \cup {None}
  BY Running
<1>2. f \in Tracked(run.mem) /\ f \in File
  BY <1>1, TrackedIn DEF RunOK
<1>3. /\ new \in Manifest /\ new.slots = run.mem.slots /\ new.initialized = run.mem.initialized
      /\ \A g \in Encrypted(new) : g # f => g \in Encrypted(run.mem)
      /\ f \in Encrypted(new) => e.encrypted
      /\ Tracked(run.mem) \subseteq Tracked(new)
  BY <1>1, <1>2, PutEntry
<1>4. Encrypted(new) \subseteq Encrypted(run.mem)
  BY <1>3
<1>5. Held(new, store')
  BY <1>1, <1>2, PutHeld DEF RunOK
<1>6. \E d \in Dek \cup {None} : Under(new, d) /\ (run.dek \in Dek => d = run.dek)
  <2> PICK d \in Dek \cup {None} : Under(run.mem, d) /\ (run.dek \in Dek => d = run.dek)
    BY <1>1 DEF RunOK
  <2>1. e.encrypted => e.blob.dek \in {None, d}
    BY <1>1
  <2> QED BY <1>1, <1>2, <2>1, PutUnder
<1> HIDE DEF new
<1>7. /\ run' \in Run /\ run'.cmd = run.cmd /\ run'.at = run.at /\ run'.dek = run.dek
      /\ run'.mem = new /\ run'.todo = run.todo \ {f}
  BY <1>1, <1>3, GoesOnIs DEF new
<1>8. RunOK(run', manifest, store', used)
  BY <1>1, <1>3, <1>4, <1>5, <1>6, <1>7 DEF RunOK
<1> QED BY <1>7, <1>8

(* A file is passed over. *)
LEMMA SkippedOK ==
  ASSUME IndInv, run # Idle, run.at \in {"hashing", "restoring"}, NEW f \in run.todo,
         run' = [run EXCEPT !.todo = @ \ {f}]
  PROVE  run' \in Run /\ RunOK(run', manifest, store, used)
<1>1. RunOK(run, manifest, store, used) /\ run \in Run
  BY Running
<1>2. /\ run' \in Run /\ run'.cmd = run.cmd /\ run'.at = run.at /\ run'.dek = run.dek
      /\ run'.old = run.old /\ run'.mem = run.mem /\ run'.todo \subseteq run.todo
  BY <1>1 DEF Run
<1> QED BY <1>1, <1>2 DEF RunOK

LEMMA CheckpointEntryInv == ASSUME IndInv, run # Idle, CheckpointEntry PROVE IndInv'
<1>0. UNCHANGED <<disk, manifest, inserted, used>> /\ store \subseteq Blob /\ used \in 0 .. MaxDek
  BY Types DEF CheckpointEntry, IndInv, TypeOK
<1>1. PICK f, e, blob :
        /\ f \in run.todo
        /\ e = run.mem.files[f] /\ blob = Sealed(disk[f], e.encrypted, run.dek)
        /\ \/ run' = [run EXCEPT !.todo = @ \ {f}] /\ store' = store
           \/ /\ ~Unchanged(f, e) /\ store' = store \cup {blob}
              /\ run' = [run EXCEPT !.mem.files[f] = Recorded(e, blob), !.todo = @ \ {f}]
  BY DEF CheckpointEntry
<1>2. RunOK(run, manifest, store, used) /\ run \in Run /\ run.mem \in Manifest /\ run.dek \in Dek \cup {None}
  BY Running
<1>3. f \in Tracked(run.mem) /\ f \in File /\ e \in Entry
  BY <1>1, <1>2, TrackedIn DEF RunOK
<1>4. CASE run' = [run EXCEPT !.todo = @ \ {f}] /\ store' = store
  <2>1. run' \in Run /\ RunOK(run', manifest, store, used)
    BY <1>4, SkippedOK DEF CheckpointEntry
  <2> QED BY <1>0, <1>4, <2>1, Types, Runs DEF IndInv
<1>5. CASE /\ ~Unchanged(f, e) /\ store' = store \cup {blob}
           /\ run' = [run EXCEPT !.mem.files[f] = Recorded(e, blob), !.todo = @ \ {f}]
  <2>1. disk[f] \in Content
    BY <1>3, <1>5, Types DEF Unchanged, IndInv
  <2>2. /\ blob \in Blob /\ blob.data = disk[f]
        /\ blob.dek = IF e.encrypted THEN run.dek ELSE None
    BY <1>1, <1>2, <2>1 DEF Sealed, Blob
  <2>3. PICK x : x = Recorded(e, blob)
    OBVIOUS
  <2>4. /\ x \in Entry /\ x.encrypted = e.encrypted /\ x.blob = blob
        /\ x.encrypted => x.plain = blob.data
    BY <1>3, <2>1, <2>2, <2>3 DEF Recorded, Entry
  <2>5. GoesOn(f, Put(run.mem, f, x))
    BY <1>2, <1>5, <2>3 DEF GoesOn, Put, Run
  <2>6. x.encrypted => f \in Encrypted(run.mem)
    BY <1>1, <1>3, <2>4 DEF Encrypted
  <2>7. run' \in Run /\ RunOK(run', manifest, store', used)
    BY <1>1, <1>5, <2>2, <2>4, <2>5, <2>6, HashedOK DEF CheckpointEntry
  <2>8. store \subseteq store' /\ store' \subseteq Blob
    BY <1>0, <1>5, <2>2
  <2> QED BY <1>0, <2>7, <2>8, Types, Runs DEF IndInv
<1> QED BY <1>1, <1>4, <1>5

LEMMA RehashInv == ASSUME IndInv, run # Idle, Rehash PROVE IndInv'
<1>0. UNCHANGED <<disk, manifest, inserted, used>> /\ store \subseteq Blob /\ used \in 0 .. MaxDek
  BY Types DEF Rehash, IndInv, TypeOK
<1>1. PICK f, blob :
        /\ f \in run.todo
        /\ blob = Sealed(disk[f], FALSE, None) /\ disk[f] # None
        /\ store' = store \cup {blob}
        /\ run' = [run EXCEPT !.mem.files[f].blob = blob, !.todo = @ \ {f}]
  BY DEF Rehash
<1>2. RunOK(run, manifest, store, used) /\ run \in Run /\ run.mem \in Manifest
  BY Running
<1>3. f \in Tracked(run.mem) /\ f \in File /\ run.mem.files[f] \in Entry
  BY <1>1, <1>2, TrackedIn DEF RunOK
<1>4. disk[f] \in Content
  BY <1>1, <1>3, Types DEF IndInv
<1>5. blob \in Blob /\ blob.dek = None
  BY <1>1, <1>4 DEF Sealed, Blob
<1>6. PICK x : x = [run.mem.files[f] EXCEPT !.blob = blob]
  OBVIOUS
<1>7. x \in Entry /\ x.encrypted = run.mem.files[f].encrypted /\ x.blob = blob
  BY <1>3, <1>5, <1>6 DEF Entry
<1>8. GoesOn(f, Put(run.mem, f, x))
  BY <1>1, <1>2, <1>6 DEF GoesOn, Put, Run
<1>9. x.encrypted => f \in Encrypted(run.mem)
  BY <1>3, <1>7 DEF Encrypted
<1>10. run' \in Run /\ RunOK(run', manifest, store', used)
  BY <1>1, <1>5, <1>7, <1>8, <1>9, HashedOK DEF Rehash
<1>11. store \subseteq store' /\ store' \subseteq Blob
  BY <1>0, <1>1, <1>5
<1> QED BY <1>0, <1>10, <1>11, Types, Runs DEF IndInv

LEMMA MirroredIs ==
  ASSUME TypeOK
  PROVE  /\ Mirrored \in Manifest /\ Mirrored.slots = manifest.slots
         /\ Mirrored.initialized = manifest.initialized
         /\ \A f \in Encrypted(Mirrored) : f \in Encrypted(manifest) /\ Mirrored.files[f] = manifest.files[f]
<1> DEFINE New(f) == [encrypted |-> FALSE, blob |-> Sealed(disk[f], FALSE, None), plain |-> None]
           files == [f \in File |-> IF disk[f] = None THEN None
                                    ELSE IF f \in Tracked(manifest) THEN manifest.files[f] ELSE New(f)]
<1>1. manifest \in Manifest /\ disk \in [File -> Content \cup {None}]
  BY Types
<1>2. \A f \in File : disk[f] # None => New(f) \in Entry /\ New(f).encrypted = FALSE
  BY <1>1 DEF Sealed, Blob, Entry
<1>3. files \in [File -> Entry \cup {None}]
  BY <1>1, <1>2 DEF Manifest
<1>4. Mirrored = [manifest EXCEPT !.files = files]
  BY DEF Mirrored
<1>5. /\ Mirrored \in Manifest /\ Mirrored.slots = manifest.slots
      /\ Mirrored.initialized = manifest.initialized /\ Mirrored.files = files
  BY <1>1, <1>3, <1>4 DEF Manifest
<1>6. ASSUME NEW f \in Encrypted(Mirrored)
      PROVE  f \in Encrypted(manifest) /\ Mirrored.files[f] = manifest.files[f]
  <2>1. f \in File /\ files[f] # None /\ files[f].encrypted
    BY <1>5 DEF Encrypted, Tracked
  <2>2. f \in Tracked(manifest)
    BY <1>2, <2>1
  <2>3. files[f] = manifest.files[f]
    BY <2>1, <2>2
  <2> QED BY <1>5, <2>1, <2>2, <2>3 DEF Encrypted
<1> QED BY <1>5, <1>6

LEMMA MirrorUpInv == ASSUME IndInv, MirrorUp PROVE IndInv'
<1>1. PICK m : m = Mirrored
  OBVIOUS
<1>2. /\ m \in Manifest /\ m.slots = manifest.slots /\ m.initialized = manifest.initialized
      /\ \A f \in Encrypted(m) : f \in Encrypted(manifest) /\ m.files[f] = manifest.files[f]
  BY <1>1, MirroredIs DEF IndInv
<1>3. PICK todo : todo = Tracked(m) \cap Tracked(manifest)
  OBVIOUS
<1>4. run' = [cmd |-> "mirror", at |-> "hashing", dek |-> None, old |-> None, mem |-> m, todo |-> todo]
  BY <1>1, <1>3 DEF MirrorUp, Idle
<1>5. run' \in Run
  <2>1. todo \subseteq File
    BY <1>2, <1>3, TrackedIn
  <2> QED BY <1>2, <1>4, <2>1 DEF Run
<1>6. store \subseteq store' /\ store' \subseteq Blob
  BY <1>1, <1>2, TrackedIn, Types DEF MirrorUp, IndInv
<1>7. ManifestOK(manifest, store, used)
  BY DEF IndInv
<1>8. Held(m, store')
  BY <1>2, <1>6, <1>7 DEF ManifestOK, Held
<1>9. PICK d \in Dek \cup {None} : Under(manifest, d)
  BY <1>7 DEF ManifestOK
<1>10. Under(m, d)
  BY <1>2, <1>9 DEF Under, Slots
<1>11. ~manifest.initialized => Encrypted(m) = {}
  BY <1>2, <1>7 DEF ManifestOK
<1>12. /\ run'.cmd = "mirror" /\ run'.at = "hashing" /\ run'.dek = None /\ run'.mem = m /\ run'.todo = todo
  BY <1>4
<1>13. <<"mirror", "hashing">> \in Phases /\ None \notin Dek
  BY NoneAssumption DEF Phases
<1>14. RunOK(run', manifest, store', used)
  BY <1>2, <1>3, <1>8, <1>9, <1>10, <1>11, <1>12, <1>13 DEF RunOK
<1>15. UNCHANGED <<disk, manifest, inserted, used>> /\ used \in 0 .. MaxDek /\ used \in Nat
  BY Types DEF MirrorUp, IndInv, TypeOK
<1> QED BY <1>5, <1>6, <1>14, <1>15, Runs

(* What a restore reads is what was saved, and it opens only what its own  *)
(* DEK has sealed.                                                         *)
LEMMA RestoreEntryIs ==
  ASSUME IndInv, run # Idle, RestoreEntry
  PROVE  \E f \in run.todo :
           /\ f \in Tracked(manifest) /\ run' = [run EXCEPT !.todo = @ \ {f}]
           /\ \/ disk' = disk
              \/ /\ disk' = [disk EXCEPT ![f] = manifest.files[f].blob.data]
                 /\ f \in Encrypted(manifest) => manifest.files[f].blob.data = manifest.files[f].plain
<1>1. PICK f \in run.todo :
        /\ \/ disk' = disk
           \/ /\ run.mem.files[f].encrypted => Opens(run.mem.files[f].blob, run.dek)
              /\ disk' = [disk EXCEPT ![f] = run.mem.files[f].blob.data]
        /\ run' = [run EXCEPT !.todo = @ \ {f}]
  BY DEF RestoreEntry
<1>2. RunOK(run, manifest, store, used)
  BY Running
<1>3. run.at = "restoring" /\ run.cmd = "restore" /\ run.mem = manifest
  BY <1>2 DEF RestoreEntry, RunOK, Phases
<1>4. f \in Tracked(manifest)
  BY <1>2, <1>3 DEF RunOK
<1>5. ASSUME f \in Encrypted(manifest), Opens(manifest.files[f].blob, run.dek)
      PROVE  manifest.files[f].blob.data = manifest.files[f].plain
  <2>1. run.dek \in Dek
    BY <1>2, <1>3, <1>5 DEF RunOK
  <2>2. manifest.files[f].blob.dek # None
    BY <1>5, <2>1, NoneAssumption DEF Opens
  <2>3. Held(manifest, store)
    BY DEF IndInv, ManifestOK
  <2> QED BY <1>5, <2>2, <2>3 DEF Held
<1>6. f \in Encrypted(manifest) => manifest.files[f].encrypted
  BY DEF Encrypted
<1> QED BY <1>1, <1>3, <1>4, <1>5, <1>6

LEMMA RestoreEntryInv == ASSUME IndInv, run # Idle, RestoreEntry PROVE IndInv'
<1>1. PICK f \in run.todo :
        /\ f \in Tracked(manifest) /\ run' = [run EXCEPT !.todo = @ \ {f}]
        /\ disk' = disk \/ disk' = [disk EXCEPT ![f] = manifest.files[f].blob.data]
  BY RestoreEntryIs
<1>2. run' \in Run /\ RunOK(run', manifest, store, used)
  BY <1>1, SkippedOK DEF RestoreEntry
<1>3. disk' \in [File -> Content \cup {None}]
  <2>1. manifest.files[f].blob \in Blob
    BY <1>1, Types, TrackedIn DEF IndInv
  <2>2. manifest.files[f].blob.data \in Content
    BY <2>1 DEF Blob
  <2> QED BY <1>1, <2>2, Types DEF IndInv
<1>4. UNCHANGED <<manifest, store, inserted, used>>
  BY DEF RestoreEntry
<1> QED BY <1>2, <1>3, <1>4 DEF IndInv, TypeOK

LEMMA EndsInv == ASSUME IndInv, EndRestore \/ Stop PROVE IndInv'
  BY Types, IdleType, Runs DEF EndRestore, Stop, IndInv, TypeOK

LEMMA SaveInv == ASSUME IndInv, run # Idle, Save PROVE IndInv'
<1>1. RunOK(run, manifest, store, used) /\ run.mem \in Manifest /\ Slots(run.mem) = Slots(manifest)
  BY Running
<1>2. run.at # "reencrypting"
  BY DEF Save
<1>3. ManifestOK(run.mem, store, used)
  <2>1. \A n \in Slots(run.mem) : run.mem.slots[n].dek <= used
    BY <1>1 DEF RunOK, IndInv, ManifestOK
  <2>2. ~run.mem.initialized => Slots(run.mem) = {} /\ Encrypted(run.mem) = {}
    BY <1>1 DEF RunOK, IndInv, ManifestOK
  <2> QED BY <1>1, <1>2, <2>1, <2>2 DEF RunOK, ManifestOK
<1> QED BY <1>1, <1>3, Saves DEF Save, IndInv

-----------------------------------------------------------------------------
(* Rotation. *)

LEMMA BeginRotationInv == ASSUME IndInv, run # Idle, BeginRotation PROVE IndInv'
<1>1. RunOK(run, manifest, store, used) /\ run \in Run /\ run.mem \in Manifest
  BY Running
<1>2. used' = used + 1 /\ used' \in Dek /\ used' \in 0 .. MaxDek /\ used \in Nat
  BY Types, MaxDekAssumption DEF BeginRotation, Dek, IndInv
<1>3. run.dek \in Dek /\ run.dek < used' /\ manifest.initialized
  BY <1>1, <1>2, UnlockedRun, MaxDekAssumption DEF BeginRotation, Dek, RunOK
<1>4. Encrypted(run.mem) \subseteq Tracked(run.mem) /\ Tracked(run.mem) \subseteq File
  BY <1>1, EncryptedIn, TrackedIn
<1>5. /\ run' \in Run /\ run'.cmd = "rotate" /\ run'.at = "reencrypting" /\ run'.dek = used'
      /\ run'.old = run.dek /\ run'.mem = run.mem /\ run'.todo = Encrypted(run.mem)
  BY <1>1, <1>2, <1>3, <1>4 DEF BeginRotation, Run
<1>6. <<"rotate", "reencrypting">> \in Phases
  BY DEF Phases
<1>7. RunOK(run', manifest, store, used')
  <2>1. /\ run.mem.initialized = manifest.initialized /\ run.mem.slots = manifest.slots
        /\ Held(run.mem, store)
    BY <1>1 DEF RunOK
  <2>2. run'.todo \subseteq Tracked(run'.mem) /\ Encrypted(run'.mem) \ run'.todo = {}
    BY <1>4, <1>5
  <2>3. run'.old \in Dek /\ run'.old < run'.dek /\ run'.dek \in Dek /\ run'.dek <= used'
    BY <1>2, <1>3, <1>5
  <2> QED BY <1>1, <1>3, <1>5, <1>6, <2>1, <2>2, <2>3 DEF RunOK
<1>8. UNCHANGED <<disk, manifest, store, inserted>> /\ store \subseteq Blob
  BY Types DEF BeginRotation, IndInv
<1> QED BY <1>2, <1>5, <1>7, <1>8, Runs

LEMMA ReencryptInv == ASSUME IndInv, run # Idle, Reencrypt PROVE IndInv'
<1>1. PICK f, new :
        /\ f \in run.todo
        /\ new = [run.mem.files[f].blob EXCEPT !.dek = run.dek]
        /\ run.mem.files[f].blob \in store /\ Opens(run.mem.files[f].blob, run.old)
        /\ store' = store \cup {new}
        /\ run' = [run EXCEPT !.mem.files[f].blob = new, !.todo = @ \ {f}]
  BY DEF Reencrypt
<1>2. RunOK(run, manifest, store, used) /\ run \in Run /\ run.mem \in Manifest
  BY Running
<1>3. run.at = "reencrypting" /\ run.cmd = "rotate" /\ run.dek \in Dek /\ run.old \in Dek
  BY <1>2 DEF Reencrypt, RunOK, Phases
<1>4. f \in Tracked(run.mem) /\ f \in File /\ run.mem.files[f] \in Entry /\ run.mem.files[f].blob \in Blob
  BY <1>1, <1>2, TrackedIn DEF RunOK
<1>5. new \in Blob /\ new.dek = run.dek /\ new.data = run.mem.files[f].blob.data
  BY <1>1, <1>3, <1>4 DEF Blob
<1>6. PICK x : x = [run.mem.files[f] EXCEPT !.blob = new]
  OBVIOUS
<1>7. /\ x \in Entry /\ x.encrypted = run.mem.files[f].encrypted /\ x.blob = new
      /\ x.plain = run.mem.files[f].plain
  BY <1>4, <1>5, <1>6 DEF Entry
<1>8. GoesOn(f, Put(run.mem, f, x))
  BY <1>1, <1>2, <1>6 DEF GoesOn, Put, Run
<1>a. /\ Put(run.mem, f, x) \in Manifest /\ Put(run.mem, f, x).slots = run.mem.slots
      /\ Put(run.mem, f, x).initialized = run.mem.initialized
      /\ Put(run.mem, f, x).files[f] = x
      /\ \A g \in File : g # f => Put(run.mem, f, x).files[g] = run.mem.files[g]
      /\ \A g \in Encrypted(Put(run.mem, f, x)) : g \in File /\ (g # f => g \in Encrypted(run.mem))
      /\ f \in Encrypted(Put(run.mem, f, x)) => x.encrypted
      /\ f \in Tracked(run.mem) => Tracked(run.mem) \subseteq Tracked(Put(run.mem, f, x))
  <2>1. run.mem \in Manifest /\ f \in File /\ x \in Entry
    BY <1>2, <1>4, <1>7
  <2> QED BY <2>1, PutEntry
<1>9. PICK m : m = Put(run.mem, f, x)
  OBVIOUS
<1>10. /\ m \in Manifest /\ m.slots = run.mem.slots /\ m.initialized = run.mem.initialized
       /\ m.files[f] = x /\ \A g \in File : g # f => m.files[g] = run.mem.files[g]
       /\ \A g \in Encrypted(m) : g \in File /\ (g # f => g \in Encrypted(run.mem))
       /\ f \in Encrypted(m) => x.encrypted
       /\ Tracked(run.mem) \subseteq Tracked(m)
  BY <1>4, <1>9, <1>a
<1>11. /\ run' \in Run /\ run'.cmd = run.cmd /\ run'.at = run.at /\ run'.dek = run.dek
       /\ run'.old = run.old /\ run'.mem = m /\ run'.todo = run.todo \ {f}
  BY <1>2, <1>8, <1>9, <1>10, GoesOnIs
<1>12. Held(m, store')
  <2>1. x.encrypted /\ x.blob.dek # None => x.blob \in store' /\ x.blob.data = x.plain
    <3>1. SUFFICES ASSUME x.encrypted PROVE run.mem.files[f].blob.data = run.mem.files[f].plain
      BY <1>1, <1>5, <1>7
    <3>2. f \in Encrypted(run.mem) /\ run.mem.files[f].blob.dek # None
      BY <1>1, <1>3, <1>4, <1>7, <3>1, NoneAssumption DEF Encrypted, Opens
    <3> QED BY <1>2, <3>2 DEF RunOK, Held
  <2>2. Held(run.mem, store) /\ store \subseteq store'
    BY <1>1, <1>2 DEF RunOK
  <2> QED BY <1>2, <1>4, <1>7, <1>9, <2>1, <2>2, PutHeld
<1>13. \A g \in Encrypted(m) \ (run.todo \ {f}) : m.files[g].blob.dek = run.dek
  BY <1>2, <1>3, <1>5, <1>7, <1>10 DEF RunOK
<1>14. ~manifest.initialized => Encrypted(m) = {}
  BY <1>2, <1>3 DEF RunOK
<1>15. RunOK(run', manifest, store', used)
  BY <1>2, <1>3, <1>10, <1>11, <1>12, <1>13, <1>14 DEF RunOK
<1>16. UNCHANGED <<disk, manifest, inserted, used>> /\ store \subseteq store' /\ store' \subseteq Blob
       /\ used \in 0 .. MaxDek /\ used \in Nat
  BY <1>1, <1>5, Types DEF Reencrypt, IndInv, TypeOK
<1> QED BY <1>11, <1>15, <1>16, Runs

(* The rotation saves slots and blobs under the new DEK. *)
LEMMA RewrapIs ==
  ASSUME IndInv, run # Idle, Rewrap
  PROVE  \E s \in [Name -> Slot \cup {None}] :
           /\ manifest' = [run.mem EXCEPT !.slots = s] /\ run' = Idle
           /\ UNCHANGED <<disk, store, inserted, used>>
           /\ \A n \in Name : s[n] # None => s[n].dek = run.dek
           /\ run.old < run.dek /\ run.dek \in Dek /\ run.old \in Dek
           /\ \A f \in Encrypted(run.mem) : run.mem.files[f].blob.dek = run.dek
<1>1. PICK p, ready : p \in Passphrase /\ SaveSlots(Rewrapped(run.mem.slots, p, ready, run.dek))
  BY DEF Rewrap
<1>2. RunOK(run, manifest, store, used) /\ run.mem \in Manifest
  BY Running
<1>3. run.at = "reencrypting" /\ run.cmd = "rotate" /\ run.dek \in Dek /\ run.todo = {}
  BY <1>2 DEF Rewrap, RunOK, Phases
<1>4. PICK s : s = Rewrapped(run.mem.slots, p, ready, run.dek)
  OBVIOUS
<1>5. \A n \in Name : run.mem.slots[n] # None =>
        run.mem.slots[n] \in Slot /\ [run.mem.slots[n] EXCEPT !.dek = run.dek] \in Slot
        /\ [run.mem.slots[n] EXCEPT !.dek = run.dek].dek = run.dek
  BY <1>2, <1>3 DEF Manifest, Slot
<1>6. [kek |-> p, dek |-> run.dek] \in Slot
  BY <1>1, <1>3 DEF Slot
<1>7. s \in [Name -> Slot \cup {None}] /\ \A n \in Name : s[n] # None => s[n].dek = run.dek
  BY <1>4, <1>5, <1>6 DEF Rewrapped
<1>8. manifest' = [run.mem EXCEPT !.slots = s] /\ run' = Idle /\ UNCHANGED <<disk, store, inserted, used>>
  BY <1>1, <1>4 DEF SaveSlots
<1> QED BY <1>2, <1>3, <1>7, <1>8 DEF RunOK

LEMMA RewrapInv == ASSUME IndInv, run # Idle, Rewrap PROVE IndInv'
<1>1. PICK s \in [Name -> Slot \cup {None}] :
        /\ manifest' = [run.mem EXCEPT !.slots = s] /\ run' = Idle
        /\ UNCHANGED <<disk, store, inserted, used>>
        /\ \A n \in Name : s[n] # None => s[n].dek = run.dek
        /\ run.dek \in Dek
        /\ \A f \in Encrypted(run.mem) : run.mem.files[f].blob.dek = run.dek
  BY RewrapIs
<1>2. /\ run.mem \in Manifest /\ Held(run.mem, store) /\ run.mem.initialized /\ run.dek <= used
  BY <1>1, Running DEF RunOK
<1>3. ManifestOK(manifest', store, used)
  BY <1>1, <1>2, SlotsOK
<1> QED BY <1>1, <1>2, <1>3, PutSlots, Saves DEF IndInv

-----------------------------------------------------------------------------
LEMMA NextInv == IndInv /\ [Next]_vars => IndInv'
<1> SUFFICES ASSUME IndInv, [Next]_vars PROVE IndInv'
  OBVIOUS
<1>1. CASE UNCHANGED vars
  BY <1>1 DEF vars, IndInv, TypeOK
<1>2. CASE UserWrites
  BY <1>2 DEF UserWrites, IndInv, TypeOK
<1>3. CASE Insert
  BY <1>3 DEF Insert, IndInv, TypeOK
<1>4. CASE run = Idle
  <2>1. run.cmd = "none" /\ run.at = "idle"
    BY <1>4 DEF Idle
  <2>2. ~AddFIDO2Slot /\ ~ChangePassphrase /\ ~BeginRotation /\ ~Reencrypt /\ ~Rewrap
        /\ ~CheckpointEntry /\ ~Rehash /\ ~RestoreEntry /\ ~Save
    BY <2>1 DEF AddFIDO2Slot, ChangePassphrase, BeginRotation, Reencrypt, Rewrap, CheckpointEntry,
                Rehash, RestoreEntry, Save
  <2>3. Checkpoint \/ Restore => IndInv'
    BY OpenInv DEF Checkpoint, Restore
  <2> QED BY <1>1, <1>2, <1>3, <2>2, <2>3, EncryptInitInv, UnlockForSlotsInv, RemoveSlotInv, AddInv,
             MirrorUpInv, EndsInv DEF Next
<1>5. CASE run # Idle
  <2>1. ~EncryptInit /\ ~UnlockForSlots /\ ~RemoveSlot /\ ~Add /\ ~Checkpoint /\ ~MirrorUp /\ ~Restore
    BY <1>5 DEF EncryptInit, UnlockForSlots, RemoveSlot, Add, Checkpoint, MirrorUp, Restore, Open
  <2> QED BY <1>1, <1>2, <1>3, <1>5, <2>1, AddFIDO2SlotInv, ChangePassphraseInv, BeginRotationInv,
             ReencryptInv, RewrapInv, CheckpointEntryInv, RehashInv, RestoreEntryInv, EndsInv, SaveInv
          DEF Next
<1> QED BY <1>4, <1>5

(* IndInv: all slots of the manifest wrap one DEK, under which its sealed  *)
(* blobs are, and a command under way has that DEK in hand or replaces it. *)
THEOREM Inductive == Spec => []IndInv
BY InitInv, NextInv, PTL DEF Spec

(* TypeOK: every variable of Encryption stays in its type. *)
THEOREM TypeCorrect == Spec => []TypeOK
<1>1. IndInv => TypeOK
  BY DEF IndInv
<1> QED BY <1>1, Inductive, PTL

(* SlotsOpenSealed: whatever slots come and go, however often the DEK is   *)
(* rotated and wherever a command is killed, every slot opens every sealed *)
(* blob of the manifest.                                                   *)
THEOREM SlotsOpen == Spec => []SlotsOpenSealed
<1>1. IndInv => SlotsOpenSealed
  <2> SUFFICES ASSUME IndInv, NEW f \in Encrypted(manifest), manifest.files[f].blob.dek # None
               PROVE  OpenedByAllSlots(manifest, f)
    BY DEF SlotsOpenSealed
  <2>1. PICK d : Under(manifest, d)
    BY DEF IndInv, ManifestOK
  <2>2. manifest.files[f].blob.dek = d
    BY <2>1 DEF Under
  <2>3. \A n \in Slots(manifest) : Opens(manifest.files[f].blob, manifest.slots[n].dek)
    BY <2>1, <2>2 DEF Under, Opens
  <2>4. Held(manifest, store)
    BY DEF IndInv, ManifestOK
  <2> QED BY <2>3, <2>4 DEF Held, OpenedByAllSlots
<1> QED BY <1>1, Inductive, PTL

(* RotationReplacesDek: nothing that a rotation saves is still under the   *)
(* DEK it replaced.                                                        *)
THEOREM RotationReplaces == Spec => RotationReplacesDek
<1>1. IndInv /\ [Next]_vars =>
        [run.at = "reencrypting" /\ manifest' # manifest =>
          /\ \A n \in Slots(manifest') : manifest'.slots[n].dek # run.old
          /\ \A f \in Encrypted(manifest') : manifest'.files[f].blob.dek # run.old]_vars
  <2> SUFFICES ASSUME IndInv, Next, run.at = "reencrypting", manifest' # manifest
               PROVE  /\ \A n \in Slots(manifest') : manifest'.slots[n].dek # run.old
                      /\ \A f \in Encrypted(manifest') : manifest'.files[f].blob.dek # run.old
    BY DEF vars
  <2>1. run # Idle
    BY DEF Idle
  <2>2. run.cmd = "rotate"
    BY <2>1, Running DEF RunOK, Phases
  <2>3. Rewrap
    BY <2>1, <2>2 DEF Next, UserWrites, Insert, EncryptInit, UnlockForSlots, AddFIDO2Slot, RemoveSlot,
         ChangePassphrase, BeginRotation, Reencrypt, Add, Checkpoint, Open, CheckpointEntry, MirrorUp,
         Rehash, Restore, RestoreEntry, EndRestore, Save, Stop
  <2>4. PICK s \in [Name -> Slot \cup {None}] :
          /\ manifest' = [run.mem EXCEPT !.slots = s]
          /\ \A n \in Name : s[n] # None => s[n].dek = run.dek
          /\ run.old < run.dek /\ run.dek \in Dek /\ run.old \in Dek
          /\ \A f \in Encrypted(run.mem) : run.mem.files[f].blob.dek = run.dek
    BY <2>1, <2>3, RewrapIs
  <2>5. /\ manifest'.slots = s /\ manifest'.files = run.mem.files
        /\ Encrypted(manifest') = Encrypted(run.mem)
    BY <2>1, <2>4, Running, PutSlots
  <2>6. run.old # run.dek
    BY <2>4, MaxDekAssumption DEF Dek
  <2> QED BY <2>4, <2>5, <2>6 DEF Slots
<1> QED BY <1>1, Inductive, PTL DEF Spec, RotationReplacesDek

(* RestoresPlaintext: what a restore writes over an encrypted file is the  *)
(* plaintext recorded for it, whatever has become of the entry.            *)
THEOREM RestoresWhatWasSealed == Spec => RestoresPlaintext
<1>1. IndInv /\ [Next]_vars =>
        [\A f \in Encrypted(manifest) :
          RestoreEntry /\ disk'[f] # disk[f] => disk'[f] = manifest.files[f].plain]_vars
  <2> SUFFICES ASSUME IndInv, NEW g \in Encrypted(manifest), RestoreEntry, disk'[g] # disk[g]
               PROVE  disk'[g] = manifest.files[g].plain
    OBVIOUS
  <2>1. run # Idle
    BY DEF RestoreEntry, Idle
  <2>2. PICK f \in run.todo :
          /\ f \in Tracked(manifest)
          /\ \/ disk' = disk
             \/ /\ disk' = [disk EXCEPT ![f] = manifest.files[f].blob.data]
                /\ f \in Encrypted(manifest) => manifest.files[f].blob.data = manifest.files[f].plain
    BY <2>1, RestoreEntryIs
  <2>3. f \in File /\ disk \in [File -> Content \cup {None}]
    BY <2>2, Types, TrackedIn DEF IndInv
  <2>4. g = f
    <3>1. ASSUME disk' = [disk EXCEPT ![f] = manifest.files[f].blob.data], g # f
          PROVE  disk'[g] = disk[g]
      BY <2>3, <3>1
    <3> QED BY <2>2, <3>1
  <2>5. disk'[f] = manifest.files[f].blob.data
    BY <2>2, <2>3, <2>4
  <2>6. f \in Encrypted(manifest) => manifest.files[f].blob.data = manifest.files[f].plain
    BY <2>2, <2>4
  <2> QED BY <2>4, <2>5, <2>6
<1> QED BY <1>1, Inductive, PTL DEF Spec, RestoresPlaintext
=============================================================================
