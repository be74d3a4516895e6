----------------------------- MODULE FleetProofs ----------------------------
(* Proofs about Fleet, for every number of machines, files and labels and  *)
(* however many blobs are damaged.                                         *)
EXTENDS Fleet, TLAPS

Blob == Data \cup {None}

LEMMA BlobType == None \in Blob /\ (\A d \in Data : d \in Blob /\ d # None)
  BY NoneAssumption DEF Blob

LEMMA NewType ==
  ASSUME NEW t \in Time
  PROVE  New(t) \in Manifest /\ New(t).updated = t /\ Tracked(New(t)) = {}
  BY DEF New, Manifest, Tracked

(* What a manifest holds of a path that is tracked. *)
LEMMA TrackedEntry ==
  ASSUME NEW n \in Manifest, NEW f \in Tracked(n)
  PROVE  f \in File /\ n.files[f] \in Entry /\ n.files[f].data \in Data
  BY DEF Manifest, Tracked, Entry

(* Nothing is lost or changed between the sender of a manifest and its     *)
(* receiver.                                                               *)
LEMMA ConvertedSame ==
  ASSUME NEW n \in Manifest
  PROVE  Converted(n) = n
<1> DEFINE ConvertedEntry(e) == [data |-> e.data, only |-> e.only, never |-> e.never]
           G == [f \in File |-> IF n.files[f] = None THEN None ELSE ConvertedEntry(n.files[f])]
<1>1. \A e \in Entry : ConvertedEntry(e) = e
  BY DEF Entry
<1>2. n.files \in [File -> Entry \cup {None}] /\ n = [updated |-> n.updated, files |-> n.files]
  BY DEF Manifest
<1>3. \A f \in File : G[f] = n.files[f]
  <2> TAKE f \in File
  <2>1. CASE n.files[f] = None
    BY <2>1
  <2>2. CASE n.files[f] # None
    BY <1>1, <1>2, <2>2
  <2> QED BY <2>1, <2>2
<1>4. G = n.files
  BY <1>2, <1>3
<1> QED BY <1>2, <1>4 DEF Converted

LEMMA WroteIs ==
  ASSUME NEW blobs \in [Data -> Blob], NEW contents
  PROVE  /\ Wrote(blobs, contents) \in [Data -> Blob]
         /\ \A h \in Data : blobs[h] # None => Wrote(blobs, contents)[h] = blobs[h]
         /\ \A h \in Data : Wrote(blobs, contents)[h] \in {h, blobs[h]}
         /\ \A h \in Data : h \in contents => Wrote(blobs, contents)[h] # None
  BY BlobType DEF Wrote, Blob

LEMMA DeletedIs ==
  ASSUME NEW blobs \in [Data -> Blob], NEW hashes
  PROVE  /\ Deleted(blobs, hashes) \in [Data -> Blob]
         /\ \A h \in Data : Deleted(blobs, hashes)[h] \in {None, blobs[h]}
         /\ \A h \in Data : h \notin hashes => Deleted(blobs, hashes)[h] = blobs[h]
  BY DEF Deleted, Blob

(* The receiver of blobs names them by their contents. *)
LEMMA ReceivedIs ==
  ASSUME NEW to \in [Data -> Blob], NEW from \in [Data -> Blob], NEW sent
  PROVE  /\ Received(to, from, sent) \in [Data -> Blob]
         /\ \A h \in Data : to[h] # None => Received(to, from, sent)[h] = to[h]
         /\ \A h \in Data : Received(to, from, sent)[h] \in {h, to[h]}
         /\ \A h \in Data : h \in sent \cap Sound(from) => Received(to, from, sent)[h] # None
<1> DEFINE contents == {from[h] : h \in sent}
<1>1. \A h \in Data : h \in sent \cap Sound(from) => h \in contents
  BY DEF Sound
<1> HIDE DEF contents
<1>2. Received(to, from, sent) = Wrote(to, contents)
  BY DEF Received, contents
<1> QED BY <1>1, <1>2, WroteIs

LEMMA RestoredType ==
  ASSUME NEW m \in Machine, NEW n \in Manifest, NEW blobs \in [Data -> Blob],
         NEW done \in SUBSET Applying(n, m), home \in [Machine -> [File -> Blob]]
  PROVE  Restored(m, n, blobs, done) \in [File -> Blob]
<1>1. \A f \in done : n.files[f].data \in Data
  BY TrackedEntry DEF Applying
<1> QED BY <1>1 DEF Restored

LEMMA RestoredWithin ==
  ASSUME NEW m \in Machine, NEW n, NEW blobs, NEW force, NEW done, MayRestore(m, n, blobs, force, done)
  PROVE  done \in SUBSET Applying(n, m)
  BY DEF MayRestore

LEMMA AfterPullWithin ==
  ASSUME NEW m \in Machine, NEW n, NEW blobs, NEW wanted, NEW done, AfterPull(m, n, blobs, wanted, done)
  PROVE  done \in SUBSET Applying(n, m)
<1>1. CASE wanted = {} \/ Conflicting(n)
  BY <1>1 DEF AfterPull
<1>2. CASE ~(wanted = {} \/ Conflicting(n))
  BY <1>2, RestoredWithin DEF AfterPull
<1> QED BY <1>1, <1>2

LEMMA TargetingsType ==
  ASSUME NEW t \in Targetings
  PROVE  t \in Targeting /\ (t.only = {} \/ t.never = {})
  BY LabelAssumption DEF Targetings, Targeting, Everywhere

LEMMA PassesTo ==
  ASSUME clock \in Time, Passes
  PROVE  Now \in Time /\ clock' = Now /\ clock' \in Time /\ Now > clock
  BY BoundAssumption DEF Time, Passes, Now

LEMMA SiteTypes ==
  ASSUME TypeOK, NEW s \in Site
  PROVE  /\ manifest[s] # None => manifest[s] \in Manifest
         /\ store[s] \in [Data -> Blob]
         /\ s \in Machine => home[s] \in [File -> Blob] /\ tags[s] \in SUBSET Tag
         /\ clock \in Time
         /\ Server \in Site /\ Machine \subseteq Site
  BY DEF TypeOK, Blob, Site

LEMMA OpenedType ==
  ASSUME TypeOK, NEW m \in Machine, manifest[m] = None => Passes
  PROVE  Opened(m) \in Manifest
  BY SiteTypes, PassesTo, NewType DEF Opened, Site

-----------------------------------------------------------------------------
(* What the commands put in the manifest of their machine. *)

LEMMA AddedType ==
  ASSUME TypeOK, NEW n \in Manifest, NEW f \in File, NEW t \in Targetings, NEW d \in Data, Passes
  PROVE  /\ [data |-> d, only |-> t.only, never |-> t.never] \in Entry
         /\ Added(n, f, [data |-> d, only |-> t.only, never |-> t.never]) \in Manifest
         /\ Added(n, f, [data |-> d, only |-> t.only, never |-> t.never]).updated = Now
<1>1. [data |-> d, only |-> t.only, never |-> t.never] \in Entry
  BY TargetingsType DEF Entry, Targeting
<1>2. n.files \in [File -> Entry \cup {None}] /\ Now \in Time
  BY PassesTo DEF Manifest, TypeOK
<1> QED BY <1>1, <1>2 DEF Manifest, Added

LEMMA FoundType ==
  ASSUME TypeOK, NEW m \in Machine, NEW n \in Manifest, NEW f \in Found(n, m)
  PROVE  f \in Tracked(n) /\ home[m][f] \in Data /\ n.files[f] \in Entry
  BY SiteTypes, TrackedEntry DEF Found, Applying, Site, Blob

LEMMA CheckpointedType ==
  ASSUME TypeOK, NEW m \in Machine, NEW n \in Manifest, Passes
  PROVE  Checkpointed(n, m) \in Manifest /\ Checkpointed(n, m).updated = Now
<1>1. \A f \in Found(n, m) : [n.files[f] EXCEPT !.data = home[m][f]] \in Entry
  BY FoundType DEF Entry
<1>2. \A f \in File : n.files[f] \in Entry \cup {None}
  BY DEF Manifest
<1>3. Stamp(n) = Now /\ Now \in Time
  BY PassesTo DEF Stamp, TypeOK
<1> QED BY <1>1, <1>2, <1>3 DEF Manifest, Checkpointed

LEMMA EditedType ==
  ASSUME NEW n \in Manifest, NEW f \in File, NEW e \in Entry \cup {None}
  PROVE  [n EXCEPT !.files[f] = e] \in Manifest
  BY DEF Manifest

LEMMA RetargetedType ==
  ASSUME NEW e \in Entry, NEW t \in Targetings
  PROVE  Retargeted(e, t) \in Entry
  BY TargetingsType DEF Retargeted, Entry, Targeting

-----------------------------------------------------------------------------
(* Type correctness: whatever commands run and wherever they are cut off.  *)

LEMMA InitTypeOK == Init => TypeOK
<1> SUFFICES ASSUME Init PROVE TypeOK
  OBVIOUS
<1>1. 0 \in Time
  BY BoundAssumption DEF Time
<1>2. New(0) \in Manifest /\ New(0) # None
  BY <1>1, NewType, NoneAssumption
<1> QED BY <1>1, <1>2, SiteAssumption DEF Init, TypeOK, NoBlobs, Site

LEMMA NextTypeOK == TypeOK /\ [Next]_vars => TypeOK'
<1> SUFFICES ASSUME TypeOK, [Next]_vars PROVE TypeOK'
  OBVIOUS
<1> USE DEF Blob
<1>1. CASE UNCHANGED vars
  BY <1>1 DEF TypeOK, vars
<1>2. ASSUME NEW m \in Machine, UserWrites(m) PROVE TypeOK'
  BY <1>2, PassesTo, DataAssumption DEF UserWrites, TypeOK
<1>3. ASSUME NEW m \in Machine, SaveTag(m) \/ RemoveTag(m) PROVE TypeOK'
  <2>1. \E all \in SUBSET Tag : WriteTags(m, all)
    <3>1. CASE SaveTag(m)
      BY <3>1 DEF SaveTag, TypeOK
    <3>2. CASE RemoveTag(m)
      BY <3>2 DEF RemoveTag, TypeOK
    <3> QED BY <1>3, <3>1, <3>2
  <2> QED BY <2>1 DEF WriteTags, TypeOK
<1>4. ASSUME NEW m \in Machine, InitGarden(m) PROVE TypeOK'
  <2>1. New(Now) \in Manifest /\ m # Server /\ m \in Site
    BY <1>4, PassesTo, NewType, SiteAssumption DEF InitGarden, TypeOK, Site
  <2> QED BY <1>4, <2>1, PassesTo DEF InitGarden, TypeOK
<1>5. ASSUME NEW m \in Machine, Add(m) PROVE TypeOK'
  <2> PICK f \in File, t \in Targetings :
        LET n == manifest[m]
            d == home[m][f]
            e == [data |-> d, only |-> t.only, never |-> t.never]
        IN  /\ d # None
            /\ manifest' = [manifest EXCEPT ![m] = Added(n, f, e)]
            /\ store' = [store EXCEPT ![m] = Wrote(@, IF f \in Tracked(n) THEN {} ELSE {d})]
    BY <1>5 DEF Add
  <2>1. m # Server /\ m \in Site /\ manifest[m] \in Manifest /\ Passes /\ home[m][f] \in Data
    BY <1>5, SiteAssumption, SiteTypes DEF Add, Site
  <2>2. PICK new \in Manifest : manifest' = [manifest EXCEPT ![m] = new]
    BY <2>1, AddedType
  <2>3. PICK contents : store' = [store EXCEPT ![m] = Wrote(@, contents)]
    OBVIOUS
  <2>4. Wrote(store[m], contents) \in [Data -> Blob]
    BY <2>1, SiteTypes, WroteIs
  <2>5. manifest' \in [Site -> Manifest \cup {None}] /\ manifest'[Server] # None
    BY <2>1, <2>2 DEF TypeOK
  <2>6. store' \in [Site -> [Data -> Data \cup {None}]]
    BY <2>1, <2>3, <2>4 DEF TypeOK
  <2>7. UNCHANGED <<home, tags, damaged>>
    BY <1>5 DEF Add
  <2> QED BY <2>1, <2>5, <2>6, <2>7, PassesTo DEF TypeOK
<1>6. ASSUME NEW m \in Machine, Checkpoint(m) PROVE TypeOK'
  <2>1. m # Server /\ m \in Site /\ manifest[m] \in Manifest /\ Passes
    BY <1>6, SiteAssumption, SiteTypes DEF Checkpoint, Site
  <2>2. PICK new \in Manifest : manifest' = [manifest EXCEPT ![m] = new]
    BY <1>6, <2>1, CheckpointedType DEF Checkpoint
  <2>3. PICK contents : store' = [store EXCEPT ![m] = Wrote(@, contents)]
    BY <1>6 DEF Checkpoint
  <2>4. Wrote(store[m], contents) \in [Data -> Blob]
    BY <2>1, SiteTypes, WroteIs
  <2>5. manifest' \in [Site -> Manifest \cup {None}] /\ manifest'[Server] # None
    BY <2>1, <2>2 DEF TypeOK
  <2>6. store' \in [Site -> [Data -> Data \cup {None}]]
    BY <2>1, <2>3, <2>4 DEF TypeOK
  <2>7. UNCHANGED <<home, tags, damaged>>
    BY <1>6 DEF Checkpoint
  <2> QED BY <2>1, <2>5, <2>6, <2>7, PassesTo DEF TypeOK
<1>7. ASSUME NEW m \in Machine, Remove(m) PROVE TypeOK'
  <2> PICK f \in Tracked(manifest[m]) : manifest' = [manifest EXCEPT ![m].files[f] = None]
    BY <1>7 DEF Remove
  <2>1. m # Server /\ m \in Site /\ manifest[m] \in Manifest
    BY <1>7, SiteAssumption, SiteTypes DEF Remove, Site
  <2>2. [manifest[m] EXCEPT !.files[f] = None] \in Manifest
    BY <2>1, EditedType, TrackedEntry
  <2> QED BY <1>7, <2>1, <2>2 DEF Remove, TypeOK
<1>8. ASSUME NEW m \in Machine, SetTargeting(m) PROVE TypeOK'
  <2> PICK f \in Tracked(manifest[m]), t \in Targetings :
        manifest' = [manifest EXCEPT ![m].files[f] = Retargeted(@, t)]
    BY <1>8 DEF SetTargeting
  <2>1. m # Server /\ m \in Site /\ manifest[m] \in Manifest
    BY <1>8, SiteAssumption, SiteTypes DEF SetTargeting, Site
  <2>2. [manifest[m] EXCEPT !.files[f] = Retargeted(manifest[m].files[f], t)] \in Manifest
    BY <2>1, EditedType, TrackedEntry, RetargetedType
  <2> QED BY <1>8, <2>1, <2>2 DEF SetTargeting, TypeOK
<1>9. ASSUME NEW m \in Machine, Restore(m) PROVE TypeOK'
  <2> PICK done \in SUBSET File, force \in BOOLEAN :
        /\ MayRestore(m, manifest[m], store[m], force, done)
        /\ home' = [home EXCEPT ![m] = Restored(m, manifest[m], store[m], done)]
    BY <1>9 DEF Restore
  <2>1. m \in Site /\ manifest[m] \in Manifest /\ store[m] \in [Data -> Blob]
    BY <1>9, SiteTypes DEF Restore, Site
  <2>2. Restored(m, manifest[m], store[m], done) \in [File -> Blob]
    BY <2>1, RestoredType, RestoredWithin DEF TypeOK
  <2> QED BY <1>9, <2>2 DEF Restore, TypeOK
<1>10. ASSUME NEW m \in Machine, Push(m) \/ PushFails(m) PROVE TypeOK'
  <2> PICK installed \in BOOLEAN : PushTo(m, installed)
    BY <1>10 DEF Push, PushFails
  <2>1. m \in Site /\ manifest[m] \in Manifest /\ Converted(manifest[m]) = manifest[m]
    BY <1>10, SiteTypes, ConvertedSame DEF Push, PushFails, Site
  <2> PICK sent :
        /\ manifest' = [manifest EXCEPT ![Server] = IF installed THEN Converted(manifest[m]) ELSE @]
        /\ store' = [store EXCEPT ![Server] = Received(@, store[m], sent)]
    BY DEF PushTo
  <2>2. Received(store[Server], store[m], sent) \in [Data -> Blob]
    BY <2>1, SiteTypes, ReceivedIs DEF Site
  <2>3. manifest' \in [Site -> Manifest \cup {None}] /\ manifest'[Server] # None
    BY <2>1, NoneAssumption DEF TypeOK, Site
  <2>4. store' \in [Site -> [Data -> Data \cup {None}]]
    BY <2>2 DEF TypeOK
  <2>5. UNCHANGED <<home, tags, damaged, clock>>
    BY <1>10 DEF Push, PushFails
  <2> QED BY <2>3, <2>4, <2>5 DEF TypeOK
<1>11. ASSUME NEW m \in Machine, Pull(m) PROVE TypeOK'
  <2> DEFINE n == Converted(manifest[Server])
             wanted == Missing(n, store[m])
             blobs == Received(store[m], store[Server], wanted)
  <2>1. m # Server /\ m \in Site /\ Server \in Site
    BY SiteAssumption DEF Site
  <2>2. n \in Manifest
    BY <2>1, SiteTypes, ConvertedSame DEF TypeOK
  <2>3. blobs \in [Data -> Blob]
    BY <2>1, SiteTypes, ReceivedIs
  <2>4. PICK done \in SUBSET File :
          AfterPull(m, n, blobs, wanted, done) /\ home' = [home EXCEPT ![m] = Restored(m, n, blobs, done)]
    BY <1>11 DEF Pull
  <2>5. manifest' = [manifest EXCEPT ![m] = n] /\ store' = [store EXCEPT ![m] = blobs]
    BY <1>11 DEF Pull
  <2> HIDE DEF n, wanted, blobs
  <2>6. Restored(m, n, blobs, done) \in [File -> Blob]
    BY <2>2, <2>3, <2>4, RestoredType, AfterPullWithin DEF TypeOK
  <2> QED BY <1>11, <2>1, <2>2, <2>3, <2>4, <2>5, <2>6 DEF Pull, TypeOK
<1>12. ASSUME NEW m \in Machine, PullFails(m) PROVE TypeOK'
  <2> PICK sent : store' = [store EXCEPT ![m] = Received(@, store[Server], sent)]
    BY <1>12 DEF PullFails
  <2>1. m # Server /\ m \in Site /\ Server \in Site
    BY SiteAssumption DEF Site
  <2>2. Received(store[m], store[Server], sent) \in [Data -> Blob]
    BY <2>1, SiteTypes, ReceivedIs
  <2>3. Opened(m) \in Manifest /\ clock' \in Time
    BY <1>12, <2>1, OpenedType, PassesTo, SiteTypes DEF PullFails
  <2>4. manifest' = [manifest EXCEPT ![m] = Opened(m)] /\ UNCHANGED <<home, tags, damaged>>
    BY <1>12 DEF PullFails
  <2> QED BY <2>1, <2>2, <2>3, <2>4 DEF TypeOK
<1>13. ASSUME NEW s \in Site, Prune(s) PROVE TypeOK'
  <2> PICK gone : store' = [store EXCEPT ![s] = Deleted(@, gone)]
    BY <1>13 DEF Prune
  <2>1. Deleted(store[s], gone) \in [Data -> Blob]
    BY SiteTypes, DeletedIs
  <2> QED BY <1>13, <2>1 DEF Prune, TypeOK
<1>14. ASSUME NEW s \in Site, Rot(s) PROVE TypeOK'
  <2> PICK h \in Present(store[s]), d \in Rotten \cup {None} :
        store' = [store EXCEPT ![s][h] = d] /\ damaged' = damaged \cup {<<s, h>>}
    BY <1>14 DEF Rot
  <2>1. h \in Data /\ d \in Blob
    BY DataAssumption DEF Present
  <2> QED BY <1>14, <2>1 DEF Rot, TypeOK
<1>15. ASSUME NEW m \in Machine, AddFails(m) \/ CheckpointFails(m) PROVE TypeOK'
  <2>1. PICK contents : store' = [store EXCEPT ![m] = Wrote(@, contents)]
    BY <1>15 DEF AddFails, CheckpointFails
  <2>2. Wrote(store[m], contents) \in [Data -> Blob]
    BY SiteTypes, WroteIs DEF Site
  <2>3. store' \in [Site -> [Data -> Data \cup {None}]]
    BY <2>1, <2>2 DEF TypeOK
  <2>4. UNCHANGED <<home, tags, manifest, damaged, clock>>
    BY <1>15 DEF AddFails, CheckpointFails
  <2> QED BY <2>3, <2>4 DEF TypeOK
<1> QED BY <1>1, <1>2, <1>3, <1>4, <1>5, <1>6, <1>7, <1>8, <1>9, <1>10, <1>11, <1>12, <1>13, <1>14, <1>15
        DEF Next, Runs

(* TypeOK: whatever the machines do and wherever they are cut off, what    *)
(* they and the server hold are manifests and blobs, and the server always *)
(* has a manifest.                                                         *)
THEOREM TypeCorrect == Spec => []TypeOK
BY InitTypeOK, NextTypeOK, PTL DEF Spec

-----------------------------------------------------------------------------
(* A step leaves the manifests alone, or one site gets a new one, an       *)
(* edited one with the time of the old one, or one of another site.        *)

(* n does not conflict if the manifest of m does not. *)
Clean(n, m) == Conflicting(n) => manifest[m] # None /\ Conflicting(manifest[m])

Stamped == \E m \in Machine, n \in Manifest :
    /\ manifest' = [manifest EXCEPT ![m] = n]
    /\ n.updated = Now /\ clock' = Now /\ Clean(n, m)

Edited == \E m \in Machine, n \in Manifest :
    manifest' = [manifest EXCEPT ![m] = n] /\ Clean(n, m)

Copied == \E s, t \in Site :
    /\ manifest' = [manifest EXCEPT ![s] = manifest[t]]
    /\ manifest[t] # None /\ clock' = clock

LEMMA NewClean ==
  ASSUME NEW t \in Time, NEW m
  PROVE  Clean(New(t), m)
  BY NewType DEF Clean, Conflicting

LEMMA AddedClean ==
  ASSUME NEW m \in Machine, manifest[m] \in Manifest, NEW f \in File, NEW e \in Entry,
         e.only = {} \/ e.never = {}
  PROVE  Clean(Added(manifest[m], f, e), m)
<1> DEFINE n == manifest[m]
<1>1. n # None /\ n.files \in [File -> Entry \cup {None}]
  BY NoneAssumption DEF Manifest
<1>2. \A g \in File : Added(n, f, e).files[g] \in {n.files[g], e}
  BY <1>1 DEF Added
<1> QED BY <1>1, <1>2 DEF Clean, Conflicting, Tracked

LEMMA CheckpointedClean ==
  ASSUME TypeOK, NEW m \in Machine, manifest[m] \in Manifest
  PROVE  Clean(Checkpointed(manifest[m], m), m)
<1> DEFINE n == manifest[m]
           new == Checkpointed(n, m)
<1>1. SUFFICES ASSUME NEW f \in Tracked(new), new.files[f].only # {}, new.files[f].never # {}
               PROVE  f \in Tracked(n) /\ n.files[f].only # {} /\ n.files[f].never # {}
  BY NoneAssumption DEF Clean, Conflicting
<1>2. f \in File /\ new.files[f] # None
  BY DEF Tracked
<1>3. CASE f \in Found(n, m)
  <2>1. new.files[f] = [n.files[f] EXCEPT !.data = home[m][f]]
    BY <1>2, <1>3 DEF Checkpointed
  <2>2. f \in Tracked(n) /\ n.files[f] \in Entry
    BY <1>3, FoundType
  <2> QED BY <1>1, <2>1, <2>2 DEF Entry
<1>4. CASE f \notin Found(n, m)
  <2>1. new.files[f] = n.files[f]
    BY <1>2, <1>4 DEF Checkpointed
  <2> QED BY <1>1, <1>2, <2>1 DEF Tracked
<1> QED BY <1>3, <1>4

LEMMA EditedClean ==
  ASSUME NEW m \in Machine, manifest[m] \in Manifest, NEW f \in File, NEW e \in Entry \cup {None},
         e # None => e.only = {} \/ e.never = {}
  PROVE  Clean([manifest[m] EXCEPT !.files[f] = e], m)
<1> DEFINE n == manifest[m]
           new == [n EXCEPT !.files[f] = e]
<1>1. n # None /\ n.files \in [File -> Entry \cup {None}]
  BY NoneAssumption DEF Manifest
<1>2. new.files = [n.files EXCEPT ![f] = e]
  BY DEF Manifest
<1>3. \A g \in File : new.files[g] \in {n.files[g], e} /\ (g # f => new.files[g] = n.files[g])
  BY <1>1, <1>2
<1> HIDE DEF new
<1> QED BY <1>1, <1>3 DEF Clean, Conflicting, Tracked

LEMMA RetargetedClean ==
  ASSUME NEW e \in Entry, NEW t \in Targetings
  PROVE  Retargeted(e, t).only = {} \/ Retargeted(e, t).never = {}
  BY TargetingsType DEF Retargeted, Entry, Targeting

LEMMA ManifestSteps ==
  ASSUME TypeOK, [Next]_vars
  PROVE  \/ manifest' = manifest /\ clock' \in {clock, Now}
         \/ Stamped
         \/ Edited /\ ~AllStamp /\ clock' = clock
         \/ Copied
<1> DEFINE Same == manifest' = manifest /\ clock' \in {clock, Now}
           Edit == Edited /\ ~AllStamp /\ clock' = clock
<1>0. Server \in Site /\ Machine \subseteq Site
  BY DEF Site
<1>1. CASE UNCHANGED vars
  BY <1>1 DEF vars
<1>2. ASSUME NEW m \in Machine, UserWrites(m) PROVE Same
  BY <1>2 DEF UserWrites, Passes
<1>3. ASSUME NEW m \in Machine, SaveTag(m) \/ RemoveTag(m) PROVE Same
  BY <1>3 DEF SaveTag, RemoveTag, WriteTags
<1>4. ASSUME NEW m \in Machine, InitGarden(m) PROVE Stamped
  <2>1. New(Now) \in Manifest /\ New(Now).updated = Now /\ Clean(New(Now), m) /\ clock' = Now
    BY <1>4, PassesTo, NewType, NewClean DEF InitGarden, TypeOK
  <2>2. manifest' = [manifest EXCEPT ![m] = New(Now)]
    BY <1>4 DEF InitGarden
  <2> QED BY <2>1, <2>2 DEF Stamped
<1>5. ASSUME NEW m \in Machine, Add(m) PROVE Stamped
  <2> PICK f \in File, t \in Targetings :
        LET n == manifest[m]
            d == home[m][f]
            e == [data |-> d, only |-> t.only, never |-> t.never]
        IN  d # None /\ manifest' = [manifest EXCEPT ![m] = Added(n, f, e)]
    BY <1>5 DEF Add
  <2>1. manifest[m] \in Manifest /\ Passes /\ home[m][f] \in Data
    BY <1>0, <1>5, SiteTypes DEF Add, Blob
  <2>2. PICK e \in Entry :
          /\ e = [data |-> home[m][f], only |-> t.only, never |-> t.never]
          /\ Added(manifest[m], f, e) \in Manifest /\ Added(manifest[m], f, e).updated = Now
    BY <2>1, AddedType
  <2>3. Clean(Added(manifest[m], f, e), m)
    BY <2>1, <2>2, AddedClean, TargetingsType
  <2> QED BY <2>1, <2>2, <2>3, PassesTo DEF Stamped, TypeOK
<1>6. ASSUME NEW m \in Machine, Checkpoint(m) PROVE Stamped
  <2>1. manifest[m] \in Manifest /\ Passes
    BY <1>0, <1>6, SiteTypes DEF Checkpoint
  <2>2. manifest' = [manifest EXCEPT ![m] = Checkpointed(manifest[m], m)]
    BY <1>6 DEF Checkpoint
  <2>3. clock' = Now
    BY <2>1 DEF Passes
  <2> QED BY <2>1, <2>2, <2>3, CheckpointedType, CheckpointedClean DEF Stamped
<1>7. ASSUME NEW m \in Machine, Remove(m) PROVE Edit
  <2> PICK f \in Tracked(manifest[m]) : manifest' = [manifest EXCEPT ![m].files[f] = None]
    BY <1>7 DEF Remove
  <2>1. manifest[m] \in Manifest /\ f \in File
    BY <1>0, <1>7, SiteTypes, TrackedEntry DEF Remove
  <2>2. PICK n \in Manifest : n = [manifest[m] EXCEPT !.files[f] = None] /\ Clean(n, m)
    BY <2>1, EditedType, EditedClean
  <2>3. manifest' = [manifest EXCEPT ![m] = n]
    BY <2>2
  <2>4. ~AllStamp /\ clock' = clock
    BY <1>7 DEF Remove, AllStamp
  <2> QED BY <2>2, <2>3, <2>4 DEF Edited
<1>8. ASSUME NEW m \in Machine, SetTargeting(m) PROVE Edit
  <2> PICK f \in Tracked(manifest[m]), t \in Targetings :
        manifest' = [manifest EXCEPT ![m].files[f] = Retargeted(@, t)]
    BY <1>8 DEF SetTargeting
  <2>1. manifest[m] \in Manifest /\ f \in File /\ manifest[m].files[f] \in Entry
    BY <1>0, <1>8, SiteTypes, TrackedEntry DEF SetTargeting
  <2>2. PICK e \in Entry : e = Retargeted(manifest[m].files[f], t) /\ (e.only = {} \/ e.never = {})
    BY <2>1, RetargetedType, RetargetedClean
  <2>3. PICK n \in Manifest : n = [manifest[m] EXCEPT !.files[f] = e] /\ Clean(n, m)
    BY <2>1, <2>2, EditedType, EditedClean
  <2>4. manifest' = [manifest EXCEPT ![m] = n]
    BY <2>2, <2>3
  <2>5. ~AllStamp /\ clock' = clock
    BY <1>8 DEF SetTargeting, AllStamp
  <2> QED BY <2>3, <2>4, <2>5 DEF Edited
<1>9. ASSUME NEW m \in Machine, AddFails(m) \/ CheckpointFails(m) \/ Restore(m) PROVE Same
  BY <1>9 DEF AddFails, CheckpointFails, Restore
<1>10. ASSUME NEW m \in Machine, Push(m) \/ PushFails(m) PROVE Same \/ Copied
  <2>1. manifest[m] # None /\ Converted(manifest[m]) = manifest[m] /\ clock' = clock
    BY <1>0, <1>10, SiteTypes, ConvertedSame DEF Push, PushFails
  <2> PICK installed \in BOOLEAN :
        manifest' = [manifest EXCEPT ![Server] = IF installed THEN Converted(manifest[m]) ELSE @]
    BY <1>10 DEF Push, PushFails, PushTo
  <2>2. CASE installed
    BY <1>0, <2>1, <2>2 DEF Copied
  <2>3. CASE ~installed
    BY <1>0, <2>1, <2>3 DEF TypeOK
  <2> QED BY <2>2, <2>3
<1>11. ASSUME NEW m \in Machine, Pull(m) PROVE Copied
  <2>1. manifest' = [manifest EXCEPT ![m] = Converted(manifest[Server])] /\ clock' = clock
    BY <1>11 DEF Pull
  <2>2. manifest[Server] # None /\ Converted(manifest[Server]) = manifest[Server]
    BY <1>0, SiteTypes, ConvertedSame DEF TypeOK
  <2> QED BY <1>0, <2>1, <2>2 DEF Copied
<1>12. ASSUME NEW m \in Machine, PullFails(m) PROVE Same \/ Stamped
  <2>1. manifest' = [manifest EXCEPT ![m] = Opened(m)] /\ (IF manifest[m] = None THEN Passes ELSE UNCHANGED clock)
    BY <1>12 DEF PullFails
  <2>2. CASE manifest[m] = None
    <3>1. Now \in Time /\ clock' = Now
      BY <2>1, <2>2, PassesTo DEF TypeOK
    <3> QED BY <2>1, <2>2, <3>1, NewType, NewClean DEF Opened, Stamped
  <2>3. CASE manifest[m] # None
    BY <1>0, <2>1, <2>3 DEF Opened, TypeOK
  <2> QED BY <2>2, <2>3
<1>13. ASSUME NEW s \in Site, Prune(s) \/ Rot(s) PROVE Same
  BY <1>13 DEF Prune, Rot
<1> QED BY <1>1, <1>2, <1>3, <1>4, <1>5, <1>6, <1>7, <1>8, <1>9, <1>10, <1>11, <1>12, <1>13
        DEF Next, Runs

-----------------------------------------------------------------------------
(* Times name manifests: no manifest is of a time to come, so that a new   *)
(* time is new everywhere.                                                 *)
NotAhead == \A s \in Site : manifest[s] # None => manifest[s].updated <= clock

LEMMA InitTimes == Init => NotAhead /\ SameTimeSameManifest
<1> SUFFICES ASSUME Init PROVE NotAhead /\ SameTimeSameManifest
  OBVIOUS
<1>1. New(0).updated = 0
  BY BoundAssumption, NewType DEF Time
<1>2. \A s \in Site : manifest[s] # None => manifest[s] = New(0)
  BY DEF Init
<1> QED BY <1>1, <1>2 DEF Init, NotAhead, SameTimeSameManifest

LEMMA NextTimes ==
  ASSUME AllStamp, TypeOK, NotAhead, SameTimeSameManifest, [Next]_vars
  PROVE  NotAhead' /\ SameTimeSameManifest'
<1>0. clock \in Nat /\ Now = clock + 1 /\ \A s \in Site : manifest[s] # None => manifest[s].updated \in Nat
  BY BoundAssumption DEF TypeOK, Time, Now, Manifest
<1>1. CASE manifest' = manifest /\ clock' \in {clock, Now}
  BY <1>0, <1>1 DEF NotAhead, SameTimeSameManifest
<1>2. CASE Stamped
  <2> PICK m \in Machine, n \in Manifest :
        manifest' = [manifest EXCEPT ![m] = n] /\ n.updated = Now /\ clock' = Now
    BY <1>2 DEF Stamped
  <2>1. \A s \in Site : manifest'[s] = IF s = m THEN n ELSE manifest[s]
    BY DEF TypeOK
  <2>2. \A s \in Site : s # m /\ manifest[s] # None => manifest[s].updated < n.updated
    BY <1>0 DEF NotAhead
  <2>3. NotAhead'
    BY <1>0, <2>1, <2>2 DEF NotAhead
  <2>4. SameTimeSameManifest'
    BY <1>0, <2>1, <2>2 DEF SameTimeSameManifest
  <2> QED BY <2>3, <2>4
<1>3. CASE Copied
  <2> PICK s \in Site, t \in Site : /\ manifest' = [manifest EXCEPT ![s] = manifest[t]]
                                    /\ manifest[t] # None /\ clock' = clock
    BY <1>3 DEF Copied
  <2>1. \A u \in Site : manifest'[u] = IF u = s THEN manifest[t] ELSE manifest[u]
    BY DEF TypeOK
  <2> QED BY <2>1 DEF NotAhead, SameTimeSameManifest
<1> QED BY <1>1, <1>2, <1>3, ManifestSteps

(* SameTimeSameManifest: as long as every command that changes a manifest  *)
(* stamps it, machines and server that agree on Manifest.Updated, which is *)
(* all that push and pull compare, agree on every entry.                   *)
THEOREM TimesNameManifests == ASSUME AllStamp PROVE Spec => []SameTimeSameManifest
<1> DEFINE Inv == TypeOK /\ NotAhead /\ SameTimeSameManifest
<1>1. Init => Inv
  BY InitTypeOK, InitTimes
<1>2. Inv /\ [Next]_vars => Inv'
  BY NextTypeOK, NextTimes
<1> QED BY <1>1, <1>2, PTL DEF Spec

(* OneTargeting: no sequence of commands, pushes and pulls leaves an entry *)
(* with both lists anywhere.                                               *)
THEOREM NeverConflicting == Spec => []OneTargeting
<1> DEFINE Inv == TypeOK /\ OneTargeting
<1>1. Init => OneTargeting
  BY NewType, BoundAssumption DEF Init, OneTargeting, Conflicting, Time
<1>2. TypeOK /\ OneTargeting /\ [Next]_vars => OneTargeting'
  <2> SUFFICES ASSUME TypeOK, OneTargeting, [Next]_vars PROVE OneTargeting'
    OBVIOUS
  <2>1. CASE manifest' = manifest
    BY <2>1 DEF OneTargeting, Conflicting, Tracked
  <2>2. CASE Stamped \/ Edited
    <3> PICK m \in Machine, n \in Manifest : manifest' = [manifest EXCEPT ![m] = n] /\ Clean(n, m)
      BY <2>2 DEF Stamped, Edited
    <3>1. ~Conflicting(n)
      BY DEF OneTargeting, Clean, Site
    <3>2. \A s \in Site : manifest'[s] \in {manifest[s], n}
      BY DEF TypeOK
    <3> QED BY <3>1, <3>2 DEF OneTargeting
  <2>3. CASE Copied
    <3> PICK s \in Site, t \in Site : manifest' = [manifest EXCEPT ![s] = manifest[t]] /\ manifest[t] # None
      BY <2>3 DEF Copied
    <3>1. \A u \in Site : manifest'[u] = IF u = s THEN manifest[t] ELSE manifest[u]
      BY DEF TypeOK
    <3> QED BY <3>1 DEF OneTargeting
  <2> QED BY <2>1, <2>2, <2>3, ManifestSteps
<1>3. Inv /\ [Next]_vars => Inv'
  BY <1>2, NextTypeOK
<1> QED BY <1>1, <1>3, InitTypeOK, PTL DEF Spec

-----------------------------------------------------------------------------
(* Damage stays where it is. *)

(* The stores are left alone, or one gets blobs that are what their names  *)
(* say and may lose others.                                                *)
StoreSound ==
    /\ damaged' = damaged
    /\ \A s \in Site, h \in Data : store'[s][h] \in {h, None, store[s][h]}

(* One store becomes b. *)
LEMMA StoreBecomes ==
  ASSUME TypeOK, NEW s \in Site, NEW b, store' = [store EXCEPT ![s] = b], damaged' = damaged,
         \A h \in Data : b[h] \in {h, None, store[s][h]}
  PROVE  StoreSound
<1>1. \A u \in Site : store'[u] = IF u = s THEN b ELSE store[u]
  BY DEF TypeOK
<1> QED BY <1>1 DEF StoreSound

LEMMA StoreSteps ==
  ASSUME TypeOK, [Next]_vars
  PROVE  StoreSound \/ \E s \in Site : Rot(s)
<1>0. Server \in Site /\ Machine \subseteq Site
  BY DEF Site
<1>a. \A s \in Site : store[s] \in [Data -> Blob]
  BY SiteTypes
<1>1. CASE UNCHANGED <<store, damaged>>
  BY <1>1 DEF StoreSound
<1>2. ASSUME NEW m \in Machine, Add(m) \/ AddFails(m) \/ Checkpoint(m) \/ CheckpointFails(m)
      PROVE  StoreSound
  <2> PICK contents : store' = [store EXCEPT ![m] = Wrote(@, contents)] /\ damaged' = damaged
    BY <1>2 DEF Add, AddFails, Checkpoint, CheckpointFails
  <2>1. PICK b : b = Wrote(store[m], contents)
    OBVIOUS
  <2>2. \A h \in Data : b[h] \in {h, None, store[m][h]}
    BY <1>0, <1>a, <2>1, WroteIs
  <2>3. store' = [store EXCEPT ![m] = b]
    BY <2>1
  <2> QED BY <1>0, <2>2, <2>3, StoreBecomes
<1>3. ASSUME NEW m \in Machine, Push(m) \/ PushFails(m) PROVE StoreSound
  <2> PICK sent : store' = [store EXCEPT ![Server] = Received(@, store[m], sent)] /\ damaged' = damaged
    BY <1>3 DEF Push, PushFails, PushTo
  <2>1. PICK b : b = Received(store[Server], store[m], sent)
    OBVIOUS
  <2>2. \A h \in Data : b[h] \in {h, None, store[Server][h]}
    BY <1>0, <1>a, <2>1, ReceivedIs
  <2>3. store' = [store EXCEPT ![Server] = b]
    BY <2>1
  <2> QED BY <1>0, <2>2, <2>3, StoreBecomes
<1>4. ASSUME NEW m \in Machine, Pull(m) \/ PullFails(m) PROVE StoreSound
  <2> PICK sent : store' = [store EXCEPT ![m] = Received(@, store[Server], sent)] /\ damaged' = damaged
    BY <1>4 DEF Pull, PullFails
  <2>1. PICK b : b = Received(store[m], store[Server], sent)
    OBVIOUS
  <2>2. \A h \in Data : b[h] \in {h, None, store[m][h]}
    BY <1>0, <1>a, <2>1, ReceivedIs
  <2>3. store' = [store EXCEPT ![m] = b]
    BY <2>1
  <2> QED BY <1>0, <2>2, <2>3, StoreBecomes
<1>5. ASSUME NEW s \in Site, Prune(s) PROVE StoreSound
  <2> PICK gone : store' = [store EXCEPT ![s] = Deleted(@, gone)] /\ damaged' = damaged
    BY <1>5 DEF Prune
  <2>1. PICK b : b = Deleted(store[s], gone)
    OBVIOUS
  <2>2. \A h \in Data : b[h] \in {h, None, store[s][h]}
    BY <1>a, <2>1, DeletedIs
  <2>3. store' = [store EXCEPT ![s] = b]
    BY <2>1
  <2> QED BY <2>2, <2>3, StoreBecomes
<1>6. ASSUME NEW m \in Machine,
             UserWrites(m) \/ SaveTag(m) \/ RemoveTag(m) \/ InitGarden(m) \/ Remove(m) \/ SetTargeting(m) \/ Restore(m)
      PROVE  UNCHANGED <<store, damaged>>
  BY <1>6 DEF UserWrites, SaveTag, RemoveTag, WriteTags, InitGarden, Remove, SetTargeting, Restore
<1> QED BY <1>1, <1>2, <1>3, <1>4, <1>5, <1>6 DEF Next, Runs, vars

(* DamageStays: a blob whose bytes are not what its name says lies on the  *)
(* disk that damaged it and on no other.                                   *)
THEOREM DamageNeverTravels == Spec => []DamageStays
<1> DEFINE Inv == TypeOK /\ DamageStays
<1>1. Init => DamageStays
  BY DEF Init, DamageStays, NoBlobs
<1>2. TypeOK /\ DamageStays /\ [Next]_vars => DamageStays'
  <2> SUFFICES ASSUME TypeOK, DamageStays, [Next]_vars PROVE DamageStays'
    OBVIOUS
  <2>1. CASE StoreSound
    BY <2>1 DEF StoreSound, DamageStays
  <2>2. ASSUME NEW s \in Site, Rot(s) PROVE DamageStays'
    <3> PICK h, d : /\ h \in Data
                /\ store' = [store EXCEPT ![s][h] = d] /\ damaged' = damaged \cup {<<s, h>>}
      BY <2>2 DEF Rot, Present
    <3>1. \A u \in Site, g \in Data : store'[u][g] = store[u][g] \/ <<u, g>> = <<s, h>>
      BY DEF TypeOK
    <3> QED BY <3>1 DEF DamageStays
  <2> QED BY <2>1, <2>2, StoreSteps
<1>3. Inv /\ [Next]_vars => Inv'
  BY <1>2, NextTypeOK
<1> QED BY <1>1, <1>3, InitTypeOK, PTL DEF Spec

-----------------------------------------------------------------------------
(* No manifest is ahead of the blobs beside it. *)

(* No blob is lost, and what a new manifest names was named before or is   *)
(* there.                                                                  *)
Backed ==
    /\ damaged' = damaged
    /\ \A s \in Site, h \in Data :
        /\ store[s][h] # None => store'[s][h] # None
        /\ manifest'[s] # None /\ h \in Blobs(manifest'[s]) =>
              \/ manifest[s] # None /\ h \in Blobs(manifest[s])
              \/ store'[s][h] # None

LEMMA BlobsIn ==
  ASSUME NEW n \in Manifest
  PROVE  Blobs(n) \subseteq Data
  BY TrackedEntry DEF Blobs

LEMMA BackedComplete ==
  ASSUME TypeOK', Complete, Backed
  PROVE  Complete'
<1>1. \A s \in Site : manifest'[s] # None => Blobs(manifest'[s]) \subseteq Data
  BY BlobsIn DEF TypeOK
<1> QED BY <1>1 DEF Complete, Backed

(* One site gets the manifest n and the blobs b. *)
LEMMA SiteBacked ==
  ASSUME TypeOK, NEW s \in Site, NEW n, NEW b, damaged' = damaged,
         manifest' = [manifest EXCEPT ![s] = n], store' = [store EXCEPT ![s] = b],
         \A h \in Data : store[s][h] # None => b[h] # None,
         n # None => \A h \in Data : h \in Blobs(n) =>
             (manifest[s] # None /\ h \in Blobs(manifest[s])) \/ b[h] # None
  PROVE  Backed
<1>1. \A u \in Site : /\ manifest'[u] = IF u = s THEN n ELSE manifest[u]
                      /\ store'[u] = IF u = s THEN b ELSE store[u]
  BY DEF TypeOK
<1> QED BY <1>1 DEF Backed

LEMMA AddedBlobs ==
  ASSUME NEW n \in Manifest, NEW f \in File, NEW e \in Entry, NEW h \in Blobs(Added(n, f, e))
  PROVE  h \in Blobs(n) \/ (f \notin Tracked(n) /\ h = e.data)
<1>1. \A g \in File : Added(n, f, e).files[g] = IF g = f /\ f \notin Tracked(n) THEN e ELSE n.files[g]
  BY DEF Added, Manifest
<1> QED BY <1>1 DEF Blobs, Tracked

LEMMA CheckpointedBlobs ==
  ASSUME TypeOK, NEW m \in Machine, NEW n \in Manifest, NEW h \in Blobs(Checkpointed(n, m))
  PROVE  h \in Blobs(n) \/ \E f \in Found(n, m) : h = home[m][f]
<1> DEFINE new == Checkpointed(n, m)
<1>1. PICK f \in Tracked(new) : h = new.files[f].data
  BY DEF Blobs
<1>2. f \in File /\ new.files[f] # None
  BY DEF Tracked
<1>3. CASE f \in Found(n, m)
  <2>1. new.files[f] = [n.files[f] EXCEPT !.data = home[m][f]]
    BY <1>2, <1>3 DEF Checkpointed
  <2>2. n.files[f] \in Entry
    BY <1>3, FoundType
  <2> QED BY <1>1, <1>3, <2>1, <2>2 DEF Entry
<1>4. CASE f \notin Found(n, m)
  <2>1. new.files[f] = n.files[f]
    BY <1>2, <1>4 DEF Checkpointed
  <2> QED BY <1>1, <1>2, <2>1 DEF Blobs, Tracked
<1> QED BY <1>3, <1>4

LEMMA EditedBlobs ==
  ASSUME NEW n \in Manifest, NEW f \in Tracked(n), NEW e, e = None \/ e.data = n.files[f].data,
         NEW h \in Blobs([n EXCEPT !.files[f] = e])
  PROVE  h \in Blobs(n)
<1> DEFINE new == [n EXCEPT !.files[f] = e]
<1>1. \A g \in File : new.files[g] = IF g = f THEN e ELSE n.files[g]
  BY DEF Manifest
<1> QED BY <1>1, TrackedEntry DEF Blobs, Tracked

(* A transfer of what is missing, all of which arrives. *)
LEMMA TransferBacked ==
  ASSUME NEW n \in Manifest, NEW to \in [Data -> Blob], NEW from \in [Data -> Blob],
         Missing(n, to) \subseteq Sound(from), NEW h \in Blobs(n)
  PROVE  Received(to, from, Missing(n, to))[h] # None
<1>1. h \in Data
  BY BlobsIn
<1>2. CASE to[h] # None
  BY <1>1, <1>2, ReceivedIs
<1>3. CASE to[h] = None
  <2>1. h \in Missing(n, to) \cap Sound(from)
    BY <1>3 DEF Missing, Present
  <2> QED BY <1>1, <2>1, ReceivedIs
<1> QED BY <1>2, <1>3

LEMMA CompleteSteps ==
  ASSUME TypeOK, TypeOK', [Next]_vars
  PROVE  Backed \/ \E s \in Site : Prune(s) \/ Rot(s)
<1>0. Server \in Site /\ Machine \subseteq Site /\ Server \notin Machine
  BY SiteAssumption DEF Site
<1>a. \A s \in Site : store[s] \in [Data -> Blob] /\ (manifest[s] # None => manifest[s] \in Manifest)
  BY SiteTypes
<1>1. CASE UNCHANGED <<manifest, store, damaged>>
  BY <1>1 DEF Backed
<1>2. ASSUME NEW m \in Machine, UserWrites(m) \/ SaveTag(m) \/ RemoveTag(m) \/ Restore(m)
      PROVE  UNCHANGED <<manifest, store, damaged>>
  BY <1>2 DEF UserWrites, SaveTag, RemoveTag, WriteTags, Restore
<1>3. ASSUME NEW m \in Machine, NEW n \in Manifest, Tracked(n) = {} \/ n = manifest[m],
             manifest' = [manifest EXCEPT ![m] = n], NEW b, store' = [store EXCEPT ![m] = b],
             \A h \in Data : store[m][h] # None => b[h] # None, damaged' = damaged
      PROVE  Backed
  <2>1. Tracked(n) = {} => Blobs(n) = {}
    BY DEF Blobs
  <2>2. n # None => \A h \in Data : h \in Blobs(n) => manifest[m] # None /\ h \in Blobs(manifest[m])
    BY <1>3, <2>1, NoneAssumption
  <2> QED BY <1>0, <1>3, <2>2, SiteBacked
<1>4. ASSUME NEW m \in Machine, InitGarden(m) PROVE Backed
  <2>1. New(Now) \in Manifest /\ Tracked(New(Now)) = {}
    BY <1>4, PassesTo, NewType DEF InitGarden, TypeOK
  <2>2. PICK n \in Manifest : Tracked(n) = {} /\ manifest' = [manifest EXCEPT ![m] = n]
    BY <1>4, <2>1 DEF InitGarden
  <2>3. PICK b : b = store[m]
    OBVIOUS
  <2>4. store' = [store EXCEPT ![m] = b] /\ damaged' = damaged
    BY <1>4, <2>3 DEF InitGarden, TypeOK
  <2> QED BY <1>3, <2>2, <2>3, <2>4
<1>5. ASSUME NEW m \in Machine, Add(m) PROVE Backed
  <2>0. PICK f \in File, t \in Targetings :
        LET n == manifest[m]
            d == home[m][f]
            e == [data |-> d, only |-> t.only, never |-> t.never]
        IN  /\ d # None
            /\ manifest' = [manifest EXCEPT ![m] = Added(n, f, e)]
            /\ store' = [store EXCEPT ![m] = Wrote(@, IF f \in Tracked(n) THEN {} ELSE {d})]
    BY <1>5 DEF Add
  <2>1. manifest[m] # None /\ manifest[m] \in Manifest /\ Passes /\ home[m][f] \in Data
    BY <1>0, <1>5, <2>0, SiteTypes DEF Add, Blob
  <2>2. PICK e \in Entry : e = [data |-> home[m][f], only |-> t.only, never |-> t.never]
    BY <2>1, AddedType
  <2>3. PICK n : n = Added(manifest[m], f, e)
    OBVIOUS
  <2>4. PICK b : b = Wrote(store[m], IF f \in Tracked(manifest[m]) THEN {} ELSE {home[m][f]})
    OBVIOUS
  <2>5. manifest' = [manifest EXCEPT ![m] = n] /\ store' = [store EXCEPT ![m] = b] /\ damaged' = damaged
    BY <1>5, <2>0, <2>2, <2>3, <2>4 DEF Add
  <2>6. \A h \in Data : store[m][h] # None => b[h] # None
    BY <1>0, <1>a, <2>4, WroteIs
  <2>7. \A h \in Blobs(n) : h \in Blobs(manifest[m]) \/ b[h] # None
    <3> TAKE h \in Blobs(n)
    <3>1. CASE h \in Blobs(manifest[m])
      BY <3>1
    <3>2. CASE h \notin Blobs(manifest[m])
      <4>1. f \notin Tracked(manifest[m]) /\ h = e.data
        BY <2>1, <2>3, <3>2, AddedBlobs
      <4>2. h = home[m][f]
        BY <2>2, <4>1
      <4> QED BY <1>0, <1>a, <2>1, <2>4, <4>1, <4>2, WroteIs
    <3> QED BY <3>1, <3>2
  <2> QED BY <1>0, <2>1, <2>5, <2>6, <2>7, SiteBacked
<1>6. ASSUME NEW m \in Machine, Checkpoint(m) PROVE Backed
  <2>1. manifest[m] # None /\ manifest[m] \in Manifest
    BY <1>0, <1>6, SiteTypes DEF Checkpoint
  <2>2. PICK n : n = Checkpointed(manifest[m], m)
    OBVIOUS
  <2>3. PICK contents : contents = {home[m][f] : f \in Found(manifest[m], m)}
    OBVIOUS
  <2>4. PICK b : b = Wrote(store[m], contents)
    OBVIOUS
  <2>5. manifest' = [manifest EXCEPT ![m] = n] /\ store' = [store EXCEPT ![m] = b] /\ damaged' = damaged
    BY <1>6, <2>2, <2>3, <2>4 DEF Checkpoint
  <2>6. \A h \in Data : store[m][h] # None => b[h] # None
    BY <1>0, <1>a, <2>4, WroteIs
  <2>7. \A h \in Blobs(n) : h \in Blobs(manifest[m]) \/ b[h] # None
    <3> TAKE h \in Blobs(n)
    <3>1. CASE h \in Blobs(manifest[m])
      BY <3>1
    <3>2. CASE h \notin Blobs(manifest[m])
      <4>1. PICK f \in Found(manifest[m], m) : h = home[m][f]
        BY <2>1, <2>2, <3>2, CheckpointedBlobs
      <4>2. h \in Data /\ h \in contents
        BY <2>1, <2>3, <4>1, FoundType
      <4> QED BY <1>0, <1>a, <2>4, <4>2, WroteIs
    <3> QED BY <3>1, <3>2
  <2> QED BY <1>0, <2>1, <2>5, <2>6, <2>7, SiteBacked
<1>7. ASSUME NEW m \in Machine, Remove(m) \/ SetTargeting(m) PROVE Backed
  <2>1. manifest[m] # None /\ manifest[m] \in Manifest
    BY <1>0, <1>7, SiteTypes DEF Remove, SetTargeting
  <2>2. PICK f, e :
          /\ f \in Tracked(manifest[m])
          /\ manifest' = [manifest EXCEPT ![m].files[f] = e]
          /\ e = None \/ e.data = manifest[m].files[f].data
    <3>1. CASE Remove(m)
      BY <3>1 DEF Remove
    <3>2. CASE SetTargeting(m)
      <4> PICK f \in Tracked(manifest[m]), t \in Targetings :
            manifest' = [manifest EXCEPT ![m].files[f] = Retargeted(@, t)]
        BY <3>2 DEF SetTargeting
      <4>1. PICK e : e = Retargeted(manifest[m].files[f], t)
        OBVIOUS
      <4>2. manifest[m].files[f] \in Entry
        BY <2>1, TrackedEntry
      <4>3. e.data = manifest[m].files[f].data
        BY <4>1, <4>2 DEF Retargeted, Entry
      <4>4. manifest' = [manifest EXCEPT ![m].files[f] = e]
        BY <4>1
      <4> QED BY <4>3, <4>4
    <3> QED BY <1>7, <3>1, <3>2
  <2>3. PICK n : n = [manifest[m] EXCEPT !.files[f] = e]
    OBVIOUS
  <2>4. manifest' = [manifest EXCEPT ![m] = n]
    BY <2>2, <2>3
  <2>5. PICK b : b = store[m]
    OBVIOUS
  <2>6. store' = [store EXCEPT ![m] = b] /\ damaged' = damaged
    BY <1>7, <2>5 DEF Remove, SetTargeting, TypeOK
  <2>7. \A h \in Blobs(n) : h \in Blobs(manifest[m])
    BY <2>1, <2>2, <2>3, EditedBlobs
  <2> QED BY <1>0, <2>1, <2>4, <2>5, <2>6, <2>7, SiteBacked
<1>8. ASSUME NEW m \in Machine, Push(m) \/ PushFails(m) PROVE Backed
  <2>1. manifest[m] \in Manifest /\ Converted(manifest[m]) = manifest[m] /\ manifest[Server] \in Manifest
    BY <1>0, <1>8, SiteTypes, ConvertedSame DEF Push, PushFails, TypeOK
  <2>2. PICK wanted : wanted = Missing(manifest[m], store[Server])
    OBVIOUS
  <2>3. PICK installed \in BOOLEAN, sent \in SUBSET wanted :
          /\ installed => Arrived(store[m], wanted, sent)
          /\ manifest' = [manifest EXCEPT ![Server] = IF installed THEN Converted(manifest[m]) ELSE @]
          /\ store' = [store EXCEPT ![Server] = Received(@, store[m], sent)]
    BY <1>8, <2>2 DEF Push, PushFails, PushTo
  <2>4. PICK b : b = Received(store[Server], store[m], sent)
    OBVIOUS
  <2>5. PICK n : n = IF installed THEN manifest[m] ELSE manifest[Server]
    OBVIOUS
  <2>6. manifest' = [manifest EXCEPT ![Server] = n] /\ store' = [store EXCEPT ![Server] = b] /\ damaged' = damaged
    BY <1>8, <2>1, <2>3, <2>4, <2>5 DEF Push, PushFails
  <2>7. \A h \in Data : store[Server][h] # None => b[h] # None
    BY <1>0, <1>a, <2>4, ReceivedIs
  <2>8. n # None => \A h \in Data : h \in Blobs(n) =>
            (manifest[Server] # None /\ h \in Blobs(manifest[Server])) \/ b[h] # None
    <3>1. CASE installed
      <4>1. sent = wanted /\ wanted \subseteq Sound(store[m])
        BY <2>3, <3>1 DEF Arrived
      <4> QED BY <1>0, <1>a, <2>1, <2>2, <2>4, <2>5, <3>1, <4>1, TransferBacked
    <3>2. CASE ~installed
      BY <2>1, <2>5, <3>2, NoneAssumption
    <3> QED BY <3>1, <3>2
  <2> QED BY <1>0, <2>6, <2>7, <2>8, SiteBacked
<1>9. ASSUME NEW m \in Machine, Pull(m) PROVE Backed
  <2>1. manifest[Server] \in Manifest /\ Converted(manifest[Server]) = manifest[Server]
    BY <1>0, SiteTypes, ConvertedSame DEF TypeOK
  <2>2. PICK n \in Manifest : n = manifest[Server]
    BY <2>1
  <2>3. PICK b : b = Received(store[m], store[Server], Missing(n, store[m]))
    OBVIOUS
  <2>4. manifest' = [manifest EXCEPT ![m] = n] /\ store' = [store EXCEPT ![m] = b] /\ damaged' = damaged
    BY <1>9, <2>1, <2>2, <2>3 DEF Pull
  <2>5. Missing(n, store[m]) \subseteq Sound(store[Server])
    BY <1>9, <2>1, <2>2 DEF Pull
  <2>6. \A h \in Data : store[m][h] # None => b[h] # None
    BY <1>0, <1>a, <2>3, ReceivedIs
  <2>7. \A h \in Blobs(n) : b[h] # None
    BY <1>0, <1>a, <2>3, <2>5, TransferBacked
  <2> QED BY <1>0, <2>4, <2>6, <2>7, SiteBacked
<1>10. ASSUME NEW m \in Machine, PullFails(m) PROVE Backed
  <2>1. PICK sent : store' = [store EXCEPT ![m] = Received(@, store[Server], sent)]
    BY <1>10 DEF PullFails
  <2>2. PICK b : b = Received(store[m], store[Server], sent)
    OBVIOUS
  <2>3. store' = [store EXCEPT ![m] = b] /\ damaged' = damaged
    BY <1>10, <2>1, <2>2 DEF PullFails
  <2>4. \A h \in Data : store[m][h] # None => b[h] # None
    BY <1>0, <1>a, <2>2, ReceivedIs
  <2>5. PICK n : n = Opened(m)
    OBVIOUS
  <2>6. n \in Manifest /\ manifest' = [manifest EXCEPT ![m] = n]
    BY <1>10, <2>5, OpenedType DEF PullFails
  <2>7. Tracked(n) = {} \/ n = manifest[m]
    <3>1. CASE manifest[m] = None
      BY <1>10, <2>5, <3>1, PassesTo, NewType DEF PullFails, Opened, TypeOK
    <3>2. CASE manifest[m] # None
      BY <2>5, <3>2 DEF Opened
    <3> QED BY <3>1, <3>2
  <2> QED BY <1>3, <2>3, <2>4, <2>6, <2>7
<1>11. ASSUME NEW m \in Machine, AddFails(m) \/ CheckpointFails(m) PROVE Backed
  <2>1. manifest[m] # None /\ manifest[m] \in Manifest
    BY <1>0, <1>11, SiteTypes DEF AddFails, CheckpointFails
  <2>2. PICK contents : store' = [store EXCEPT ![m] = Wrote(@, contents)]
    BY <1>11 DEF AddFails, CheckpointFails
  <2>3. PICK b : b = Wrote(store[m], contents)
    OBVIOUS
  <2>4. PICK n : n = manifest[m]
    OBVIOUS
  <2>5. manifest' = [manifest EXCEPT ![m] = n] /\ damaged' = damaged
    BY <1>11, <2>4 DEF AddFails, CheckpointFails, TypeOK
  <2>6. store' = [store EXCEPT ![m] = b]
    BY <2>2, <2>3
  <2>7. \A h \in Data : store[m][h] # None => b[h] # None
    BY <1>0, <1>a, <2>3, WroteIs
  <2>8. n # None => \A h \in Data : h \in Blobs(n) =>
            (manifest[m] # None /\ h \in Blobs(manifest[m])) \/ b[h] # None
    BY <2>1, <2>4
  <2> QED BY <1>0, <2>5, <2>6, <2>7, <2>8, SiteBacked
<1> QED BY <1>1, <1>2, <1>4, <1>5, <1>6, <1>7, <1>8, <1>9, <1>10, <1>11 DEF Next, Runs, vars

(* Complete: no command, no push and no pull, finished or cut off, leaves  *)
(* a manifest that names a blob which is not beside it, unless the disk    *)
(* lost it.                                                                *)
THEOREM AlwaysBacked == Spec => []Complete
<1> DEFINE Inv == TypeOK /\ Complete
<1>1. Init => Complete
  <2> SUFFICES ASSUME Init PROVE Complete
    OBVIOUS
  <2>1. 0 \in Time
    BY BoundAssumption DEF Time
  <2>2. Blobs(New(0)) = {}
    BY <2>1, NewType DEF Blobs
  <2>3. \A s \in Site : manifest[s] # None => manifest[s] = New(0)
    BY DEF Init
  <2> QED BY <2>2, <2>3 DEF Complete
<1>2. TypeOK /\ TypeOK' /\ Complete /\ [Next]_vars => Complete'
  <2> SUFFICES ASSUME TypeOK, TypeOK', Complete, [Next]_vars PROVE Complete'
    OBVIOUS
  <2>1. CASE Backed
    BY <2>1, BackedComplete
  <2>2. ASSUME NEW s \in Site, Prune(s) PROVE Complete'
    <3> PICK gone \in SUBSET (Present(store[s]) \ Blobs(manifest[s])) :
          store' = [store EXCEPT ![s] = Deleted(@, gone)]
      BY <2>2 DEF Prune
    <3>1. manifest' = manifest /\ damaged' = damaged
      BY <2>2 DEF Prune
    <3>2. \A u \in Site : store'[u] = IF u = s THEN Deleted(store[s], gone) ELSE store[u]
      BY DEF TypeOK
    <3>3. \A u \in Site : manifest[u] # None => Blobs(manifest[u]) \subseteq Data
      BY BlobsIn DEF TypeOK
    <3>4. \A h \in Data : h \in Blobs(manifest[s]) => Deleted(store[s], gone)[h] = store[s][h]
      BY SiteTypes, DeletedIs
    <3> QED BY <3>1, <3>2, <3>3, <3>4 DEF Complete
  <2>3. ASSUME NEW s \in Site, Rot(s) PROVE Complete'
    <3> PICK h, d : /\ h \in Data
                /\ store' = [store EXCEPT ![s][h] = d] /\ damaged' = damaged \cup {<<s, h>>}
      BY <2>3 DEF Rot, Present
    <3>1. manifest' = manifest
      BY <2>3 DEF Rot
    <3>2. \A u \in Site, g \in Data : store'[u][g] = store[u][g] \/ <<u, g>> = <<s, h>>
      BY DEF TypeOK
    <3>3. \A u \in Site : manifest[u] # None => Blobs(manifest[u]) \subseteq Data
      BY BlobsIn DEF TypeOK
    <3> QED BY <3>1, <3>2, <3>3 DEF Complete
  <2> QED BY <2>1, <2>2, <2>3, CompleteSteps
<1>3. Inv /\ [Next]_vars => Inv'
  BY <1>2, NextTypeOK
<1> QED BY <1>1, <1>3, InitTypeOK, PTL DEF Spec

-----------------------------------------------------------------------------
(* What a restore writes. *)

(* Where home changes and the clock does not, the files in done are        *)
(* restored from the manifest and the blobs that are there after the step. *)
Restores(m, done) ==
    /\ manifest'[m] \in Manifest /\ store'[m] \in [Data -> Blob]
    /\ done \subseteq Applying(manifest'[m], m) /\ ~Conflicting(manifest'[m])
    /\ home'[m] = Restored(m, manifest'[m], store'[m], done)

LEMMA RestoredIs ==
  ASSUME NEW m, NEW n, NEW blobs, NEW done, NEW f \in File
  PROVE  Restored(m, n, blobs, done)[f] = IF f \in done THEN blobs[n.files[f].data] ELSE home[m][f]
  BY DEF Restored

LEMMA HomeSteps ==
  ASSUME TypeOK, TypeOK', [Next]_vars, NEW m \in Machine, home'[m] # home[m], clock' = clock
  PROVE  \E done : Restores(m, done)
<1>0. Server \in Site /\ Machine \subseteq Site /\ Server \notin Machine
  BY SiteAssumption DEF Site
<1>1. ASSUME NEW u \in Machine, Restore(u) PROVE \E done : Restores(m, done)
  <2>1. PICK done \in SUBSET File, force \in BOOLEAN :
          /\ MayRestore(u, manifest[u], store[u], force, done)
          /\ home' = [home EXCEPT ![u] = Restored(u, manifest[u], store[u], done)]
    BY <1>1 DEF Restore
  <2>2. m = u
    BY <2>1 DEF TypeOK
  <2>3. PICK h : h = Restored(m, manifest[m], store[m], done)
    OBVIOUS
  <2>4. home'[m] = h
    BY <2>1, <2>2, <2>3 DEF TypeOK
  <2>5. manifest' = manifest /\ store' = store /\ ~Conflicting(manifest[m]) /\ manifest[m] # None
    BY <1>1, <2>2 DEF Restore
  <2>6. manifest[m] \in Manifest /\ store[m] \in [Data -> Blob]
    BY <1>0, <2>5, SiteTypes
  <2>7. done \in SUBSET Applying(manifest[m], m)
    BY <2>1, <2>2, RestoredWithin
  <2>8. h = Restored(m, manifest'[m], store'[m], done)
    BY <2>3, <2>5
  <2> QED BY <2>4, <2>5, <2>6, <2>7, <2>8 DEF Restores
<1>2. ASSUME NEW u \in Machine, Pull(u) PROVE \E done : Restores(m, done)
  <2>1. manifest[Server] \in Manifest /\ Converted(manifest[Server]) = manifest[Server]
    BY <1>0, SiteTypes, ConvertedSame DEF TypeOK
  <2>2. PICK n : n = manifest[Server]
    OBVIOUS
  <2>3. PICK wanted : wanted = Missing(n, store[u])
    OBVIOUS
  <2>4. PICK b : b = Received(store[u], store[Server], wanted)
    OBVIOUS
  <2>5. PICK done : AfterPull(u, n, b, wanted, done) /\ home' = [home EXCEPT ![u] = Restored(u, n, b, done)]
    BY <1>2, <2>1, <2>2, <2>3, <2>4 DEF Pull
  <2>6. manifest' = [manifest EXCEPT ![u] = n] /\ store' = [store EXCEPT ![u] = b]
    BY <1>2, <2>1, <2>2, <2>3, <2>4 DEF Pull
  <2>7. m = u
    BY <2>5 DEF TypeOK
  <2>8. manifest'[m] = n /\ store'[m] = b
    BY <1>0, <2>6, <2>7 DEF TypeOK
  <2>9. b \in [Data -> Blob]
    BY <1>0, <2>4, SiteTypes, ReceivedIs
  <2>10. PICK h : h = Restored(m, n, b, done)
    OBVIOUS
  <2>11. home'[m] = h
    BY <2>5, <2>7, <2>10 DEF TypeOK
  <2>12. done \in SUBSET Applying(n, m)
    BY <2>5, <2>7, AfterPullWithin
  <2>13. ~Conflicting(n)
    <3>1. SUFFICES ASSUME Conflicting(n) PROVE done = {}
      <4>1. SUFFICES ASSUME done = {} PROVE FALSE
        OBVIOUS
      <4>2. \A f \in File : h[f] = home[m][f]
        BY <2>10, <4>1, RestoredIs
      <4>3. DOMAIN h = File /\ DOMAIN home[m] = File /\ h = [f \in File |-> h[f]]
        BY <2>10 DEF TypeOK, Restored
      <4> QED BY <2>11, <4>2, <4>3 DEF TypeOK
    <3> QED BY <2>5, <3>1 DEF AfterPull
  <2> QED BY <2>1, <2>2, <2>8, <2>9, <2>10, <2>11, <2>12, <2>13 DEF Restores
<1>3. ASSUME NEW u \in Machine, UserWrites(u) PROVE FALSE
  BY <1>3, PassesTo DEF UserWrites, TypeOK, Time
<1>4. ASSUME NEW u \in Machine,
             \/ SaveTag(u) \/ RemoveTag(u) \/ InitGarden(u) \/ Add(u) \/ AddFails(u)
             \/ Checkpoint(u) \/ CheckpointFails(u) \/ Remove(u)
             \/ SetTargeting(u) \/ Push(u) \/ PushFails(u) \/ PullFails(u)
      PROVE  FALSE
  BY <1>4 DEF SaveTag, RemoveTag, WriteTags, InitGarden, Add, AddFails, Checkpoint, CheckpointFails,
              Remove, SetTargeting, Push, PushFails, PullFails
<1>5. ASSUME NEW s \in Site, Prune(s) \/ Rot(s) PROVE FALSE
  BY <1>5 DEF Prune, Rot
<1> QED BY <1>1, <1>2, <1>3, <1>4, <1>5 DEF Next, Runs, vars

(* VerifiedRestores: a blob that verify finds in order is the one that the *)
(* restore, or the pull, has written.                                      *)
THEOREM VerifyTells == Spec => VerifiedRestores
<1>1. TypeOK /\ TypeOK' /\ [Next]_vars =>
        [\A m \in Machine :
          /\ manifest'[m] # None /\ home'[m] # home[m] /\ clock' = clock
          /\ (\A f \in Tracked(manifest[m]) : Verify(m, f) = "ok")'
          => \A f \in File : home'[m][f] # home[m][f] =>
                 f \in Tracked(manifest'[m]) /\ home'[m][f] = manifest'[m].files[f].data]_vars
  <2> SUFFICES ASSUME TypeOK, TypeOK', [Next]_vars, NEW m \in Machine,
                      home'[m] # home[m], clock' = clock,
                      (\A f \in Tracked(manifest[m]) : Verify(m, f) = "ok")',
                      NEW f \in File, home'[m][f] # home[m][f]
               PROVE  f \in Tracked(manifest'[m]) /\ home'[m][f] = manifest'[m].files[f].data
    OBVIOUS
  <2>1. PICK done : Restores(m, done)
    BY HomeSteps
  <2>2. f \in done /\ home'[m][f] = store'[m][manifest'[m].files[f].data]
    BY <2>1, RestoredIs DEF Restores
  <2>3. f \in Tracked(manifest'[m])
    BY <2>1, <2>2 DEF Restores, Applying
  <2>4. Verify(m, f)' = "ok"
    BY <2>3
  <2>5. store'[m][manifest'[m].files[f].data] = manifest'[m].files[f].data
    BY <2>4 DEF Verify
  <2> QED BY <2>2, <2>3, <2>5
<1> QED BY <1>1, InitTypeOK, NextTypeOK, PTL DEF Spec, VerifiedRestores

-----------------------------------------------------------------------------
(* Targeting. *)

LEMMA AppliesMeant ==
  ASSUME NEW m \in Machine, NEW n, ~Conflicting(n), NEW f \in Applying(n, m)
  PROVE  MeantFor(n.files[f], m)
<1> DEFINE e == n.files[f]
<1>1. Applies(e, m) /\ (e.only = {} \/ e.never = {})
  BY DEF Applying, Conflicting
<1>2. \A labels : Matches(labels, m) <=>
          {Lower[l] : l \in labels} \cap {Lower[l] : l \in Identity(m)} # {}
  BY DEF Matches
<1>3. {Lower[l] : l \in {}} = {}
  OBVIOUS
<1>4. CASE e.only # {}
  BY <1>1, <1>2, <1>3, <1>4 DEF Applies, MeantFor
<1>5. CASE e.only = {}
  BY <1>1, <1>2, <1>5 DEF Applies, MeantFor
<1> QED BY <1>4, <1>5

(* What a step records of the file f of m is meant for m. *)
RecordsMeant(m, f) ==
    \/ manifest'[m] \in {manifest[m], manifest[Server]} \/ manifest[m] = None
    \/ f \notin Tracked(manifest[m]) \cap Tracked(manifest'[m])
    \/ manifest'[m].files[f].data = manifest[m].files[f].data
    \/ MeantFor(manifest[m].files[f], m)

LEMMA CheckpointMeant ==
  ASSUME TypeOK, NEW m \in Machine, Checkpoint(m), NEW f \in File
  PROVE  RecordsMeant(m, f)
<1> DEFINE n == manifest[m]
<1>1. n \in Manifest /\ ~Conflicting(n)
  BY SiteTypes DEF Checkpoint, Site
<1>2. manifest'[m] = Checkpointed(n, m)
  BY DEF Checkpoint, TypeOK, Site
<1>3. CASE f \in Found(n, m)
  <2>1. f \in Applying(n, m)
    BY <1>3 DEF Found
  <2> QED BY <1>1, <2>1, AppliesMeant DEF RecordsMeant
<1>4. CASE f \notin Found(n, m)
  <2>1. manifest'[m].files[f] = n.files[f]
    BY <1>2, <1>4 DEF Checkpointed
  <2> QED BY <2>1 DEF RecordsMeant
<1> QED BY <1>3, <1>4

LEMMA AddMeant ==
  ASSUME TypeOK, NEW m \in Machine, Add(m), NEW f \in File
  PROVE  RecordsMeant(m, f)
<1> DEFINE n == manifest[m]
<1>1. n \in Manifest /\ m \in Site
  BY SiteTypes DEF Add, Site
<1>2. PICK g, e : g \in File /\ manifest' = [manifest EXCEPT ![m] = Added(n, g, e)]
  BY DEF Add
<1>3. manifest'[m] = Added(n, g, e)
  BY <1>1, <1>2 DEF TypeOK
<1>4. f \in Tracked(n) => manifest'[m].files[f] = n.files[f]
  BY <1>1, <1>3 DEF Added, Tracked, Manifest
<1> QED BY <1>4 DEF RecordsMeant

LEMMA EditMeant ==
  ASSUME TypeOK, NEW m \in Machine, Remove(m) \/ SetTargeting(m), NEW f \in File
  PROVE  RecordsMeant(m, f)
<1> DEFINE n == manifest[m]
<1>1. n \in Manifest /\ m \in Site
  BY SiteTypes DEF Remove, SetTargeting, Site
<1>2. CASE Remove(m)
  <2>1. PICK g \in Tracked(n) : manifest' = [manifest EXCEPT ![m].files[g] = None]
    BY <1>2 DEF Remove
  <2>2. \A h \in File : manifest'[m].files[h] = IF h = g THEN None ELSE n.files[h]
    BY <1>1, <2>1 DEF TypeOK, Manifest
  <2> QED BY <2>2 DEF RecordsMeant, Tracked
<1>3. CASE SetTargeting(m)
  <2>1. PICK g \in Tracked(n), t \in Targetings :
          manifest' = [manifest EXCEPT ![m].files[g] = Retargeted(@, t)]
    BY <1>3 DEF SetTargeting
  <2>2. PICK e : e = Retargeted(n.files[g], t)
    OBVIOUS
  <2>3. n.files[g] \in Entry
    BY <1>1, TrackedEntry
  <2>4. e.data = n.files[g].data
    BY <2>2, <2>3 DEF Retargeted, Entry
  <2>5. \A h \in File : manifest'[m].files[h] = IF h = g THEN e ELSE n.files[h]
    BY <1>1, <2>1, <2>2 DEF TypeOK, Manifest
  <2> QED BY <2>4, <2>5 DEF RecordsMeant
<1> QED BY <1>2, <1>3

LEMMA StepsMeant ==
  ASSUME TypeOK, [Next]_vars, NEW m \in Machine, NEW f \in File
  PROVE  RecordsMeant(m, f)
<1>0. m \in Site /\ m # Server
  BY SiteAssumption DEF Site
<1>1. CASE manifest'[m] = manifest[m]
  BY <1>1 DEF RecordsMeant
<1>2. ASSUME NEW u \in Machine,
             \/ UserWrites(u) \/ SaveTag(u) \/ RemoveTag(u) \/ Restore(u)
             \/ AddFails(u) \/ CheckpointFails(u)
      PROVE  manifest'[m] = manifest[m]
  BY <1>2 DEF UserWrites, SaveTag, RemoveTag, WriteTags, Restore, AddFails, CheckpointFails
<1>3. ASSUME NEW s \in Site, Prune(s) \/ Rot(s) PROVE manifest'[m] = manifest[m]
  BY <1>3 DEF Prune, Rot
<1>4. ASSUME NEW u \in Machine, Push(u) \/ PushFails(u) PROVE manifest'[m] = manifest[m]
  BY <1>0, <1>4 DEF Push, PushFails, PushTo, TypeOK
<1>5. ASSUME NEW u \in Machine, u # m,
             \/ InitGarden(u) \/ Add(u) \/ Checkpoint(u) \/ Remove(u) \/ SetTargeting(u)
             \/ Pull(u) \/ PullFails(u)
      PROVE  manifest'[m] = manifest[m]
  BY <1>0, <1>5 DEF InitGarden, Add, Checkpoint, Remove, SetTargeting, Pull, PullFails, TypeOK
<1>6. ASSUME InitGarden(m) PROVE manifest[m] = None
  BY <1>6 DEF InitGarden
<1>7. ASSUME Pull(m) PROVE manifest'[m] = manifest[Server]
  <2>1. Converted(manifest[Server]) = manifest[Server]
    BY ConvertedSame, SiteTypes DEF TypeOK, Site
  <2> QED BY <1>0, <1>7, <2>1 DEF Pull, TypeOK
<1>8. ASSUME PullFails(m) PROVE manifest'[m] = manifest[m] \/ manifest[m] = None
  BY <1>0, <1>8 DEF PullFails, Opened, TypeOK
<1>9. CASE UNCHANGED vars
  BY <1>9 DEF vars, RecordsMeant
<1>10. ASSUME NEW u \in Machine, Runs(u) PROVE RecordsMeant(m, f)
  <2>1. CASE u # m
    BY <1>1, <1>2, <1>4, <1>5, <1>10, <2>1 DEF Runs
  <2>2. CASE u = m
    <3>1. Runs(m)
      BY <1>10, <2>2
    <3>2. (Add(m) \/ Checkpoint(m) \/ Remove(m) \/ SetTargeting(m)) => RecordsMeant(m, f)
      BY AddMeant, CheckpointMeant, EditMeant
    <3>3. (InitGarden(m) \/ Pull(m) \/ PullFails(m)) => RecordsMeant(m, f)
      BY <1>6, <1>7, <1>8 DEF RecordsMeant
    <3> QED BY <1>1, <1>2, <1>4, <3>1, <3>2, <3>3 DEF Runs
  <2> QED BY <2>1, <2>2
<1> QED BY <1>1, <1>2, <1>3, <1>9, <1>10 DEF Next

(* TargetingRespected: the commands of a machine that this module has      *)
(* (mirror up and mirror down are not among them, and ignore the           *)
(* targeting) write and record no file whose entry is meant for others.    *)
THEOREM OthersUntouched == Spec => TargetingRespected
<1>1. TypeOK /\ TypeOK' /\ [Next]_vars =>
        [\A m \in Machine, f \in File :
          /\ home'[m][f] # home[m][f] /\ clock' = clock =>
                 f \in Tracked(manifest'[m]) /\ MeantFor(manifest'[m].files[f], m)
          /\ manifest[m] # None /\ manifest'[m] \notin {manifest[m], manifest[Server]} =>
                 \/ f \notin Tracked(manifest[m]) \cap Tracked(manifest'[m])
                 \/ manifest'[m].files[f].data = manifest[m].files[f].data
                 \/ MeantFor(manifest[m].files[f], m)]_vars
  <2> SUFFICES ASSUME TypeOK, TypeOK', [Next]_vars, NEW m \in Machine, NEW f \in File
               PROVE  /\ home'[m][f] # home[m][f] /\ clock' = clock =>
                            f \in Tracked(manifest'[m]) /\ MeantFor(manifest'[m].files[f], m)
                      /\ manifest[m] # None /\ manifest'[m] \notin {manifest[m], manifest[Server]} =>
                            \/ f \notin Tracked(manifest[m]) \cap Tracked(manifest'[m])
                            \/ manifest'[m].files[f].data = manifest[m].files[f].data
                            \/ MeantFor(manifest[m].files[f], m)
    OBVIOUS
  <2>1. ASSUME home'[m][f] # home[m][f], clock' = clock
        PROVE  f \in Tracked(manifest'[m]) /\ MeantFor(manifest'[m].files[f], m)
    <3>1. PICK done : Restores(m, done)
      BY <2>1, HomeSteps
    <3>2. f \in done
      BY <2>1, <3>1, RestoredIs DEF Restores
    <3>3. f \in Applying(manifest'[m], m) /\ ~Conflicting(manifest'[m])
      BY <3>1, <3>2 DEF Restores
    <3> QED BY <3>3, AppliesMeant DEF Applying
  <2>2. RecordsMeant(m, f)
    BY StepsMeant
  <2> QED BY <2>1, <2>2 DEF RecordsMeant
<1> QED BY <1>1, InitTypeOK, NextTypeOK, PTL DEF Spec, TargetingRespected
=============================================================================
