-------------------------- MODULE GardenSyncProofs -------------------------
(***************************************************************************)
(* Theorems about GardenSync, for any machines, blobs, clocks, faults and  *)
(* bounds.                                                                 *)
(***************************************************************************)
EXTENDS GardenSync, TLAPS

-----------------------------------------------------------------------------
(* Facts about the operators of the model. *)

(* A finished command leaves a well-formed process. *)
LEMMA IdleType ==
    ASSUME NEW r \in {"none", "edited", "pushed", "upToDate", "rejected", "pulled",
                      "current", "pruned", "error"}
    PROVE  Idle(r) \in Process
BY DEF Idle, Process

LEMMA BusyType ==
    ASSUME NEW pc \in {"push", "pull", "pruning"},
           NEW m \in Manifest \cup {None}, NEW redo \in BOOLEAN
    PROVE  Busy(pc, m, redo) \in Process
BY DEF Busy, Process

LEMMA InvokeType ==
    ASSUME NEW c \in Client, NEW rpc \in Rpc, NEW m \in Manifest \cup {None},
           NEW hs \in SUBSET Blob
    PROVE  Invoke(c, rpc, m, hs) \in Call
BY DEF Invoke, Call

LEMMA BlobsType ==
    ASSUME NEW m \in Manifest, NEW present
    PROVE  Blobs(m) \subseteq Blob /\ Missing(m, present) \subseteq Blob
BY DEF Blobs, Missing, Manifest

LEMMA EmptyType ==
    ASSUME NEW t \in Time
    PROVE  Empty(t) \in Manifest
BY DEF Empty, Manifest

(* The calls left when a handler returns are those there were, some of     *)
(* them let in.                                                            *)
LEMMA RestType ==
    ASSUME calls \subseteq Call, NEW k \in calls
    PROVE  Rest(k) \subseteq Call
<1>1. ASSUME NEW j \in Call PROVE [j EXCEPT !.at = "serving"] \in Call
  BY DEF Call
<1> QED
  BY <1>1 DEF Rest, LetReadersIn

LEMMA ReturnType ==
    ASSUME TypeOK, NEW k \in calls, NEW p \in Process, NEW next \in SUBSET Call,
           Return(k, p, next)
    PROVE  calls' \subseteq Call /\ cli' \in [Client -> Process]
<1>1. Rest(k) \subseteq Call
  BY RestType DEF TypeOK
<1>2. Idle("error") \in Process
  BY IdleType
<1> QED
  BY <1>1, <1>2 DEF Return, TypeOK

(* What survives of a call when another handler returns: all but where it  *)
(* waits.                                                                  *)
LEMMA RestSame ==
    ASSUME calls \subseteq Call, NEW k \in calls
    PROVE  \A j \in Rest(k) : \E i \in calls \ {k} :
              /\ j.client = i.client /\ j.rpc = i.rpc /\ j.manifest = i.manifest
              /\ j.hashes = i.hashes /\ j.live = i.live
              /\ \/ j = i
                 \/ j = [i EXCEPT !.at = "serving"] /\ i.at = "mu" /\ i.rpc \notin Writers
<1>1. ASSUME NEW i \in Call, NEW j, j = [i EXCEPT !.at = "serving"]
      PROVE  /\ j.client = i.client /\ j.rpc = i.rpc /\ j.manifest = i.manifest
             /\ j.hashes = i.hashes /\ j.live = i.live
  BY <1>1 DEF Call
<1> QED
  BY <1>1 DEF Rest, LetReadersIn

LEMMA RestOnce ==
    ASSUME calls \subseteq Call, LiveCalls, NEW k \in calls,
           NEW j1 \in Rest(k), NEW j2 \in Rest(k),
           j1.live, j2.live, j1.client = j2.client
    PROVE  j1 = j2
<1> DEFINE In(i) == IF i.at = "mu" /\ i.rpc \notin Writers
                    THEN [i EXCEPT !.at = "serving"] ELSE i
<1>1. ASSUME NEW i \in calls PROVE In(i).live = i.live /\ In(i).client = i.client
  BY DEF Call
<1>2. CASE k.rpc \in Writers
  <2>1. PICK i1 \in calls : j1 = In(i1)
    BY <1>2 DEF Rest, LetReadersIn
  <2>2. PICK i2 \in calls : j2 = In(i2)
    BY <1>2 DEF Rest, LetReadersIn
  <2> HIDE DEF In
  <2>3. i1 = i2
    BY <1>1, <2>1, <2>2 DEF LiveCalls
  <2> QED
    BY <2>1, <2>2, <2>3
<1>3. CASE k.rpc \notin Writers
  BY <1>3 DEF Rest, LiveCalls
<1> QED
  BY <1>2, <1>3

-----------------------------------------------------------------------------
(* Steps that change one call: it moves on, it streams a blob.             *)
LEMMA MoveOn ==
    ASSUME IndInv, NEW k \in calls, NEW k2 \in Call,
           k2.client = k.client, k2.rpc = k.rpc, k2.manifest = k.manifest,
           k2.live = k.live, k2.hashes \subseteq k.hashes,
           calls' = (calls \ {k}) \cup {k2},
           UNCHANGED <<server, pending, local, cli, edits>>,
           store' \subseteq Blob,
           blobs' \in [Client -> SUBSET Blob],
           \A c \in Client : blobs[c] \subseteq blobs'[c],
           k.rpc = "PullBlobs" =>
              k.hashes \subseteq blobs'[k.client] \cup k2.hashes
    PROVE  IndInv'
<1> USE DEF IndInv
<1>1. TypeOK'
  BY DEF TypeOK
<1>2. k \in Call /\ k.client \in Client
  BY DEF TypeOK, Call
<1>3. LiveCalls'
  BY <1>2 DEF LiveCalls
<1>4. PushCarriesLocal'
  BY DEF PushCarriesLocal
<1>5. PullBringsAll'
  <2>1. \A c \in Client : cli[c].pc = "replacing" =>
            Blobs(cli[c].manifest) \subseteq blobs'[c]
    BY DEF PullBringsAll
  <2>2. ASSUME NEW j \in calls', j.rpc = "PullBlobs", j.live
        PROVE  Blobs(cli[j.client].manifest) \subseteq blobs'[j.client] \cup j.hashes
    <3>1. CASE j = k2
      BY <1>2, <2>2, <3>1 DEF PullBringsAll
    <3>2. CASE j \in calls
      <4>1. j.client \in Client
        BY <3>2 DEF TypeOK, Call
      <4> QED
        BY <2>2, <3>2, <4>1 DEF PullBringsAll
    <3> QED
      BY <3>1, <3>2
  <2> QED
    BY <2>1, <2>2 DEF PullBringsAll, After
<1>6. PendingNewer'
  BY DEF PendingNewer, After
<1>7. ClientComplete'
  BY DEF ClientComplete
<1>8. PushReadable'
  <2>1. ASSUME NEW j \in calls', j.rpc = "PushBlobs", j.live
        PROVE  j.hashes \subseteq blobs'[j.client]
    <3>1. CASE j = k2
      BY <1>2, <2>1, <3>1 DEF PushReadable
    <3>2. CASE j \in calls
      <4>1. j.client \in Client
        BY <3>2 DEF TypeOK, Call
      <4> QED
        BY <2>1, <3>2, <4>1 DEF PushReadable
    <3> QED
      BY <3>1, <3>2
  <2> QED
    BY <2>1 DEF PushReadable
<1>9. BehindServer'
  BY DEF BehindServer, After
<1> QED
  BY <1>1, <1>3, <1>4, <1>5, <1>6, <1>7, <1>8, <1>9

(* Steps in which a handler returns: what its client becomes (p) and what  *)
(* it asks next has to fit together, and the server may only move forward. *)
LEMMA ReturnKeeps ==
    ASSUME IndInv, NEW k \in calls, NEW p \in Process, NEW next \in SUBSET Call,
           Return(k, p, next),
           UNCHANGED <<local, blobs, edits>>,
           store' \subseteq Blob,
           server' \in Manifest, server' = server \/ After(server', server),
           pending' \in Manifest \cup {None}, PendingNewer',
           k.live => \A n \in next :
              /\ n.live /\ n.client = k.client /\ p.pc = Awaits[n.rpc]
              /\ \A m \in next : m = n
              /\ n.rpc \in {"PushBlobs", "PullBlobs"}
              /\ n.rpc = "PushBlobs" => n.hashes \subseteq blobs[k.client]
              /\ n.rpc = "PullBlobs" => Blobs(p.manifest) \subseteq blobs[k.client] \cup n.hashes,
           k.live /\ p.pc \in {"fetching", "replacing"} =>
              p.manifest \in Manifest /\ ~After(p.manifest, server),
           k.live /\ p.pc = "replacing" => Blobs(p.manifest) \subseteq blobs[k.client],
           k.live /\ p.result = "rejected" => After(server, local[k.client]),
           k.live /\ p.result \in {"upToDate", "pulled"} => ~After(local[k.client], server)
    PROVE  IndInv'
<1> USE DEF IndInv
<1> DEFINE c == k.client
           q == cli'[c]
           more == calls' \ Rest(k)
<1>1. TypeOK'
  BY ReturnType DEF TypeOK
<1>2. k \in Call /\ c \in Client
  BY DEF TypeOK, Call
<1>3. \A d \in Client : d # c => cli'[d] = cli[d]
  BY <1>2 DEF Return, TypeOK
<1>4. ~k.live => cli' = cli /\ more = {}
  BY DEF Return
<1>5. k.live => \/ q = p /\ more \subseteq next
                \/ q = Idle("error") /\ more = {}
  BY <1>2 DEF Return, TypeOK
<1>6. /\ Idle("error").pc = "idle"
      /\ Idle("error").result = "error"
  BY DEF Idle
<1>7. \A j \in Rest(k) : \E i \in calls \ {k} :
          /\ j.client = i.client /\ j.rpc = i.rpc /\ j.manifest = i.manifest
          /\ j.hashes = i.hashes /\ j.live = i.live
  BY RestSame DEF TypeOK
<1>8. \A i \in calls : i.client \in Client
  BY DEF TypeOK, Call
(* A call that stays and is waited for belongs to another client.          *)
<1>9. ASSUME NEW i \in calls \ {k}, i.live, k.live PROVE i.client # c
  BY <1>9 DEF LiveCalls
<1>10. \A d \in Client : ~After(server, server') /\ (After(server, local[d]) => After(server', local[d]))
  <2>1. server.updated \in Int /\ server'.updated \in Int
    BY TimeAssumption DEF TypeOK, Manifest
  <2>2. \A d \in Client : local[d].updated \in Int
    BY TimeAssumption DEF TypeOK, Manifest
  <2> QED
    BY <2>1, <2>2 DEF After
<1>11. \A m \in Manifest : ~After(m, server) => ~After(m, server')
  <2>1. server.updated \in Int /\ server'.updated \in Int
    BY TimeAssumption DEF TypeOK, Manifest
  <2>2. \A m \in Manifest : m.updated \in Int
    BY TimeAssumption DEF Manifest
  <2> QED
    BY <2>1, <2>2 DEF After
<1> HIDE DEF q, more
<1>12. LiveCalls'
  <2>1. ASSUME NEW j \in calls', j.live
        PROVE  cli'[j.client].pc = Awaits[j.rpc]
    <3>1. CASE j \in Rest(k)
      BY <1>3, <1>4, <1>7, <1>8, <1>9, <2>1, <3>1 DEF LiveCalls
    <3>2. CASE j \notin Rest(k)
      BY <1>4, <1>5, <2>1, <3>2 DEF q, more
    <3> QED
      BY <3>1, <3>2
  <2>2. ASSUME NEW j1 \in calls', NEW j2 \in calls', j1.live, j2.live,
               j1.client = j2.client
        PROVE  j1 = j2
    <3>1. CASE j1 \in Rest(k) /\ j2 \in Rest(k)
      BY <2>2, <3>1, RestOnce DEF TypeOK
    <3>2. CASE j1 \notin Rest(k) /\ j2 \notin Rest(k)
      BY <1>4, <1>5, <3>2 DEF more
    <3>3. ASSUME NEW j \in Rest(k), NEW n \in more, j.live PROVE j.client # n.client
      BY <1>4, <1>5, <1>7, <1>9, <3>3
    <3> QED
      BY <2>2, <3>1, <3>2, <3>3 DEF more
  <2> QED
    BY <2>1, <2>2 DEF LiveCalls
<1>13. PushCarriesLocal'
  <2>1. ASSUME NEW j \in calls', j.rpc = "PushManifest"
        PROVE  j.manifest \in Manifest /\ (j.live => j.manifest = local[j.client])
    <3>1. CASE j \in Rest(k)
      BY <1>7, <2>1, <3>1 DEF PushCarriesLocal
    <3>2. CASE j \notin Rest(k)
      BY <1>4, <1>5, <2>1, <3>2 DEF more
    <3> QED
      BY <3>1, <3>2
  <2> QED
    BY <2>1 DEF PushCarriesLocal
<1>14. PullBringsAll'
  <2>1. ASSUME NEW d \in Client, cli'[d].pc \in {"fetching", "replacing"}
        PROVE  cli'[d].manifest \in Manifest /\ ~After(cli'[d].manifest, server')
    <3>1. CASE cli'[d] = cli[d]
      BY <1>11, <2>1, <3>1 DEF PullBringsAll
    <3>2. CASE d = c /\ k.live
      BY <1>5, <1>6, <1>11, <2>1, <3>2 DEF q
    <3> QED
      BY <1>3, <1>4, <3>1, <3>2
  <2>2. ASSUME NEW d \in Client, cli'[d].pc = "replacing"
        PROVE  Blobs(cli'[d].manifest) \subseteq blobs'[d]
    <3>1. CASE cli'[d] = cli[d]
      BY <2>2, <3>1 DEF PullBringsAll
    <3>2. CASE d = c /\ k.live
      BY <1>5, <1>6, <2>2, <3>2 DEF q
    <3> QED
      BY <1>3, <1>4, <3>1, <3>2
  <2>3. ASSUME NEW j \in calls', j.rpc = "PullBlobs", j.live
        PROVE  Blobs(cli'[j.client].manifest) \subseteq blobs'[j.client] \cup j.hashes
    <3>1. CASE j \in Rest(k)
      <4>1. PICK i \in calls \ {k} : /\ j.client = i.client /\ j.rpc = i.rpc
                                     /\ j.hashes = i.hashes /\ j.live = i.live
        BY <1>7, <3>1
      <4>2. cli'[i.client] = cli[i.client]
        BY <1>3, <1>4, <1>8, <1>9, <2>3, <4>1
      <4> QED
        BY <2>3, <4>1, <4>2 DEF PullBringsAll
    <3>2. CASE j \notin Rest(k)
      BY <1>4, <1>5, <2>3, <3>2 DEF more, q
    <3> QED
      BY <3>1, <3>2
  <2> QED
    BY <2>1, <2>2, <2>3 DEF PullBringsAll
<1>15. ClientComplete'
  BY DEF ClientComplete
<1>16. PushReadable'
  <2>1. ASSUME NEW j \in calls', j.rpc = "PushBlobs", j.live
        PROVE  j.hashes \subseteq blobs'[j.client]
    <3>1. CASE j \in Rest(k)
      BY <1>7, <2>1, <3>1 DEF PushReadable
    <3>2. CASE j \notin Rest(k)
      BY <1>4, <1>5, <2>1, <3>2 DEF more
    <3> QED
      BY <3>1, <3>2
  <2> QED
    BY <2>1 DEF PushReadable
<1>17. BehindServer'
  <2>1. ASSUME NEW d \in Client
        PROVE  /\ cli'[d].result = "rejected" => After(server, local[d])
               /\ cli'[d].result \in {"upToDate", "pulled"} => ~After(local[d], server)
    <3>1. CASE cli'[d] = cli[d]
      BY <3>1 DEF BehindServer
    <3>2. CASE d = c /\ k.live
      BY <1>5, <1>6, <3>2 DEF q
    <3> QED
      BY <1>3, <1>4, <3>1, <3>2
  <2>2. \A d \in Client : local[d] \in Manifest
    BY DEF TypeOK
  <2> QED
    BY <1>10, <1>11, <2>1, <2>2 DEF BehindServer
<1> QED
  BY <1>1, <1>12, <1>13, <1>14, <1>15, <1>16, <1>17

(* Steps of a client that starts a command, gives up or starts again: the  *)
(* calls it waited for are gone or orphaned, and it waits for a new one at *)
(* most.                                                                   *)
LEMMA TurnKeeps ==
    ASSUME IndInv, NEW c \in Client, NEW p \in Process,
           p.pc \notin {"fetching", "replacing"},
           p.result \notin {"rejected", "upToDate", "pulled"},
           cli' = [cli EXCEPT ![c] = p],
           calls' \subseteq Call,
           UNCHANGED <<serverVars, localVars>>,
           NEW new \in Call,
           \A j \in calls' :
              \/ j \in calls \ Mine(c)
              \/ ~j.live /\ \E i \in calls : j.rpc = i.rpc /\ j.manifest = i.manifest
              \/ j = new,
           new \in calls' =>
              /\ new.live /\ new.client = c
              /\ p.pc = Awaits[new.rpc]
              /\ new.rpc \in {"PushManifest", "PullManifest", "Prune"}
              /\ new.rpc = "PushManifest" => new.manifest = local[c]
    PROVE  IndInv'
<1> USE DEF IndInv, serverVars, localVars
<1>1. TypeOK'
  BY DEF TypeOK
<1>2. cli'[c] = p /\ \A d \in Client : d # c => cli'[d] = cli[d]
  BY DEF TypeOK
(* A live call of the new state is an old one of another client, or new.   *)
<1>3. ASSUME NEW j \in calls', j.live
      PROVE  \/ j \in calls /\ j.client # c /\ j.client \in Client
             \/ j = new
  BY <1>3 DEF Mine, TypeOK, Call
<1>4. LiveCalls'
  BY <1>2, <1>3 DEF LiveCalls
<1>5. PushCarriesLocal'
  <2>1. ASSUME NEW j \in calls', j.rpc = "PushManifest"
        PROVE  j.manifest \in Manifest /\ (j.live => j.manifest = local[j.client])
    BY <2>1 DEF PushCarriesLocal, TypeOK
  <2> QED
    BY <2>1 DEF PushCarriesLocal
<1>6. PullBringsAll'
  <2>1. ASSUME NEW d \in Client, cli'[d].pc \in {"fetching", "replacing"}
        PROVE  cli'[d] = cli[d]
    BY <1>2, <2>1
  <2>2. ASSUME NEW j \in calls', j.live, j.rpc = "PullBlobs"
        PROVE  j \in calls /\ cli'[j.client] = cli[j.client]
    BY <1>2, <1>3, <2>2
  <2> QED
    BY <2>1, <2>2 DEF PullBringsAll, After
<1>7. PendingNewer' /\ ClientComplete'
  BY DEF PendingNewer, ClientComplete, After
<1>8. PushReadable'
  BY <1>3 DEF PushReadable
<1>9. BehindServer'
  BY <1>2 DEF BehindServer, After
<1> QED
  BY <1>1, <1>4, <1>5, <1>6, <1>7, <1>8, <1>9

(* Steps between commands: only the garden of an idle client changes.      *)
LEMMA IdleKeeps ==
    ASSUME IndInv, NEW c \in Client, cli[c].pc = "idle",
           NEW m \in Manifest, NEW bs \in SUBSET Blob, Blobs(m) \subseteq bs,
           local' = [local EXCEPT ![c] = m],
           blobs' = [blobs EXCEPT ![c] = bs],
           \/ cli' = [cli EXCEPT ![c] = Idle("edited")]
           \/ cli' = cli /\ m = local[c],
           edits' \in Nat,
           UNCHANGED <<serverVars, calls>>
    PROVE  IndInv'
<1> USE DEF IndInv, serverVars
<1>1. Idle("edited") \in Process /\ Idle("edited").pc = "idle" /\ Idle("edited").result = "edited"
  BY IdleType DEF Idle
<1>2. TypeOK'
  BY <1>1 DEF TypeOK
<1>3. /\ cli'[c].pc = "idle"
      /\ \A d \in Client : cli'[d].pc = cli[d].pc
      /\ \A d \in Client : d # c => /\ cli'[d] = cli[d] /\ local'[d] = local[d]
                                    /\ blobs'[d] = blobs[d]
      /\ local'[c] = m /\ blobs'[c] = bs
  BY <1>1 DEF TypeOK
<1>4. \A k \in calls : k.live => k.client # c /\ k.client \in Client
  BY DEF LiveCalls, Awaits, TypeOK, Call, Rpc
<1>5. LiveCalls' /\ PushCarriesLocal'
  BY <1>3, <1>4 DEF LiveCalls, PushCarriesLocal
<1>6. PullBringsAll'
  BY <1>3, <1>4 DEF PullBringsAll, After
<1>7. PendingNewer' /\ ClientComplete' /\ PushReadable'
  BY <1>3, <1>4 DEF PendingNewer, ClientComplete, PushReadable, After
<1>8. BehindServer'
  BY <1>1, <1>3 DEF BehindServer, After, TypeOK
<1> QED
  BY <1>2, <1>5, <1>6, <1>7, <1>8

-----------------------------------------------------------------------------
(* The inductive invariant, action by action.                              *)
LEMMA InitIndInv == Init => IndInv
<1> SUFFICES ASSUME Init PROVE IndInv
  OBVIOUS
<1>1. \A t \in Time : Empty(t) \in Manifest /\ Blobs(Empty(t)) = {}
  BY EmptyType DEF Empty, Blobs
<1>2. Idle("none") \in Process /\ Idle("none").pc = "idle" /\ Idle("none").result = "none"
  BY IdleType DEF Idle
<1>3. TypeOK
  BY <1>1, <1>2, BornAssumption DEF Init, TypeOK
<1> QED
  BY <1>1, <1>2, <1>3, BornAssumption
  DEF Init, IndInv, LiveCalls, PushCarriesLocal, PullBringsAll, PendingNewer,
      ClientComplete, PushReadable, BehindServer

(* The first RPC of a command. *)
LEMMA StartKeeps ==
    ASSUME IndInv, NEW c \in Client, NEW pc \in {"push", "pull", "pruning"},
           NEW rpc \in {"PushManifest", "PullManifest", "Prune"},
           NEW m \in Manifest \cup {None}, Start(c, pc, rpc, m),
           pc = Awaits[rpc], rpc = "PushManifest" => m = local[c]
    PROVE  IndInv'
<1>1. PICK p \in Process : p = Busy(pc, m, FALSE)
  BY BusyType
<1>2. PICK new \in Call : new = Invoke(c, rpc, m, {})
  BY InvokeType DEF Rpc
<1>3. p.pc = pc /\ p.result = "none"
  BY <1>1 DEF Busy
<1>4. new.live /\ new.client = c /\ new.rpc = rpc /\ new.manifest = m
  BY <1>2 DEF Invoke
<1>5. /\ cli' = [cli EXCEPT ![c] = p]
      /\ calls' = calls \cup {new}
      /\ UNCHANGED <<serverVars, localVars>>
  BY <1>1, <1>2 DEF Start
<1>6. Mine(c) = {} /\ calls \subseteq Call
  BY DEF Start, IndInv, LiveCalls, Mine, Awaits, TypeOK, Call, Rpc
<1>7. \A j \in calls' : j \in calls \ Mine(c) \/ j = new
  BY <1>5, <1>6
<1>8. calls' \subseteq Call
  BY <1>5, <1>6
<1>9. p.pc \notin {"fetching", "replacing"} /\ p.result \notin {"rejected", "upToDate", "pulled"}
  BY <1>3
<1>10. p.pc = Awaits[new.rpc] /\ new.rpc \in {"PushManifest", "PullManifest", "Prune"}
  BY <1>3, <1>4
<1>11. new.rpc = "PushManifest" => new.manifest = local[c]
  BY <1>4
<1> QED
  BY <1>4, <1>5, <1>7, <1>8, <1>9, <1>10, <1>11, TurnKeeps

(* The local commands. *)
LEMMA LocalKeeps ==
    ASSUME IndInv, NEW c \in Client,
           \/ Commit(c) \/ Remove(c) \/ LocalPrune(c)
           \/ Push(c) \/ Pull(c) \/ RemotePrune(c) \/ ReplaceLocal(c)
    PROVE  IndInv'
<1> USE DEF IndInv
<1>1. ASSUME Commit(c) PROVE IndInv'
  <2>1. PICK t \in Time, files \in SUBSET Entry :
            /\ local' = [local EXCEPT ![c] = [updated |-> t, files |-> files]]
            /\ blobs' = [blobs EXCEPT ![c] = @ \cup (files \cap Blob)]
    BY <1>1 DEF Commit
  <2> DEFINE m == [updated |-> t, files |-> files]
             bs == blobs[c] \cup (files \cap Blob)
  <2>2. m \in Manifest /\ Blobs(m) \subseteq bs /\ bs \in SUBSET Blob
    BY DEF Manifest, Blobs, TypeOK
  <2>3. edits' \in Nat
    BY <1>1 DEF Commit, TypeOK
  <2> QED
    BY <1>1, <2>1, <2>2, <2>3, IdleKeeps DEF Commit
<1>2. ASSUME Remove(c) PROVE IndInv'
  <2>1. PICK e \in local[c].files : local' = [local EXCEPT ![c].files = @ \ {e}]
    BY <1>2 DEF Remove
  <2> DEFINE m == [local[c] EXCEPT !.files = @ \ {e}]
  <2>2. m \in Manifest /\ Blobs(m) \subseteq Blobs(local[c])
    BY DEF Manifest, Blobs, TypeOK
  <2>3. Blobs(m) \subseteq blobs[c] /\ blobs[c] \in SUBSET Blob
    BY <2>2 DEF ClientComplete, TypeOK
  <2>4. local' = [local EXCEPT ![c] = m] /\ blobs' = [blobs EXCEPT ![c] = blobs[c]]
    BY <1>2, <2>1 DEF Remove, TypeOK
  <2>5. edits' \in Nat
    BY <1>2 DEF Remove, TypeOK
  <2> HIDE DEF m
  <2> QED
    BY <1>2, <2>2, <2>3, <2>4, <2>5, IdleKeeps DEF Remove
<1>3. ASSUME LocalPrune(c) PROVE IndInv'
  <2> DEFINE bs == blobs[c] \cap Blobs(local[c])
  <2>1. local[c] \in Manifest /\ local' = [local EXCEPT ![c] = local[c]]
    BY <1>3 DEF LocalPrune, TypeOK
  <2>2. bs \in SUBSET Blob /\ Blobs(local[c]) \subseteq bs
    BY DEF TypeOK, ClientComplete
  <2>3. blobs' = [blobs EXCEPT ![c] = bs]
    BY <1>3 DEF LocalPrune
  <2>4. edits' \in Nat
    BY <1>3 DEF LocalPrune, TypeOK
  <2> QED
    BY <1>3, <2>1, <2>2, <2>3, <2>4, IdleKeeps DEF LocalPrune
<1>4. ASSUME Push(c) \/ Pull(c) \/ RemotePrune(c) PROVE IndInv'
  BY <1>4, StartKeeps DEF Push, Pull, RemotePrune, TypeOK, Awaits
<1>5. ASSUME ReplaceLocal(c) PROVE IndInv'
  <2> DEFINE m == cli[c].manifest
  <2>1. /\ m \in Manifest /\ ~After(m, server) /\ Blobs(m) \subseteq blobs[c]
    BY <1>5 DEF ReplaceLocal, PullBringsAll
  <2>2. Idle("pulled") \in Process /\ Idle("pulled").pc = "idle" /\ Idle("pulled").result = "pulled"
    BY IdleType DEF Idle
  <2>3. TypeOK'
    BY <1>5, <2>1, <2>2 DEF ReplaceLocal, TypeOK, serverVars
  <2>4. /\ cli'[c] = Idle("pulled") /\ local'[c] = m
        /\ \A d \in Client : d # c => cli'[d] = cli[d] /\ local'[d] = local[d]
        /\ UNCHANGED <<server, pending, calls, blobs>>
    BY <1>5 DEF ReplaceLocal, TypeOK, serverVars
  <2>5. \A k \in calls : k.live => k.client # c /\ k.client \in Client
    BY <1>5 DEF ReplaceLocal, LiveCalls, Awaits, TypeOK, Call, Rpc
  <2> HIDE DEF m
  <2>6. LiveCalls' /\ PushCarriesLocal'
    BY <2>4, <2>5 DEF LiveCalls, PushCarriesLocal
  <2>7. PullBringsAll'
    BY <2>2, <2>4, <2>5 DEF PullBringsAll, After
  <2>8. PendingNewer' /\ ClientComplete' /\ PushReadable'
    BY <2>1, <2>4, <2>5 DEF PendingNewer, ClientComplete, PushReadable, After
  <2>9. BehindServer'
    BY <2>1, <2>2, <2>4 DEF BehindServer, After
  <2> QED
    BY <2>3, <2>6, <2>7, <2>8, <2>9
<1> QED
  BY <1>1, <1>2, <1>3, <1>4, <1>5

(* The handlers that only take mu. *)
LEMMA WaitKeeps ==
    ASSUME IndInv, NEW k \in calls, Arrive(k) \/ BeginRead(k) \/ BeginPushBlobs(k)
    PROVE  IndInv'
<1>1. PICK at \in {"mu", "serving"} : calls' = (calls \ {k}) \cup {[k EXCEPT !.at = at]}
  BY DEF Arrive, BeginRead, BeginPushBlobs
<1>2. PICK k2 : k2 = [k EXCEPT !.at = at]
  OBVIOUS
<1>3. /\ k2 \in Call /\ k2.client = k.client /\ k2.rpc = k.rpc /\ k2.manifest = k.manifest
      /\ k2.live = k.live /\ k2.hashes = k.hashes
  BY <1>2 DEF IndInv, TypeOK, Call
<1>4. UNCHANGED <<server, store, pending, local, blobs, cli, edits>>
  BY DEF Arrive, BeginRead, BeginPushBlobs, serverVars, localVars
<1>5. store' \subseteq Blob /\ blobs' \in [Client -> SUBSET Blob]
  BY <1>4 DEF IndInv, TypeOK
<1> QED
  BY <1>1, <1>2, <1>3, <1>4, <1>5, MoveOn

(* The chunks of a stream. *)
LEMMA StreamKeeps ==
    ASSUME IndInv, NEW k \in calls, ReceiveBlob(k) \/ SendBlob(k)
    PROVE  IndInv'
<1>t. TypeOK /\ k \in Call /\ k.client \in Client /\ store \subseteq Blob
  BY DEF IndInv, TypeOK, Call
<1>1. CASE ReceiveBlob(k)
  <2>1. PICK h \in k.hashes : calls' = (calls \ {k}) \cup
                                {[k EXCEPT !.hashes = @ \ {h}, !.current = h]}
    BY <1>1 DEF ReceiveBlob
  <2>2. PICK k2 : k2 = [k EXCEPT !.hashes = @ \ {h}, !.current = h]
    OBVIOUS
  <2>3. /\ k2 \in Call /\ k2.client = k.client /\ k2.rpc = k.rpc /\ k2.manifest = k.manifest
        /\ k2.live = k.live /\ k2.hashes \subseteq k.hashes
    BY <1>t, <2>2 DEF Call
  <2>4. UNCHANGED <<server, pending, local, blobs, cli, edits>> /\ k.rpc = "PushBlobs"
    BY <1>1 DEF ReceiveBlob, localVars
  <2>5. store' \subseteq Blob /\ blobs' \in [Client -> SUBSET Blob]
    BY <1>1, <1>t, <2>4 DEF ReceiveBlob, Flushed, TypeOK
  <2> QED
    BY <2>1, <2>2, <2>3, <2>4, <2>5, MoveOn
<1>2. CASE SendBlob(k)
  <2>1. PICK h \in k.hashes \cap store :
          /\ calls' = (calls \ {k}) \cup {[k EXCEPT !.hashes = @ \ {h}]}
          /\ blobs' = [blobs EXCEPT ![k.client] = @ \cup {h}]
    BY <1>2 DEF SendBlob
  <2>2. PICK k2 : k2 = [k EXCEPT !.hashes = @ \ {h}]
    OBVIOUS
  <2>3. /\ k2 \in Call /\ k2.client = k.client /\ k2.rpc = k.rpc /\ k2.manifest = k.manifest
        /\ k2.live = k.live /\ k2.hashes = k.hashes \ {h}
    BY <1>t, <2>2 DEF Call
  <2>4. UNCHANGED <<server, store, pending, local, cli, edits>>
    BY <1>2 DEF SendBlob, serverVars
  <2>5. blobs' \in [Client -> SUBSET Blob] /\ blobs'[k.client] = blobs[k.client] \cup {h}
    BY <1>t, <2>1 DEF TypeOK
  <2>6. \A c \in Client : blobs[c] \subseteq blobs'[c]
    BY <1>t, <2>1 DEF TypeOK
  <2>7. k.hashes \subseteq blobs'[k.client] \cup k2.hashes
    BY <2>3, <2>5
  <2> QED
    BY <1>t, <2>1, <2>2, <2>3, <2>4, <2>5, <2>6, <2>7, MoveOn
<1> QED
  BY <1>1, <1>2

(* Handlers that answer and change nothing the client depends on: the      *)
(* client is idle again.                                                   *)
LEMMA FinishKeeps ==
    ASSUME IndInv, NEW k \in calls,
           NEW r \in {"pushed", "upToDate", "rejected", "current", "pruned", "error"},
           Return(k, Idle(r), {}),
           UNCHANGED <<local, blobs, edits>>, store' \subseteq Blob,
           server' \in Manifest, server' = server \/ After(server', server),
           pending' \in Manifest \cup {None}, PendingNewer',
           k.live /\ r = "rejected" => After(server, local[k.client]),
           k.live /\ r = "upToDate" => ~After(local[k.client], server)
    PROVE  IndInv'
<1>1. PICK p \in Process : p = Idle(r)
  BY IdleType
<1>2. p.pc = "idle" /\ p.result = r
  BY <1>1 DEF Idle
<1>3. PICK next \in SUBSET Call : next = {}
  OBVIOUS
<1> QED
  BY <1>1, <1>2, <1>3, ReturnKeeps

LEMMA PushManifestKeeps ==
    ASSUME IndInv, NEW k \in calls, PushManifest(k)
    PROVE  IndInv'
<1>t. /\ TypeOK /\ k \in Call /\ k.client \in Client
      /\ k.manifest \in Manifest /\ (k.live => k.manifest = local[k.client])
      /\ ClientComplete /\ PendingNewer
  BY DEF PushManifest, IndInv, PushCarriesLocal, TypeOK, Call
<1>u. /\ UNCHANGED <<server, store, local, blobs, edits>>
      /\ store' \subseteq Blob /\ server' \in Manifest
  BY <1>t DEF PushManifest, localVars, TypeOK
<1>1. CASE /\ Accepts(k.manifest) /\ Park(k.manifest)
           /\ Return(k, [cli[k.client] EXCEPT !.pc = "streaming", !.seen = server.updated],
                     {Invoke(k.client, "PushBlobs", None, Missing(k.manifest, store))})
  <2>1. PICK p \in Process : p = [cli[k.client] EXCEPT !.pc = "streaming", !.seen = server.updated]
    <3>1. ASSUME NEW q \in Process, NEW t \in Time
          PROVE  [q EXCEPT !.pc = "streaming", !.seen = t] \in Process
      BY DEF Process
    <3>2. cli[k.client] \in Process /\ server.updated \in Time
      BY <1>t DEF TypeOK, Manifest
    <3> QED
      BY <3>1, <3>2
  <2>2. PICK n \in Call : n = Invoke(k.client, "PushBlobs", None, Missing(k.manifest, store))
    BY <1>t, InvokeType, BlobsType DEF Rpc
  <2>3. p.pc = "streaming" /\ p.result = cli[k.client].result
    BY <1>t, <2>1 DEF TypeOK, Process
  <2>4. /\ n.live /\ n.client = k.client /\ n.rpc = "PushBlobs"
        /\ n.hashes = Missing(k.manifest, store)
    BY <2>2 DEF Invoke
  <2>5. k.live => n.hashes \subseteq blobs[k.client]
    BY <1>t, <2>4 DEF Missing, ClientComplete
  <2>6. PICK next \in SUBSET Call : next = {n}
    OBVIOUS
  <2>7. pending' \in Manifest \cup {None} /\ PendingNewer'
    BY <1>1, <1>t, <1>u DEF Park, Accepts, PendingNewer, After
  <2>8. p.pc = Awaits[n.rpc]
    BY <2>3, <2>4 DEF Awaits
  <2>9. Return(k, p, next)
    BY <1>1, <2>1, <2>2, <2>6
  <2>10. /\ p.result = "rejected" => After(server, local[k.client])
         /\ p.result \in {"upToDate", "pulled"} => ~After(local[k.client], server)
    BY <1>t, <2>3 DEF IndInv, BehindServer
  <2>11. \A m \in next : m = n
    BY <2>6
  <2> QED
    BY <1>u, <2>3, <2>4, <2>5, <2>6, <2>7, <2>8, <2>9, <2>10, <2>11, ReturnKeeps
<1>2. CASE Rejects(k.manifest) /\ pending' = pending /\ Return(k, Idle("rejected"), {})
  BY <1>2, <1>t, <1>u, FinishKeeps DEF Rejects, TypeOK, PendingNewer, After
<1>3. CASE /\ ~Accepts(k.manifest) /\ ~Rejects(k.manifest) /\ pending' = pending
           /\ Return(k, Idle("upToDate"), {})
  BY <1>3, <1>t, <1>u, FinishKeeps DEF Accepts, TypeOK, PendingNewer, After
<1> QED
  BY <1>1, <1>2, <1>3 DEF PushManifest

LEMMA PushBlobsKeeps ==
    ASSUME IndInv, NEW k \in calls, EndPushBlobs(k) \/ AbortPushBlobs(k) \/ Prune(k)
    PROVE  IndInv'
<1>t. TypeOK /\ PendingNewer /\ store \subseteq Blob /\ server \in Manifest
  BY DEF IndInv, TypeOK
<1>1. UNCHANGED <<local, blobs, edits>>
  BY DEF EndPushBlobs, AbortPushBlobs, Prune, localVars
<1>2. store' \subseteq Blob
  BY <1>t DEF EndPushBlobs, AbortPushBlobs, Prune, Flushed, Unreferenced
<1>3. CASE EndPushBlobs(k)
  <2>1. /\ server' \in Manifest /\ (server' = server \/ After(server', server))
        /\ pending' \in Manifest \cup {None} /\ PendingNewer'
    BY <1>t, <1>3 DEF EndPushBlobs, ApplyPending, PendingNewer, TypeOK, After
  <2> QED
    BY <1>1, <1>2, <1>3, <2>1, FinishKeeps DEF EndPushBlobs
<1>4. CASE AbortPushBlobs(k)
  <2>1. /\ server' \in Manifest /\ server' = server
        /\ pending' \in Manifest \cup {None} /\ PendingNewer'
    BY <1>t, <1>4 DEF AbortPushBlobs, KeepPending, PendingNewer, TypeOK, After
  <2> QED
    BY <1>1, <1>2, <1>4, <2>1, FinishKeeps DEF AbortPushBlobs
<1>5. CASE Prune(k)
  <2>1. /\ server' \in Manifest /\ server' = server
        /\ pending' \in Manifest \cup {None} /\ PendingNewer'
    BY <1>t, <1>5 DEF Prune, PendingNewer, TypeOK, After
  <2> QED
    BY <1>1, <1>2, <1>5, <2>1, FinishKeeps DEF Prune
<1> QED
  BY <1>3, <1>4, <1>5

LEMMA PullManifestKeeps ==
    ASSUME IndInv, NEW k \in calls, PullManifest(k)
    PROVE  IndInv'
<1> DEFINE c == k.client
           missing == Missing(server, blobs[c])
           got == [cli[c] EXCEPT !.pc = "fetching", !.manifest = server]
<1>t. /\ TypeOK /\ k \in Call /\ c \in Client /\ server \in Manifest /\ PendingNewer
      /\ cli[c] \in Process
  BY DEF IndInv, TypeOK, Call
<1>u. /\ UNCHANGED <<server, store, pending, local, blobs, edits>>
      /\ store' \subseteq Blob /\ server' \in Manifest /\ pending' \in Manifest \cup {None}
      /\ PendingNewer'
  BY <1>t DEF PullManifest, serverVars, localVars, TypeOK, PendingNewer, After
<1>a. ~After(server, server)
  <2>1. server.updated \in Int
    BY <1>t, TimeAssumption DEF Manifest
  <2> QED
    BY <2>1 DEF After
<1>r. /\ cli[c].result = "rejected" => After(server, local[c])
      /\ cli[c].result \in {"upToDate", "pulled"} => ~After(local[c], server)
  BY <1>t DEF IndInv, BehindServer
<1>g. ASSUME NEW q \in Process, NEW pc \in {"fetching", "replacing"}
      PROVE  LET p == [[q EXCEPT !.pc = "fetching", !.manifest = server] EXCEPT !.pc = pc]
             IN  p \in Process /\ p.pc = pc /\ p.manifest = server /\ p.result = q.result
  BY <1>t DEF Process
<1>1. CASE Return(k, Idle("current"), {})
  BY <1>1, <1>t, <1>u, FinishKeeps
<1>2. CASE missing # {} /\ Return(k, got, {Invoke(c, "PullBlobs", None, missing)})
  <2>1. PICK p \in Process : p = [got EXCEPT !.pc = "fetching"]
    BY <1>t, <1>g
  <2>2. /\ p.pc = "fetching" /\ p.manifest = server /\ p.result = cli[c].result
        /\ p = got
    BY <1>t, <1>g, <2>1 DEF Process
  <2>3. PICK n \in Call : n = Invoke(c, "PullBlobs", None, missing)
    BY <1>t, InvokeType, BlobsType DEF Rpc
  <2>4. n.live /\ n.client = c /\ n.rpc = "PullBlobs" /\ n.hashes = missing
    BY <2>3 DEF Invoke
  <2>5. Blobs(p.manifest) \subseteq blobs[c] \cup n.hashes
    BY <2>2, <2>4 DEF Missing
  <2>6. PICK next \in SUBSET Call : next = {n}
    OBVIOUS
  <2>7. p.pc = Awaits[n.rpc]
    BY <2>2, <2>4 DEF Awaits
  <2>8. Return(k, p, next)
    BY <1>2, <2>2, <2>3, <2>6
  <2>9. \A m \in next : m = n
    BY <2>6
  <2> HIDE DEF c, got, missing
  <2> QED
    BY <1>t, <1>u, <1>a, <1>r, <2>2, <2>4, <2>5, <2>6, <2>7, <2>8, <2>9, ReturnKeeps DEF c
<1>3. CASE missing = {} /\ Return(k, [got EXCEPT !.pc = "replacing"], {})
  <2>1. PICK p \in Process : p = [got EXCEPT !.pc = "replacing"]
    BY <1>t, <1>g
  <2>2. p.pc = "replacing" /\ p.manifest = server /\ p.result = cli[c].result
    BY <1>t, <1>g, <2>1
  <2>3. PICK next \in SUBSET Call : next = {}
    OBVIOUS
  <2>4. Blobs(p.manifest) \subseteq blobs[c]
    BY <1>3, <2>2 DEF Missing
  <2>5. Return(k, p, next)
    BY <1>3, <2>1, <2>3
  <2> HIDE DEF c, got, missing
  <2> QED
    BY <1>t, <1>u, <1>a, <1>r, <2>2, <2>3, <2>4, <2>5, ReturnKeeps DEF c
<1> QED
  BY <1>1, <1>2, <1>3 DEF PullManifest

LEMMA PullBlobsKeeps ==
    ASSUME IndInv, NEW k \in calls, EndPullBlobs(k) \/ AbortPullBlobs(k)
    PROVE  IndInv'
<1>t. /\ TypeOK /\ k \in Call /\ k.client \in Client /\ server \in Manifest /\ PendingNewer
      /\ cli[k.client] \in Process
  BY DEF IndInv, TypeOK, Call
<1>u. /\ UNCHANGED <<server, store, pending, local, blobs, edits>>
      /\ store' \subseteq Blob /\ server' \in Manifest /\ pending' \in Manifest \cup {None}
      /\ PendingNewer'
  BY <1>t DEF EndPullBlobs, AbortPullBlobs, serverVars, localVars, TypeOK, PendingNewer, After
<1>1. CASE AbortPullBlobs(k)
  BY <1>1, <1>t, <1>u, FinishKeeps DEF AbortPullBlobs
<1>2. CASE EndPullBlobs(k)
  <2>1. PICK p \in Process : p = [cli[k.client] EXCEPT !.pc = "replacing"]
    BY <1>t DEF Process
  <2>2. /\ p.pc = "replacing" /\ p.manifest = cli[k.client].manifest
        /\ p.result = cli[k.client].result
    BY <1>t, <2>1 DEF Process
  <2>3. /\ k.live /\ k.hashes = {} /\ k.rpc = "PullBlobs"
    BY <1>2 DEF EndPullBlobs
  <2>4. /\ Blobs(p.manifest) \subseteq blobs[k.client]
        /\ p.manifest \in Manifest /\ ~After(p.manifest, server)
    BY <1>t, <2>2, <2>3 DEF IndInv, PullBringsAll, LiveCalls, Awaits
  <2>5. /\ p.result = "rejected" => After(server, local[k.client])
        /\ p.result \in {"upToDate", "pulled"} => ~After(local[k.client], server)
    BY <1>t, <2>2 DEF IndInv, BehindServer
  <2>6. PICK next \in SUBSET Call : next = {}
    OBVIOUS
  <2>7. Return(k, p, next)
    BY <1>2, <2>1, <2>6 DEF EndPullBlobs
  <2> QED
    BY <1>t, <1>u, <2>2, <2>4, <2>5, <2>6, <2>7, ReturnKeeps
<1> QED
  BY <1>1, <1>2

(* The faults. *)
LEMMA GiveUpKeeps ==
    ASSUME IndInv, NEW c \in Client, Disconnect(c)
    PROVE  IndInv'
<1>t. TypeOK /\ calls \subseteq Call /\ Mine(c) \subseteq calls
  BY DEF IndInv, TypeOK, Mine
<1>1. PICK p \in Process : p = Idle("error")
  BY IdleType
<1>2. p.pc \notin {"fetching", "replacing"} /\ p.result \notin {"rejected", "upToDate", "pulled"}
  BY <1>1 DEF Idle
<1>3. cli' = [cli EXCEPT ![c] = p] /\ UNCHANGED <<serverVars, localVars>>
  BY <1>1 DEF Disconnect
<1>4. ASSUME NEW k \in Call
      PROVE  LET j == [k EXCEPT !.live = FALSE]
             IN  j \in Call /\ ~j.live /\ j.rpc = k.rpc /\ j.manifest = k.manifest
  BY DEF Call
<1>5. ASSUME NEW j \in calls'
      PROVE  /\ j \in Call
             /\ \/ j \in calls \ Mine(c)
                \/ ~j.live /\ \E i \in calls : j.rpc = i.rpc /\ j.manifest = i.manifest
  <2>1. CASE j \in calls \ Mine(c)
    BY <1>t, <2>1
  <2>2. CASE j \notin calls \ Mine(c)
    <3>1. j \in {[k EXCEPT !.live = FALSE] : k \in Mine(c) \ Harmless}
      BY <2>2 DEF Disconnect
    <3>2. PICK k \in Mine(c) : j = [k EXCEPT !.live = FALSE]
      BY <3>1
    <3>3. k \in calls /\ k \in Call
      BY <1>t
    <3>4. j \in Call /\ ~j.live /\ j.rpc = k.rpc /\ j.manifest = k.manifest
      BY <1>4, <3>2, <3>3
    <3> QED
      BY <3>3, <3>4
  <2> QED
    BY <2>1, <2>2
<1>6. PICK new \in Call : new = [Invoke(c, "Prune", None, {}) EXCEPT !.current = None, !.live = TRUE]
  BY InvokeType DEF Rpc, Invoke, Call
<1>7. new.live /\ new.client = c
  BY <1>6 DEF Invoke
<1>8. new \notin calls'
  BY <1>5, <1>7 DEF Mine
<1>9. calls' \subseteq Call
  BY <1>5
<1> QED
  BY <1>2, <1>3, <1>5, <1>8, <1>9, TurnKeeps

(* retryOnAuth starts the command again: one call is replaced by another.  *)
LEMMA RedoKeeps ==
    ASSUME IndInv, NEW k \in calls, k.live,
           NEW pc \in {"push", "pull", "pruning"}, NEW m \in Manifest \cup {None},
           NEW new \in Call,
           UNCHANGED <<serverVars, localVars>>,
           cli' = [cli EXCEPT ![k.client] = Busy(pc, m, TRUE)],
           calls' = (calls \ {k}) \cup {new},
           new.live, new.client = k.client,
           new.rpc \in {"PushManifest", "PullManifest", "Prune"},
           pc = Awaits[new.rpc],
           new.rpc = "PushManifest" => new.manifest = local[k.client]
    PROVE  IndInv'
<1> DEFINE c == k.client
<1>t. /\ TypeOK /\ calls \subseteq Call /\ k \in Call /\ c \in Client
      /\ local[c] \in Manifest
  BY DEF IndInv, TypeOK, Call
<1>m. Mine(c) = {k}
  BY <1>t DEF Mine, IndInv, LiveCalls
<1>1. PICK p \in Process : p = Busy(pc, m, TRUE)
  BY BusyType
<1>2. p.pc = pc /\ p.result = "none"
  BY <1>1 DEF Busy
<1>3. cli' = [cli EXCEPT ![c] = p]
  BY <1>1
<1>4. \A j \in calls' : j \in calls \ Mine(c) \/ j = new
  BY <1>m
<1>5. calls' \subseteq Call
  BY <1>t
<1>6. p.pc \notin {"fetching", "replacing"} /\ p.result \notin {"rejected", "upToDate", "pulled"}
  BY <1>2
<1>7. p.pc = Awaits[new.rpc]
  BY <1>2
<1>8. new.client = c /\ (new.rpc = "PushManifest" => new.manifest = local[c])
  OBVIOUS
<1> HIDE DEF c
<1> QED
  BY <1>t, <1>3, <1>4, <1>5, <1>6, <1>7, <1>8, TurnKeeps

LEMMA ExpireKeeps ==
    ASSUME IndInv, NEW k \in calls, Expire(k)
    PROVE  IndInv'
<1>t. /\ TypeOK /\ calls \subseteq Call /\ k \in Call /\ k.client \in Client /\ k.live
      /\ local[k.client] \in Manifest
  BY DEF IndInv, TypeOK, Call, Expire
<1> DEFINE c == k.client
<1>m. Mine(c) = {k}
  BY <1>t DEF Mine, IndInv, LiveCalls
<1>u. UNCHANGED <<serverVars, localVars>>
  BY DEF Expire
<1>2. CASE /\ cli' = [cli EXCEPT ![c] = Busy("push", local[c], TRUE)]
           /\ calls' = (calls \ {k}) \cup {Invoke(c, "PushManifest", local[c], {})}
  <2>1. PICK new \in Call : new = Invoke(c, "PushManifest", local[c], {})
    BY <1>t, InvokeType DEF Rpc
  <2>2. new.live /\ new.client = k.client /\ new.rpc = "PushManifest" /\ new.manifest = local[k.client]
    BY <2>1 DEF Invoke
  <2>3. calls' = (calls \ {k}) \cup {new}
    BY <1>2, <2>1
  <2>4. "push" = Awaits[new.rpc]
    BY <2>2 DEF Awaits
  <2>5. cli' = [cli EXCEPT ![k.client] = Busy("push", local[k.client], TRUE)]
    BY <1>2
  <2> QED
    BY <1>t, <1>u, <2>2, <2>3, <2>4, <2>5, RedoKeeps
<1>3. CASE /\ cli' = [cli EXCEPT ![c] = Busy("pull", None, TRUE)]
           /\ calls' = (calls \ {k}) \cup {Invoke(c, "PullManifest", None, {})}
  <2>1. PICK new \in Call : new = Invoke(c, "PullManifest", None, {})
    BY <1>t, InvokeType DEF Rpc
  <2>2. new.live /\ new.client = k.client /\ new.rpc = "PullManifest"
    BY <2>1 DEF Invoke
  <2>3. calls' = (calls \ {k}) \cup {new}
    BY <1>3, <2>1
  <2>4. "pull" = Awaits[new.rpc]
    BY <2>2 DEF Awaits
  <2>5. cli' = [cli EXCEPT ![k.client] = Busy("pull", None, TRUE)]
    BY <1>3
  <2> QED
    BY <1>t, <1>u, <2>2, <2>3, <2>4, <2>5, RedoKeeps
<1>4. CASE /\ cli[c].pc = "pruning"
           /\ cli' = [cli EXCEPT ![c] = Busy("pruning", None, TRUE)]
           /\ calls' = calls
  <2>1. k.rpc = "Prune"
    BY <1>t, <1>4 DEF IndInv, LiveCalls, Awaits, Call, Rpc
  <2>2. calls' = (calls \ {k}) \cup {k}
    BY <1>4
  <2>3. "pruning" = Awaits[k.rpc]
    BY <2>1 DEF Awaits
  <2>4. cli' = [cli EXCEPT ![k.client] = Busy("pruning", None, TRUE)]
    BY <1>4
  <2> QED
    BY <1>t, <1>u, <2>1, <2>2, <2>3, <2>4, RedoKeeps
<1>5. CASE cli' = [cli EXCEPT ![c] = Idle("error")] /\ calls' = calls \ {k}
  <2>1. PICK p \in Process : p = Idle("error")
    BY IdleType
  <2>2. p.pc \notin {"fetching", "replacing"} /\ p.result \notin {"rejected", "upToDate", "pulled"}
    BY <2>1 DEF Idle
  <2>3. cli' = [cli EXCEPT ![c] = p]
    BY <1>5, <2>1
  <2>4. \A j \in calls' : j \in calls \ Mine(c)
    BY <1>m, <1>5
  <2>5. calls' \subseteq Call /\ k \notin calls'
    BY <1>t, <1>5
  <2> QED
    BY <1>t, <1>u, <2>2, <2>3, <2>4, <2>5, TurnKeeps
<1> QED
  BY <1>2, <1>3, <1>4, <1>5 DEF Expire

LEMMA RestartKeeps ==
    ASSUME IndInv, Restart
    PROVE  IndInv'
<1>t. TypeOK /\ calls \subseteq Call /\ store \subseteq Blob
  BY DEF IndInv, TypeOK
<1>1. PICK kept \in SUBSET {k \in calls : k.live /\ k.at = "wire"} :
        /\ calls' = kept
        /\ cli' = [c \in Client |-> IF Mine(c) \subseteq kept THEN cli[c] ELSE Idle("error")]
  BY DEF Restart
<1>2. Idle("error") \in Process /\ Idle("error").pc = "idle" /\ Idle("error").result = "error"
  BY IdleType DEF Idle
<1>3. UNCHANGED <<server, local, blobs, edits>> /\ pending' = None /\ store' \subseteq Blob
  BY <1>t DEF Restart, localVars
<1>4. calls' \subseteq calls
  BY <1>1
<1>5. TypeOK'
  BY <1>1, <1>2, <1>3, <1>4, <1>t DEF TypeOK
<1>6. \A c \in Client : cli'[c] = cli[c] \/ cli'[c] = Idle("error")
  BY <1>1
<1>7. ASSUME NEW k \in calls', k.live PROVE k.client \in Client /\ cli'[k.client] = cli[k.client]
  <2>1. k.client \in Client /\ k \in calls
    BY <1>t, <1>4, <1>7 DEF Call
  <2>2. Mine(k.client) = {k}
    BY <1>7, <2>1 DEF Mine, IndInv, LiveCalls
  <2> QED
    BY <1>1, <1>7, <2>1, <2>2
<1>8. LiveCalls'
  BY <1>4, <1>7 DEF IndInv, LiveCalls
<1>9. PushCarriesLocal'
  BY <1>3, <1>4 DEF IndInv, PushCarriesLocal
<1>10. PullBringsAll'
  BY <1>2, <1>3, <1>4, <1>6, <1>7 DEF IndInv, PullBringsAll, After
<1>11. PendingNewer' /\ ClientComplete'
  BY <1>3 DEF IndInv, PendingNewer, ClientComplete
<1>12. PushReadable'
  BY <1>3, <1>4 DEF IndInv, PushReadable
<1>13. BehindServer'
  BY <1>2, <1>3, <1>6 DEF IndInv, BehindServer, After
<1> QED
  BY <1>5, <1>8, <1>9, <1>10, <1>11, <1>12, <1>13 DEF IndInv

LEMMA NextIndInv == IndInv /\ [Next]_vars => IndInv'
<1> SUFFICES ASSUME IndInv, [Next]_vars PROVE IndInv'
  OBVIOUS
<1>1. ASSUME UNCHANGED vars PROVE IndInv'
  BY <1>1 DEF vars, IndInv, TypeOK, LiveCalls, PushCarriesLocal, PullBringsAll, PendingNewer,
              ClientComplete, PushReadable, BehindServer, After
<1>2. ASSUME NEW c \in Client, Commit(c) \/ Remove(c) \/ LocalPrune(c) \/ Push(c) \/ Pull(c)
                                \/ RemotePrune(c) \/ ReplaceLocal(c)
      PROVE  IndInv'
  BY <1>2, LocalKeeps
<1>3. ASSUME NEW c \in Client, Disconnect(c) PROVE IndInv'
  BY <1>3, GiveUpKeeps
<1>4. ASSUME NEW k \in calls, Arrive(k) \/ Handle(k) \/ Transfer(k) \/ Expire(k)
      PROVE  IndInv'
  BY <1>4, WaitKeeps, StreamKeeps, PushManifestKeeps, PushBlobsKeeps, PullManifestKeeps,
     PullBlobsKeeps, ExpireKeeps DEF Handle, Transfer
<1>5. ASSUME Restart PROVE IndInv'
  BY <1>5, RestartKeeps
<1> QED
  BY <1>1, <1>2, <1>3, <1>4, <1>5 DEF Next

-----------------------------------------------------------------------------
(* The invariant holds in every behaviour of sgardd and its clients.       *)
THEOREM Invariance == Spec => []IndInv
  BY InitIndInv, NextIndInv, PTL DEF Spec

(* Every variable stays in the set of values the program can give it.      *)
THEOREM TypeCorrect == Spec => []TypeOK
  BY Invariance, PTL DEF IndInv

(* A parked manifest is always newer than the one being served, however    *)
(* pushes, streams that end late and restarts are interleaved.             *)
THEOREM PendingStaysNewer == Spec => []PendingNewer
  BY Invariance, PTL DEF IndInv

(* Every machine holds all the blobs its manifest names, whatever the      *)
(* server does between the two RPCs of a pull.                             *)
THEOREM GardensComplete == Spec => []ClientComplete
  BY Invariance, PTL DEF IndInv

(* A push finds in its own store every blob it is asked for.               *)
THEOREM PushesReadable == Spec => []PushReadable
  BY Invariance, PTL DEF IndInv

(* A rejected client stays behind the server until it changes its garden.  *)
THEOREM RejectedStayBehind == Spec => []BehindServer
  BY Invariance, PTL DEF IndInv

(* Last timestamp wins: the manifest served is only replaced by a newer    *)
(* one.                                                                    *)
THEOREM LastTimestampWins == Spec => ServerMonotone
<1>1. ASSUME IndInv, [Next]_vars
      PROVE  [server' # server => After(server', server)]_vars
  <2>1. CASE \E k \in calls : EndPushBlobs(k)
    BY <1>1, <2>1 DEF EndPushBlobs, ApplyPending, IndInv, PendingNewer, After
  <2>2. CASE ~ \E k \in calls : EndPushBlobs(k)
    BY <1>1, <2>2 DEF Next, vars, Commit, Remove, LocalPrune, Push, Pull, RemotePrune, Start,
       ReplaceLocal, Disconnect, Arrive, Handle, BeginRead, PushManifest, BeginPushBlobs, Prune,
       Transfer, ReceiveBlob, AbortPushBlobs, KeepPending, PullManifest, SendBlob, EndPullBlobs,
       AbortPullBlobs, Expire, Restart, serverVars
  <2> QED
    BY <2>1, <2>2
<1> QED
  BY <1>1, Invariance, PTL DEF Spec, ServerMonotone

=============================================================================
