----------------------------- MODULE GardenSync ----------------------------
(***************************************************************************)
(* sgardd and the machines that synchronise with it: server/server.go,     *)
(* client/client.go and the parts of the Garden they call.                 *)
(*                                                                         *)
(* A push is two RPCs, PushManifest and PushBlobs, and a pull is two,      *)
(* PullManifest and PullBlobs.  Each handler takes Server.mu, and nothing  *)
(* holds it between the two RPCs of a command: what happens there is what  *)
(* this module is about.  An RPC is a record of the set calls; it is on    *)
(* the wire, then waits for mu ("mu"), then, if its handler is more than   *)
(* one step, holds mu ("serving").  It outlives the client that made it.   *)
(***************************************************************************)
EXTENDS Manifests, FiniteSets

CONSTANTS
    Client,    \* machines, each with a garden of its own
    Pusher,    \* the machines that push
    Pruner,    \* the machines that run `sgard prune --remote`
    Skew,      \* whether the clocks of the machines may disagree
    Born,      \* the times gardens may be initialised at (sgard init stamps now)
    Fault,     \* what the environment may do: a subset of Faults
    MaxEdits,  \* bound: local changes to manifests in a behaviour
    MaxLate,   \* bound: RPCs the server goes on serving for clients long gone
    None

Faults ==
    {"disconnect",  \* a client dies or loses its connection
     "restart",     \* sgardd stops and is started again
     "expire",      \* the interceptor answers Unauthenticated
     "disk"}        \* the server's disk fails a read, a write or a delete

ASSUME ClientAssumption == Pusher \subseteq Client /\ Pruner \subseteq Client
ASSUME FaultAssumption == Fault \subseteq Faults
ASSUME BornAssumption == 0 \in Time /\ Born \subseteq Time
ASSUME NoneAssumption == None \notin Manifest

VARIABLES
    server,   \* the manifest sgardd serves, the one manifest.yaml holds
    store,    \* the blobs of the server
    pending,  \* Server.pendingManifest
    calls,    \* RPCs made whose handler has not returned
    local,    \* the manifest of each client
    blobs,    \* the blobs of each client
    cli,      \* the sgard process of each client
    edits     \* local changes so far

serverVars == <<server, store, pending>>
localVars == <<local, blobs, edits>>
vars == <<server, store, pending, calls, local, blobs, cli, edits>>

Rpc == {"PushManifest", "PushBlobs", "PullManifest", "PullBlobs", "Prune"}

Call == [client : Client, rpc : Rpc, manifest : Manifest \cup {None},
         hashes : SUBSET Blob,       \* blobs not yet streamed
         current : Blob \cup {None}, \* the blob being reassembled
         at : {"wire", "mu", "serving"},
         live : BOOLEAN]             \* its client still waits for it

Invoke(c, rpc, m, hs) ==
    [client |-> c, rpc |-> rpc, manifest |-> m, hashes |-> hs,
     current |-> None, at |-> "wire", live |-> TRUE]

(* A client process: pc is "idle" or what it waits for, manifest the one   *)
(* it pushes or pulls, seen ServerUpdated of the PushManifest response,    *)
(* redo whether retryOnAuth has used its retry, result what the last       *)
(* command told the user.                                                  *)
Process == [pc : {"idle", "push", "streaming", "pull", "fetching", "replacing",
                  "pruning"},
            manifest : Manifest \cup {None},
            seen : Time \cup {None},
            redo : BOOLEAN,
            result : {"none", "edited", "pushed", "upToDate", "rejected", "pulled",
                      "current", "pruned", "error"}]

Idle(result) == [pc |-> "idle", manifest |-> None, seen |-> None,
                 redo |-> FALSE, result |-> result]
Busy(pc, m, redo) == [pc |-> pc, manifest |-> m, seen |-> None,
                      redo |-> redo, result |-> "none"]

Init ==
    /\ server = Empty(0)
    /\ store = {}
    /\ pending = None
    /\ calls = {}
    /\ local \in [Client -> {Empty(t) : t \in Born}]
    /\ blobs = [c \in Client |-> {}]
    /\ cli = [c \in Client |-> Idle("none")]
    /\ edits = 0

-----------------------------------------------------------------------------
(* Local commands, one sgard process per garden at a time. *)

(* Clocks that agree show a time later than any manifest there is. *)
Now(t) ==
    \/ Skew
    \/ \A m \in ({server, pending} \cup {local[c] : c \in Client}
                  \cup {k.manifest : k \in calls}) \ {None} : t > m.updated

(* add, checkpoint, mirror up: blobs first, then the manifest, stamped with *)
(* the clock of this machine.                                              *)
Commit(c) ==
    /\ cli[c].pc = "idle" /\ edits < MaxEdits
    /\ \E t \in Time, files \in SUBSET Entry :
        /\ Now(t)
        /\ local' = [local EXCEPT ![c] = [updated |-> t, files |-> files]]
        /\ blobs' = [blobs EXCEPT ![c] = @ \cup (files \cap Blob)]
    /\ cli' = [cli EXCEPT ![c] = Idle("edited")]
    /\ edits' = edits + 1
    /\ UNCHANGED <<serverVars, calls>>

(* remove: the manifest is saved and its timestamp is not touched. *)
Remove(c) ==
    /\ cli[c].pc = "idle" /\ edits < MaxEdits
    /\ \E e \in local[c].files : local' = [local EXCEPT ![c].files = @ \ {e}]
    /\ cli' = [cli EXCEPT ![c] = Idle("edited")]
    /\ edits' = edits + 1
    /\ UNCHANGED <<serverVars, calls, blobs>>

LocalPrune(c) ==
    /\ cli[c].pc = "idle"
    /\ blobs' = [blobs EXCEPT ![c] = @ \cap Blobs(local[c])]
    /\ UNCHANGED <<serverVars, calls, local, cli, edits>>

(* Commands that talk to the server: the first RPC of each. *)
Start(c, pc, rpc, m) ==
    /\ cli[c].pc = "idle"
    /\ cli' = [cli EXCEPT ![c] = Busy(pc, m, FALSE)]
    /\ calls' = calls \cup {Invoke(c, rpc, m, {})}
    /\ UNCHANGED <<serverVars, localVars>>

Push(c) == c \in Pusher /\ Start(c, "push", "PushManifest", local[c])
Pull(c) == Start(c, "pull", "PullManifest", None)
RemotePrune(c) == c \in Pruner /\ Start(c, "pruning", "Prune", None)

-----------------------------------------------------------------------------
(* Server.mu, a sync.RWMutex: a reader that comes while a writer holds mu  *)
(* or waits for it waits too, and is let in when the writer unlocks, ahead *)
(* of other writers.                                                       *)

Writers == {"PushManifest", "PushBlobs", "Prune"}

Serving(rpc) == {k \in calls : k.at = "serving" /\ k.rpc = rpc}

Lock == \A k \in calls : k.at # "serving"
RLock == \A k \in calls : k.rpc \in Writers => k.at = "wire"

Arrive(k) ==
    /\ k.at = "wire"
    /\ calls' = (calls \ {k}) \cup {[k EXCEPT !.at = "mu"]}
    /\ UNCHANGED <<serverVars, localVars, cli>>

BeginRead(k) ==
    /\ k.rpc \notin Writers /\ k.at = "mu" /\ RLock
    /\ calls' = (calls \ {k}) \cup {[k EXCEPT !.at = "serving"]}
    /\ UNCHANGED <<serverVars, localVars, cli>>

LetReadersIn(ks) ==
    {IF j.at = "mu" /\ j.rpc \notin Writers THEN [j EXCEPT !.at = "serving"] ELSE j :
        j \in ks}

(* The other calls once the handler of k has returned and unlocked. *)
Rest(k) == IF k.rpc \in Writers THEN LetReadersIn(calls \ {k}) ELSE calls \ {k}

(* The handler of k returns: its client, if it still waits and the answer  *)
(* reaches it, goes on as p, making the RPCs in next.                      *)
Return(k, p, next) ==
    \/ /\ k.live
       /\ cli' = [cli EXCEPT ![k.client] = p]
       /\ calls' = Rest(k) \cup next
    \/ /\ k.live /\ "disconnect" \in Fault
       /\ cli' = [cli EXCEPT ![k.client] = Idle("error")]
       /\ calls' = Rest(k)
    \/ ~k.live /\ cli' = cli /\ calls' = Rest(k)

(* Mutant of Accepts: an equal timestamp is accepted too. *)
AcceptsEqual(m) == ~After(server, m)

Accepts(m) == After(m, server)

(* Mutant of Rejects: an equal timestamp is rejected. *)
RejectsEqual(m) == ~After(m, server)

Rejects(m) == After(server, m)

(* Mutant of Park: a push that misses no blob leaves pendingManifest alone. *)
ParkIfMissing(m) == pending' = IF Missing(m, store) = {} THEN pending ELSE m

Park(m) == pending' = m

(* ACCEPTED: the manifest is parked in pendingManifest, over whatever is   *)
(* there, and the client streams what is missing; when nothing is, it      *)
(* sends an empty stream.                                                  *)
PushManifest(k) ==
    /\ k.rpc = "PushManifest" /\ k.at = "mu" /\ Lock
    /\ \/ /\ Accepts(k.manifest)
          /\ Park(k.manifest)
          /\ Return(k, [cli[k.client] EXCEPT !.pc = "streaming", !.seen = server.updated],
                    {Invoke(k.client, "PushBlobs", None, Missing(k.manifest, store))})
       \/ Rejects(k.manifest) /\ pending' = pending /\ Return(k, Idle("rejected"), {})
       \/ /\ ~Accepts(k.manifest) /\ ~Rejects(k.manifest)
          /\ pending' = pending
          /\ Return(k, Idle("upToDate"), {})
    /\ UNCHANGED <<server, store, localVars>>

(* PushBlobs holds mu from its first line to its last. *)
BeginPushBlobs(k) ==
    /\ k.rpc = "PushBlobs" /\ k.at = "mu" /\ Lock
    /\ calls' = (calls \ {k}) \cup {[k EXCEPT !.at = "serving"]}
    /\ UNCHANGED <<serverVars, localVars, cli>>

(* Mutants of Flushed: the blob that ends the stream is never written; the *)
(* buffer is written although no blob has begun.                           *)
FlushedButLast(k) == IF k.hashes = {} THEN store ELSE store \cup ({k.current} \cap Blob)
FlushedUnbegun(k) == store \cup {k.current}

Flushed(k) == store \cup ({k.current} \cap Blob)

(* The first chunk of the next blob: the previous one is complete and is   *)
(* written.  A live client reads the blob from its own store.              *)
ReceiveBlob(k) ==
    /\ k.rpc = "PushBlobs" /\ k.at = "serving"
    /\ \E h \in k.hashes :
        /\ k.live => h \in blobs[k.client]
        /\ calls' = (calls \ {k})
                    \cup {[k EXCEPT !.hashes = @ \ {h}, !.current = h]}
    /\ store' = Flushed(k)
    /\ UNCHANGED <<server, pending, localVars, cli>>

ApplyPending ==
    \/ pending # None /\ server' = pending /\ pending' = None
    \/ pending = None /\ UNCHANGED <<server, pending>>

EndPushBlobs(k) ==
    /\ k.rpc = "PushBlobs" /\ k.at = "serving" /\ k.hashes = {}
    /\ store' = Flushed(k)
    /\ ApplyPending
    /\ Return(k, Idle("pushed"), {})
    /\ UNCHANGED localVars

(* Mutants of KeepPending: a failed Recv ends the stream as EOF does; a    *)
(* failed stream clears pendingManifest.                                   *)
ApplyOnAbort == ApplyPending
ClearOnAbort == pending' = None /\ UNCHANGED server

KeepPending == UNCHANGED <<server, pending>>

(* Recv or Send fails because the client is gone, or the disk fails.       *)
Broken(k) == ~k.live \/ "disk" \in Fault

AbortPushBlobs(k) ==
    /\ k.rpc = "PushBlobs" /\ k.at = "serving" /\ Broken(k)
    /\ store' \in {store, Flushed(k)}
    /\ KeepPending
    /\ Return(k, Idle("error"), {})
    /\ UNCHANGED localVars

(* Mutant of UpToDate: the local timestamp is not looked at. *)
NeverUpToDate(c) == FALSE

UpToDate(c) == local[c].files # {} /\ ~After(server, local[c])

(* The client decides with the manifest it received, before any blob. *)
PullManifest(k) ==
    /\ k.rpc = "PullManifest" /\ k.at = "serving"
    /\ LET c == k.client
           missing == Missing(server, blobs[c])
           got == [cli[c] EXCEPT !.pc = "fetching", !.manifest = server]
       IN  \/ UpToDate(c) /\ Return(k, Idle("current"), {})
           \/ /\ ~UpToDate(c) /\ missing # {}
              /\ Return(k, got, {Invoke(c, "PullBlobs", None, missing)})
           \/ /\ ~UpToDate(c) /\ missing = {}
              /\ Return(k, [got EXCEPT !.pc = "replacing"], {})
    /\ UNCHANGED <<serverVars, localVars>>

SendBlob(k) ==
    /\ k.rpc = "PullBlobs" /\ k.at = "serving" /\ k.live
    /\ \E h \in k.hashes \cap store :
        /\ calls' = (calls \ {k}) \cup {[k EXCEPT !.hashes = @ \ {h}]}
        /\ blobs' = [blobs EXCEPT ![k.client] = @ \cup {h}]
    /\ UNCHANGED <<serverVars, local, cli, edits>>

EndPullBlobs(k) ==
    /\ k.rpc = "PullBlobs" /\ k.at = "serving" /\ k.live /\ k.hashes = {}
    /\ Return(k, [cli[k.client] EXCEPT !.pc = "replacing"], {})
    /\ UNCHANGED <<serverVars, localVars>>

(* Mutant of AbortPullBlobs: the client takes NotFound for the end of the  *)
(* stream.                                                                 *)
NotFoundEndsPull(k) ==
    /\ k.rpc = "PullBlobs" /\ k.at = "serving"
    /\ Broken(k) \/ k.hashes \ store # {}
    /\ Return(k, [cli[k.client] EXCEPT !.pc = "replacing"], {})
    /\ UNCHANGED <<serverVars, localVars>>

(* NotFound for a blob the store does not hold, or the stream is broken.   *)
AbortPullBlobs(k) ==
    /\ k.rpc = "PullBlobs" /\ k.at = "serving"
    /\ Broken(k) \/ k.hashes \ store # {}
    /\ Return(k, Idle("error"), {})
    /\ UNCHANGED <<serverVars, localVars>>

ReplaceLocal(c) ==
    /\ cli[c].pc = "replacing"
    /\ local' = [local EXCEPT ![c] = cli[c].manifest]
    /\ cli' = [cli EXCEPT ![c] = Idle("pulled")]
    /\ UNCHANGED <<serverVars, calls, blobs, edits>>

(* Only the manifest being served counts: pendingManifest does not. *)
Unreferenced == store \ Blobs(server)

(* Mutant of PruneLock: Prune takes the lock for reading. *)
PruneRLock == Serving("PushBlobs") = {}

PruneLock == Lock

Prune(k) ==
    /\ k.rpc = "Prune" /\ k.at = "mu" /\ PruneLock
    /\ \/ store' = store \ Unreferenced /\ Return(k, Idle("pruned"), {})
       \/ /\ "disk" \in Fault
          /\ \E gone \in SUBSET Unreferenced : store' = store \ gone
          /\ Return(k, Idle("error"), {})
    /\ UNCHANGED <<server, pending, localVars>>

-----------------------------------------------------------------------------
(* Faults. *)

Mine(c) == {k \in calls : k.client = c /\ k.live}

Harmless == {k \in calls : k.rpc = "PullManifest" \/ (k.rpc = "PullBlobs" /\ k.at # "serving")}

(* A client stops waiting.  Either the server notices at once, or, since   *)
(* handlers do not watch their context while they wait for mu and gRPC may *)
(* hold data already sent, the request goes on without it.  A read that    *)
(* is not sending blobs has no effect and is dropped.                      *)
Disconnect(c) ==
    /\ "disconnect" \in Fault /\ cli[c].pc # "idle"
    /\ \/ /\ MaxLate = 0 \/ \A k \in Mine(c) : k.at = "wire"
          /\ calls' = calls \ Mine(c)
       \/ /\ Cardinality({k \in calls : ~k.live}) < MaxLate
          /\ calls' = (calls \ Mine(c)) \cup
                {[k EXCEPT !.live = FALSE] : k \in Mine(c) \ Harmless}
    /\ cli' = [cli EXCEPT ![c] = Idle("error")]
    /\ UNCHANGED <<serverVars, localVars>>

(* Mutant of FirstTry: a command is retried as often as it is refused. *)
AnyTry(p) == TRUE

FirstTry(p) == ~p.redo

(* The interceptor refuses k.  retryOnAuth authenticates and runs the      *)
(* whole command again, once; a refused stream that had blobs to send may  *)
(* show up as io.EOF from Send, which is not retried.                      *)
Expire(k) ==
    /\ "expire" \in Fault /\ k.at = "wire" /\ k.live
    /\ LET c == k.client
           p == cli[c]
       IN  \/ /\ FirstTry(p)
              /\ \/ /\ p.pc \in {"push", "streaming"}
                    /\ cli' = [cli EXCEPT ![c] = Busy("push", local[c], TRUE)]
                    /\ calls' = (calls \ {k}) \cup {Invoke(c, "PushManifest", local[c], {})}
                 \/ /\ p.pc \in {"pull", "fetching"}
                    /\ cli' = [cli EXCEPT ![c] = Busy("pull", None, TRUE)]
                    /\ calls' = (calls \ {k}) \cup {Invoke(c, "PullManifest", None, {})}
                 \/ /\ p.pc = "pruning"
                    /\ cli' = [cli EXCEPT ![c] = Busy("pruning", None, TRUE)]
                    /\ calls' = calls
           \/ /\ ~FirstTry(p) \/ (k.rpc = "PushBlobs" /\ k.hashes # {})
              /\ cli' = [cli EXCEPT ![c] = Idle("error")]
              /\ calls' = calls \ {k}
    /\ UNCHANGED <<serverVars, localVars>>

(* sgardd stops and reopens its garden: the manifest and the blobs are on  *)
(* disk, pendingManifest is not.  Requests that had not reached it may     *)
(* reach the new process; a Prune at work may have deleted only some.      *)
Restart ==
    /\ "restart" \in Fault
    /\ pending' = None
    /\ \E kept \in SUBSET {k \in calls : k.live /\ k.at = "wire"} :
        /\ calls' = kept
        /\ cli' = [c \in Client |->
                      IF Mine(c) \subseteq kept THEN cli[c] ELSE Idle("error")]
    /\ \/ store' = store
       \/ /\ Lock /\ \E k \in calls : k.rpc = "Prune" /\ k.at = "mu"
          /\ \E gone \in SUBSET Unreferenced : store' = store \ gone
    /\ UNCHANGED <<server, localVars>>

-----------------------------------------------------------------------------
Handle(k) ==
    \/ BeginRead(k) \/ PushManifest(k) \/ BeginPushBlobs(k) \/ Prune(k)

Transfer(k) ==
    \/ ReceiveBlob(k) \/ EndPushBlobs(k) \/ AbortPushBlobs(k)
    \/ PullManifest(k) \/ SendBlob(k) \/ EndPullBlobs(k) \/ AbortPullBlobs(k)

Next ==
    \/ \E c \in Client :
        \/ Commit(c) \/ Remove(c) \/ LocalPrune(c)
        \/ Push(c) \/ Pull(c) \/ RemotePrune(c)
        \/ ReplaceLocal(c) \/ Disconnect(c)
    \/ \E k \in calls : Arrive(k) \/ Handle(k) \/ Transfer(k) \/ Expire(k)
    \/ Restart

Spec == Init /\ [][Next]_vars

(* Every handler runs and every stream moves on or is found broken; a      *)
(* client process that can act acts.  Go's mutex starves no one, so a      *)
(* handler that mu is free for again and again gets it; a stream whose     *)
(* peer is gone is ended by gRPC's keepalive.                              *)
Fairness ==
    \A c \in Client :
        /\ WF_vars(\E k \in calls : k.client = c /\ Arrive(k))
        /\ SF_vars(\E k \in calls : k.client = c /\ Handle(k))
        /\ WF_vars(\E k \in calls : k.client = c /\ Transfer(k))
        /\ WF_vars(ReplaceLocal(c))

FairSpec == Spec /\ Fairness

-----------------------------------------------------------------------------
(* Properties. *)

TypeOK ==
    /\ server \in Manifest
    /\ store \subseteq Blob
    /\ pending \in Manifest \cup {None}
    /\ calls \subseteq Call
    /\ local \in [Client -> Manifest]
    /\ blobs \in [Client -> SUBSET Blob]
    /\ cli \in [Client -> Process]
    /\ edits \in Nat

(* A parked manifest is newer than the one being served however long it    *)
(* has waited and whoever's stream came to an end meanwhile: PushBlobs     *)
(* installs it without looking at the timestamps again.                    *)
PendingNewer == pending # None => After(pending, server)

(* Last timestamp wins: what the server serves only ever moves forward,    *)
(* over interleaved pushes, late handlers and restarts.                    *)
ServerMonotone == [][server' # server => After(server', server)]_vars

(* A garden holds every blob its manifest names, so restore can never miss *)
(* one: pull replaces the manifest only once every blob has arrived, also  *)
(* when a push or a prune came between PullManifest and PullBlobs.         *)
ClientComplete == \A c \in Client : Blobs(local[c]) \subseteq blobs[c]

(* doPush reads from its own store exactly the blobs PushManifest asked    *)
(* for, and finds them.                                                    *)
PushReadable ==
    \A k \in calls : k.rpc = "PushBlobs" /\ k.live => k.hashes \subseteq blobs[k.client]

(* While a stream is served nothing it depends on goes away: no step       *)
(* deletes a blob that a PullBlobs has still to send, nor any blob while a *)
(* PushBlobs is filling the gaps PushManifest found.                       *)
StreamsUndisturbed ==
    [][/\ Serving("PushBlobs") # {} => store \subseteq store' \/ Serving("PushBlobs")' = {}
       /\ \A k \in Serving("PullBlobs") \cap calls' : k.hashes \cap store \subseteq store']_vars

(* What a command told the user stays true until the garden is changed: a  *)
(* rejected client stays behind the server, so that "pull first" helps,    *)
(* and one that was up to date or has pulled never finds itself ahead.     *)
BehindServer ==
    \A c \in Client :
        /\ cli[c].result = "rejected" => After(server, local[c])
        /\ cli[c].result \in {"upToDate", "pulled"} => ~After(local[c], server)

(* pull never replaces a garden that has files by one that is not newer.   *)
PullGoesForward ==
    [][\A c \in Client :
          cli'[c].result = "pulled" /\ cli[c].result # "pulled"
              => local[c].files = {} \/ After(local'[c], local[c])]_vars

(* The inductive invariant behind these properties.  Each client waits for *)
(* at most one RPC, the one its pc names; ...                              *)
Awaits == [PushManifest |-> "push", PushBlobs |-> "streaming", PullManifest |-> "pull",
           PullBlobs |-> "fetching", Prune |-> "pruning"]

LiveCalls ==
    /\ \A k \in calls : k.live => cli[k.client].pc = Awaits[k.rpc]
    /\ \A j, k \in calls : j.live /\ k.live /\ j.client = k.client => j = k

(* ... what a push carries is a manifest, the local one while the client   *)
(* waits; ...                                                              *)
PushCarriesLocal ==
    \A k \in calls : k.rpc = "PushManifest" =>
        /\ k.manifest \in Manifest
        /\ k.live => k.manifest = local[k.client]

(* ... and what a pull brings was served, and is here or on its way.       *)
PullBringsAll ==
    /\ \A c \in Client : cli[c].pc \in {"fetching", "replacing"} =>
        /\ cli[c].manifest \in Manifest
        /\ ~After(cli[c].manifest, server)
    /\ \A c \in Client : cli[c].pc = "replacing" => Blobs(cli[c].manifest) \subseteq blobs[c]
    /\ \A k \in calls : k.rpc = "PullBlobs" /\ k.live =>
        Blobs(cli[k.client].manifest) \subseteq blobs[k.client] \cup k.hashes

IndInv ==
    /\ TypeOK
    /\ LiveCalls
    /\ PushCarriesLocal
    /\ PullBringsAll
    /\ PendingNewer
    /\ ClientComplete
    /\ PushReadable
    /\ BehindServer

(* A push reported as done has moved the server past the manifest it was   *)
(* compared with, whoever installed what, unless sgardd was restarted.     *)
PushAdvances ==
    [][\A c \in Client :
          cli[c].pc = "streaming" /\ cli'[c].result = "pushed"
              => server'.updated > cli[c].seen]_vars

(* A push reported as done is what the server now serves. *)
PushInstalls ==
    [][\A c \in Client :
          cli[c].pc = "streaming" /\ cli'[c].result = "pushed" => server' = local[c]]_vars

(* The server holds every blob of the manifest it serves: a pull can       *)
(* succeed.                                                                *)
ServerComplete == Blobs(server) \subseteq store

(* UP_TO_DATE means there is nothing to do: the two manifests are equal.   *)
UpToDateMeansSame ==
    [][\A c \in Client :
          cli[c].pc = "push" /\ cli'[c].result = "upToDate" => local[c] = server]_vars

(* A garden that is newer than the server's, or as new, is not replaced.   *)
PullKeepsNewer ==
    [][\A c \in Client :
          cli'[c].result = "pulled" /\ cli[c].result # "pulled"
              => After(local'[c], local[c])]_vars

(* Every command ends. *)
Terminates == \A c \in Client : cli[c].pc # "idle" ~> cli[c].pc = "idle"

(* One machine pushes and prunes, and no RPC outlives its client. *)
SoleWriter(w) == Pusher \subseteq {w} /\ Pruner \subseteq {w} /\ MaxLate = 0

(* With one machine that pushes and prunes, the others pulling, the server *)
(* is the register of complete manifests of CompleteGarden.                *)
Abstract == INSTANCE CompleteGarden WITH current <- server, held <- store
AtomicPush == Abstract!Spec
=============================================================================
