------------------------- MODULE GardenSyncStepProofs ------------------------
(***************************************************************************)
(* What a step of GardenSync may never do: take blobs from a stream, pull  *)
(* backwards, or report a push that has moved nothing; and that each step  *)
(* is one of CompleteGarden, or none, where one machine writes.            *)
(***************************************************************************)
EXTENDS GardenSyncProofs, FiniteSetTheorems

-----------------------------------------------------------------------------
(* A stream holds mu, so that nothing is deleted until it has ended.       *)

(* StreamsUndisturbed: no step deletes a blob that a PullBlobs has still   *)
(* to send, nor any blob while a PushBlobs fills the gaps.                 *)
THEOREM StreamsAreSafe == Spec => StreamsUndisturbed
<1>1. ASSUME [Next]_vars
      PROVE  [/\ Serving("PushBlobs") # {} => store \subseteq store' \/ Serving("PushBlobs")' = {}
              /\ \A k \in Serving("PullBlobs") \cap calls' : k.hashes \cap store \subseteq store']_vars
  <2>1. CASE \E k \in calls : Prune(k)
    <3>1. Serving("PushBlobs") = {} /\ Serving("PullBlobs") = {}
      BY <2>1 DEF Prune, PruneLock, Lock, Serving
    <3> QED
      BY <3>1
  <2>2. CASE Restart
    <3>1. \A k \in calls' : k.at = "wire"
      BY <2>2 DEF Restart
    <3>2. Serving("PushBlobs")' = {} /\ Serving("PullBlobs") \cap calls' = {}
      BY <3>1 DEF Serving
    <3> QED
      BY <3>2
  <2>3. CASE ~Restart /\ ~ \E k \in calls : Prune(k)
    <3>1. store \subseteq store'
      BY <1>1, <2>3 DEF Next, vars, Commit, Remove, LocalPrune, Push, Pull, RemotePrune, Start,
         ReplaceLocal, Disconnect, Arrive, Handle, BeginRead, PushManifest, BeginPushBlobs,
         Transfer, ReceiveBlob, EndPushBlobs, AbortPushBlobs, Flushed, PullManifest, SendBlob,
         EndPullBlobs, AbortPullBlobs, Expire, serverVars
    <3> QED
      BY <3>1
  <2> QED
    BY <2>1, <2>2, <2>3
<1> QED
  BY <1>1, PTL DEF Spec, StreamsUndisturbed

-----------------------------------------------------------------------------
(* What a step does to the command of one client. *)

Same(c) == cli'[c] = cli[c] /\ local'[c] = local[c]
Ended(c) == cli'[c].pc = "idle" /\ cli'[c].result \notin {"pushed", "pulled"}
Began(c) == cli'[c].pc \in {"push", "pull", "pruning"} /\ cli'[c].result = "none"
Parked(c) ==
    /\ cli[c].pc = "push" /\ cli'[c] = [cli[c] EXCEPT !.pc = "streaming", !.seen = server.updated]
    /\ pending' \in Manifest /\ After(pending', server) /\ server' = server
Fetches(c) ==
    /\ cli[c].pc = "pull" /\ ~UpToDate(c) /\ local' = local
    /\ \E pc \in {"fetching", "replacing"} :
          cli'[c] = [cli[c] EXCEPT !.pc = pc, !.manifest = server]
Fetched(c) ==
    /\ cli[c].pc = "fetching" /\ local' = local
    /\ cli'[c] = [cli[c] EXCEPT !.pc = "replacing"]
Pushed(c) ==
    /\ cli[c].pc = "streaming" /\ cli'[c] = Idle("pushed")
    /\ server' = IF pending = None THEN server ELSE pending
Pulled(c) ==
    /\ cli[c].pc = "replacing" /\ cli'[c] = Idle("pulled") /\ local'[c] = cli[c].manifest

Turn(c) ==
    \/ Same(c) \/ Ended(c) \/ Began(c) \/ Parked(c)
    \/ Fetches(c) \/ Fetched(c) \/ Pushed(c) \/ Pulled(c)

LEMMA IdleIs == \A r : Idle(r).pc = "idle" /\ Idle(r).result = r
  BY DEF Idle

LEMMA ReturnTurn ==
    ASSUME IndInv, NEW k \in calls, NEW p, NEW next, Return(k, p, next), NEW c \in Client, local' = local
    PROVE  Same(c) \/ Ended(c) \/ (k.live /\ c = k.client /\ cli'[c] = p)
<1>1. \/ cli' = cli \/ (k.live /\ cli' = [cli EXCEPT ![k.client] = p])
      \/ cli' = [cli EXCEPT ![k.client] = Idle("error")]
  BY DEF Return
<1>2. cli \in [Client -> Process] /\ k.client \in Client
  BY DEF IndInv, TypeOK, Call
<1> QED
  BY <1>1, <1>2, IdleIs DEF Same, Ended

LEMMA LocalTurn ==
    ASSUME IndInv, NEW d \in Client, NEW c \in Client,
           \/ Commit(d) \/ Remove(d) \/ LocalPrune(d) \/ Push(d) \/ Pull(d) \/ RemotePrune(d)
           \/ ReplaceLocal(d) \/ Disconnect(d)
    PROVE  Turn(c)
<1>1. cli \in [Client -> Process] /\ local \in [Client -> Manifest]
  BY DEF IndInv, TypeOK
<1>2. CASE Commit(d) \/ Remove(d)
  <2>1. cli' = [cli EXCEPT ![d] = Idle("edited")] /\ \A e \in Client : e # d => local'[e] = local[e]
    BY <1>1, <1>2 DEF Commit, Remove
  <2> QED
    BY <1>1, <2>1, IdleIs DEF Turn, Same, Ended
<1>3. CASE LocalPrune(d)
  BY <1>3 DEF LocalPrune, Turn, Same
<1>4. CASE Push(d) \/ Pull(d) \/ RemotePrune(d)
  <2>1. PICK b \in {Busy("push", local[d], FALSE), Busy("pull", None, FALSE), Busy("pruning", None, FALSE)} :
            cli' = [cli EXCEPT ![d] = b]
    BY <1>4 DEF Push, Pull, RemotePrune, Start
  <2>2. local' = local
    BY <1>4 DEF Push, Pull, RemotePrune, Start, localVars
  <2>3. CASE c = d
    <3>1. b.pc \in {"push", "pull", "pruning"} /\ b.result = "none"
      BY DEF Busy
    <3> QED
      BY <1>1, <2>1, <2>3, <3>1 DEF Turn, Began
  <2>4. CASE c # d
    BY <1>1, <2>1, <2>2, <2>4 DEF Turn, Same
  <2> QED
    BY <2>3, <2>4
<1>5. CASE ReplaceLocal(d)
  BY <1>1, <1>5 DEF ReplaceLocal, Turn, Same, Pulled
<1>6. CASE Disconnect(d)
  <2>1. cli' = [cli EXCEPT ![d] = Idle("error")] /\ local' = local
    BY <1>6 DEF Disconnect, localVars
  <2> QED
    BY <1>1, <2>1, IdleIs DEF Turn, Same, Ended
<1> QED
  BY <1>2, <1>3, <1>4, <1>5, <1>6

LEMMA PushTurn ==
    ASSUME IndInv, NEW k \in calls, NEW c \in Client,
           PushManifest(k) \/ EndPushBlobs(k) \/ AbortPushBlobs(k) \/ Prune(k)
    PROVE  Turn(c)
<1>1. local' = local /\ (k.live => cli[k.client].pc = Awaits[k.rpc])
  BY DEF PushManifest, EndPushBlobs, AbortPushBlobs, Prune, localVars, IndInv, LiveCalls
<1>2. CASE PushManifest(k)
  <2>1. CASE ~ \E r \in {"rejected", "upToDate"} : Return(k, Idle(r), {})
    <3>1. /\ k.rpc = "PushManifest" /\ After(k.manifest, server) /\ pending' = k.manifest
          /\ server' = server /\ k.manifest \in Manifest
      BY <1>2, <2>1 DEF PushManifest, Accepts, Park, IndInv, PushCarriesLocal
    <3>2. PICK next : Return(k, [cli[k.client] EXCEPT !.pc = "streaming", !.seen = server.updated], next)
      BY <1>2, <2>1 DEF PushManifest
    <3>3. k.live => cli[k.client].pc = "push"
      BY <1>1, <3>1 DEF Awaits
    <3>4. \/ Same(c) \/ Ended(c)
          \/ k.live /\ c = k.client /\ cli'[c] = [cli[c] EXCEPT !.pc = "streaming", !.seen = server.updated]
      BY <1>1, <3>2, ReturnTurn
    <3> QED
      BY <3>1, <3>3, <3>4 DEF Turn, Parked
  <2>2. CASE \E r \in {"rejected", "upToDate"} : Return(k, Idle(r), {})
    BY <1>1, <2>2, ReturnTurn, IdleIs DEF Turn, Ended
  <2> QED
    BY <2>1, <2>2
<1>3. CASE EndPushBlobs(k)
  <2>1. Return(k, Idle("pushed"), {}) /\ k.rpc = "PushBlobs"
        /\ server' = IF pending = None THEN server ELSE pending
    BY <1>3 DEF EndPushBlobs, ApplyPending
  <2>2. k.live => cli[k.client].pc = "streaming"
    BY <1>1, <2>1 DEF Awaits
  <2> QED
    BY <1>1, <2>1, <2>2, ReturnTurn DEF Turn, Pushed
<1>4. CASE AbortPushBlobs(k) \/ Prune(k)
  <2>1. PICK r \in {"error", "pruned"} : Return(k, Idle(r), {})
    BY <1>4 DEF AbortPushBlobs, Prune
  <2> QED
    BY <1>1, <2>1, ReturnTurn, IdleIs DEF Turn, Ended
<1> QED
  BY <1>2, <1>3, <1>4

LEMMA PullTurn ==
    ASSUME IndInv, NEW k \in calls, NEW c \in Client,
           PullManifest(k) \/ EndPullBlobs(k) \/ AbortPullBlobs(k)
    PROVE  Turn(c)
<1>1. local' = local /\ (k.live => cli[k.client].pc = Awaits[k.rpc])
  BY DEF PullManifest, EndPullBlobs, AbortPullBlobs, localVars, IndInv, LiveCalls
<1>2. CASE PullManifest(k)
  <2>1. k.live => cli[k.client].pc = "pull"
    BY <1>1, <1>2 DEF PullManifest, Awaits
  <2>2. CASE ~ Return(k, Idle("current"), {})
    <3>1. ~UpToDate(k.client)
      BY <1>2, <2>2 DEF PullManifest
    <3>2. PICK pc \in {"fetching", "replacing"}, next \in
                {{}, {Invoke(k.client, "PullBlobs", None, Missing(server, blobs[k.client]))}} :
              Return(k, [cli[k.client] EXCEPT !.pc = pc, !.manifest = server], next)
      <4>1. cli[k.client] \in Process
        BY DEF IndInv, TypeOK, Call
      <4>2. [[cli[k.client] EXCEPT !.pc = "fetching", !.manifest = server] EXCEPT !.pc = "replacing"]
            = [cli[k.client] EXCEPT !.pc = "replacing", !.manifest = server]
        BY <4>1 DEF Process
      <4> QED
        BY <1>2, <2>2, <4>2 DEF PullManifest
    <3>3. \/ Same(c) \/ Ended(c)
          \/ k.live /\ c = k.client /\ cli'[c] = [cli[c] EXCEPT !.pc = pc, !.manifest = server]
      BY <1>1, <3>2, ReturnTurn
    <3> QED
      BY <1>1, <2>1, <3>1, <3>3 DEF Turn, Fetches
  <2>3. CASE Return(k, Idle("current"), {})
    BY <1>1, <2>3, ReturnTurn, IdleIs DEF Turn, Ended
  <2> QED
    BY <2>2, <2>3
<1>3. CASE EndPullBlobs(k)
  <2>1. Return(k, [cli[k.client] EXCEPT !.pc = "replacing"], {}) /\ k.rpc = "PullBlobs"
    BY <1>3 DEF EndPullBlobs
  <2>2. k.live => cli[k.client].pc = "fetching"
    BY <1>1, <2>1 DEF Awaits
  <2> QED
    BY <1>1, <2>1, <2>2, ReturnTurn DEF Turn, Fetched
<1>4. CASE AbortPullBlobs(k)
  BY <1>1, <1>4, ReturnTurn, IdleIs DEF AbortPullBlobs, Turn, Ended
<1> QED
  BY <1>2, <1>3, <1>4

LEMMA ExpireTurn ==
    ASSUME IndInv, NEW k \in calls, NEW c \in Client, Expire(k)
    PROVE  Turn(c)
<1>1. cli \in [Client -> Process] /\ local' = local
  BY DEF IndInv, TypeOK, Expire, localVars
<1>2. PICK p \in {Busy("push", local[k.client], TRUE), Busy("pull", None, TRUE),
                 Busy("pruning", None, TRUE), Idle("error")} :
          cli' = [cli EXCEPT ![k.client] = p]
  BY DEF Expire
<1>3. CASE c = k.client
  <2>1. \/ p.pc \in {"push", "pull", "pruning"} /\ p.result = "none"
        \/ p.pc = "idle" /\ p.result = "error"
    BY DEF Busy, Idle
  <2> QED
    BY <1>1, <1>2, <1>3, <2>1 DEF Turn, Began, Ended
<1>4. CASE c # k.client
  BY <1>1, <1>2, <1>4 DEF Turn, Same
<1> QED
  BY <1>3, <1>4

(* Whatever happens, each client makes one of the turns above. *)
LEMMA Turns == ASSUME IndInv, [Next]_vars, NEW c \in Client PROVE Turn(c)
<1>1. CASE \E d \in Client :
             \/ Commit(d) \/ Remove(d) \/ LocalPrune(d) \/ Push(d) \/ Pull(d) \/ RemotePrune(d)
             \/ ReplaceLocal(d) \/ Disconnect(d)
  BY <1>1, LocalTurn
<1>2. CASE \E k \in calls : PushManifest(k) \/ EndPushBlobs(k) \/ AbortPushBlobs(k) \/ Prune(k)
  BY <1>2, PushTurn
<1>3. CASE \E k \in calls : PullManifest(k) \/ EndPullBlobs(k) \/ AbortPullBlobs(k)
  BY <1>3, PullTurn
<1>4. CASE \E k \in calls : Expire(k)
  BY <1>4, ExpireTurn
<1>5. CASE \E k \in calls :
             Arrive(k) \/ BeginRead(k) \/ BeginPushBlobs(k) \/ ReceiveBlob(k) \/ SendBlob(k)
  BY <1>5 DEF Arrive, BeginRead, BeginPushBlobs, ReceiveBlob, SendBlob, localVars, Turn, Same
<1>6. CASE Restart
  BY <1>6, IdleIs DEF Restart, localVars, Turn, Same, Ended
<1>7. CASE UNCHANGED vars
  BY <1>7 DEF vars, localVars, Turn, Same
<1> QED
  BY <1>1, <1>2, <1>3, <1>4, <1>5, <1>6, <1>7 DEF Next, Handle, Transfer

-----------------------------------------------------------------------------
(* What a client holds between the two RPCs of a command. *)

BusyUnreported == \A c \in Client : cli[c].pc # "idle" => cli[c].result = "none"

(* A manifest about to replace the garden is newer, or there is no garden  *)
(* to lose: nothing changes the garden while its command runs.             *)
PullAhead ==
    \A c \in Client : cli[c].pc \in {"fetching", "replacing"} =>
        local[c].files = {} \/ After(cli[c].manifest, local[c])

(* The manifest a client has pushed waits, or gave way to a newer one that *)
(* waits or was installed.                                                 *)
ParkedOrPast ==
    "restart" \notin Fault =>
        \A c \in Client : cli[c].pc = "streaming" =>
            /\ cli[c].seen \in Time /\ server.updated >= cli[c].seen
            /\ server.updated > cli[c].seen \/ pending # None

StepInv == BusyUnreported /\ PullAhead /\ ParkedOrPast

LEMMA InitStepInv == Init => StepInv
  BY IdleIs DEF Init, StepInv, BusyUnreported, PullAhead, ParkedOrPast

(* The manifest served, and the one parked, only give way to newer ones. *)
LEMMA ServerTurns ==
    ASSUME IndInv, [Next]_vars, "restart" \notin Fault
    PROVE  \/ server' = server /\ (pending # None => pending' # None)
           \/ server' \in Manifest /\ After(server', server)
<1>1. CASE \E k \in calls : PushManifest(k)
  <2>1. PICK k \in calls : PushManifest(k)
    BY <1>1
  <2>2. k.manifest \in Manifest
    BY <2>1 DEF PushManifest, IndInv, PushCarriesLocal
  <2>3. k.manifest # None
    BY <2>2, NoneAssumption
  <2> QED
    BY <2>1, <2>3 DEF PushManifest, Park
<1>2. CASE \E k \in calls : EndPushBlobs(k)
  BY <1>2 DEF EndPushBlobs, ApplyPending, IndInv, TypeOK, PendingNewer
<1>3. CASE ~ \E k \in calls : PushManifest(k) \/ EndPushBlobs(k)
  <2>1. UNCHANGED <<server, pending>>
    BY <1>3 DEF Next, vars, Commit, Remove, LocalPrune, Push, Pull, RemotePrune, Start,
       ReplaceLocal, Disconnect, Arrive, Handle, BeginRead, BeginPushBlobs,
       Transfer, ReceiveBlob, AbortPushBlobs, KeepPending, PullManifest, SendBlob,
       EndPullBlobs, AbortPullBlobs, Prune, Expire, Restart, serverVars
  <2> QED
    BY <2>1
<1> QED
  BY <1>1, <1>2, <1>3

LEMMA StepInvKept == ASSUME IndInv, StepInv, [Next]_vars PROVE StepInv'
<1>1. \A c \in Client : Turn(c)
  BY Turns
<1>2. cli \in [Client -> Process] /\ server \in Manifest /\ Time \subseteq Int
  BY TimeAssumption DEF IndInv, TypeOK
<1>3. BusyUnreported'
  <2>1. ASSUME NEW c \in Client, cli'[c].pc # "idle" PROVE cli'[c].result = "none"
    <3>1. cli[c] \in Process /\ (cli[c].pc # "idle" => cli[c].result = "none")
      BY <1>2 DEF StepInv, BusyUnreported
    <3>2. ~(Ended(c) \/ Pushed(c) \/ Pulled(c))
      BY <2>1, IdleIs DEF Ended, Pushed, Pulled
    <3>3. CASE Same(c) \/ Began(c)
      BY <2>1, <3>1, <3>3 DEF Same, Began
    <3>4. CASE Parked(c) \/ Fetches(c) \/ Fetched(c)
      <4>1. cli[c].pc # "idle" /\ cli'[c].result = cli[c].result
        BY <3>1, <3>4 DEF Parked, Fetches, Fetched, Process
      <4> QED
        BY <3>1, <4>1
    <3> QED
      BY <1>1, <3>2, <3>3, <3>4 DEF Turn
  <2> QED
    BY <2>1 DEF BusyUnreported
<1>4. PullAhead'
  <2>1. ASSUME NEW c \in Client, cli'[c].pc \in {"fetching", "replacing"}
        PROVE  local'[c].files = {} \/ After(cli'[c].manifest, local'[c])
    <3>1. cli[c] \in Process /\ (Same(c) \/ Fetches(c) \/ Fetched(c))
      BY <1>1, <1>2, <2>1, IdleIs DEF Turn, Ended, Began, Parked, Pushed, Pulled, Process
    <3>2. CASE Same(c) \/ Fetched(c)
      BY <2>1, <3>1, <3>2 DEF Same, Fetched, StepInv, PullAhead, After, Process
    <3>3. CASE Fetches(c)
      <4>1. cli'[c].manifest = server /\ local' = local /\ ~UpToDate(c)
        BY <3>1, <3>3 DEF Fetches, Process
      <4> QED
        BY <4>1 DEF UpToDate
    <3> QED
      BY <3>1, <3>2, <3>3
  <2> QED
    BY <2>1 DEF PullAhead
<1>5. ParkedOrPast'
  <2>1. ASSUME "restart" \notin Fault, NEW c \in Client, cli'[c].pc = "streaming"
        PROVE  /\ cli'[c].seen \in Time /\ server'.updated >= cli'[c].seen
               /\ server'.updated > cli'[c].seen \/ pending' # None
    <3>1. cli[c] \in Process /\ (Same(c) \/ Parked(c)) /\ server.updated \in Int
      BY <1>1, <1>2, <2>1, IdleIs DEF Turn, Ended, Began, Fetches, Fetched, Pushed, Pulled,
         Process, Manifest
    <3>2. CASE Parked(c)
      <4>1. cli'[c].seen = server.updated /\ server' = server /\ pending' \in Manifest
        BY <3>1, <3>2 DEF Parked, Process
      <4> QED
        BY <1>2, <3>1, <4>1, NoneAssumption DEF Manifest
    <3>3. CASE Same(c)
      <4>1. /\ cli'[c] = cli[c] /\ cli[c].seen \in Time /\ server.updated >= cli[c].seen
            /\ server.updated > cli[c].seen \/ pending # None
        BY <2>1, <3>3 DEF Same, StepInv, ParkedOrPast
      <4>2. \/ server' = server /\ (pending # None => pending' # None)
            \/ server'.updated \in Time /\ server'.updated > server.updated
        BY <2>1, ServerTurns DEF After, Manifest
      <4>3. cli[c].seen \in Int /\ server.updated \in Int
        BY <1>2, <3>1, <4>1
      <4>4. CASE server' = server /\ (pending # None => pending' # None)
        BY <4>1, <4>4
      <4>5. CASE server'.updated \in Time /\ server'.updated > server.updated
        <5>1. server'.updated \in Int
          BY <1>2, <4>5
        <5>2. server'.updated > cli[c].seen /\ server'.updated >= cli[c].seen
          BY <4>1, <4>3, <4>5, <5>1
        <5> QED
          BY <4>1, <5>2
      <4> QED
        BY <4>2, <4>4, <4>5
    <3> QED
      BY <3>1, <3>2, <3>3
  <2> QED
    BY <2>1 DEF ParkedOrPast
<1> QED
  BY <1>3, <1>4, <1>5 DEF StepInv

LEMMA StepInvariance == Spec => [](IndInv /\ StepInv)
<1>1. Spec => []IndInv
  BY Invariance
<1> QED
  BY <1>1, InitStepInv, StepInvKept, PTL DEF Spec

(* PullGoesForward: a pull that says it pulled has replaced an empty       *)
(* garden, or one older than what it brought.                              *)
THEOREM PullsGoForward == Spec => PullGoesForward
<1>1. ASSUME IndInv, StepInv, [Next]_vars
      PROVE  [\A c \in Client : cli'[c].result = "pulled" /\ cli[c].result # "pulled"
                 => local[c].files = {} \/ After(local'[c], local[c])]_vars
  <2>1. ASSUME NEW c \in Client, cli'[c].result = "pulled", cli[c].result # "pulled"
        PROVE  local[c].files = {} \/ After(local'[c], local[c])
    <3>1. cli[c] \in Process
      BY <1>1 DEF IndInv, TypeOK
    <3>2. ~(Same(c) \/ Parked(c) \/ Fetches(c) \/ Fetched(c))
      BY <2>1, <3>1 DEF Same, Parked, Fetches, Fetched, Process
    <3>3. ~(Ended(c) \/ Began(c) \/ Pushed(c))
      BY <2>1, IdleIs DEF Ended, Began, Pushed
    <3>4. Pulled(c)
      BY <1>1, <3>2, <3>3, Turns DEF Turn
    <3> QED
      BY <1>1, <3>4 DEF Pulled, StepInv, PullAhead, After
  <2> QED
    BY <2>1
<1> QED
  BY <1>1, StepInvariance, PTL DEF Spec, PullGoesForward

(* PushAdvances: while sgardd runs, a push that says it pushed leaves the  *)
(* server past the manifest it was compared with, though another push may  *)
(* have parked over it or ended its stream for it.                         *)
THEOREM PushesAdvance == ASSUME "restart" \notin Fault PROVE Spec => PushAdvances
<1>1. ASSUME IndInv, StepInv, [Next]_vars
      PROVE  [\A c \in Client : cli[c].pc = "streaming" /\ cli'[c].result = "pushed"
                 => server'.updated > cli[c].seen]_vars
  <2>1. ASSUME NEW c \in Client, cli[c].pc = "streaming", cli'[c].result = "pushed"
        PROVE  server'.updated > cli[c].seen
    <3>1. cli[c] \in Process /\ cli[c].result = "none"
      BY <1>1, <2>1 DEF IndInv, TypeOK, StepInv, BusyUnreported
    <3>2. server' = IF pending = None THEN server ELSE pending
      BY <1>1, <2>1, <3>1, Turns DEF Turn, Same, Ended, Began, Parked, Fetches, Fetched,
         Pushed, Pulled, Process
    <3>3. /\ cli[c].seen \in Time /\ server.updated >= cli[c].seen
          /\ server.updated > cli[c].seen \/ pending # None
      BY <1>1, <2>1 DEF StepInv, ParkedOrPast
    <3>4. server.updated \in Int /\ (pending # None => pending.updated \in Int /\ After(pending, server))
      BY <1>1, TimeAssumption DEF IndInv, TypeOK, PendingNewer, Manifest
    <3>5. CASE pending = None
      BY <3>2, <3>3, <3>5
    <3>6. CASE pending # None
      <4>1. server'.updated = pending.updated /\ pending.updated > server.updated
        BY <3>2, <3>4, <3>6 DEF After
      <4>2. cli[c].seen \in Int /\ pending.updated \in Int
        BY <3>3, <3>4, <3>6, TimeAssumption
      <4> QED
        BY <3>3, <3>4, <4>1, <4>2
    <3> QED
      BY <3>5, <3>6
  <2> QED
    BY <2>1
<1> QED
  BY <1>1, StepInvariance, PTL DEF Spec, PushAdvances

-----------------------------------------------------------------------------
(* GardenSync implements CompleteGarden, and so serves nothing incomplete, *)
(* where one machine pushes and prunes and the others pull.                *)

(* The writer's RPCs are the only ones that change the server, one at a    *)
(* time; while a stream is under way, what the parked manifest names is in *)
(* the store or still to come.                                             *)
Filling(k) == pending # None => Blobs(pending) \subseteq store \cup k.hashes \cup {k.current}

OneWriter(w) ==
    /\ \A k \in calls : k.live /\ (k.rpc \in Writers => k.client = w)
    /\ \A k \in calls : k.rpc = "PushBlobs" => Filling(k)
    /\ ServerComplete

-----------------------------------------------------------------------------
(* The writer waits for one RPC. *)
LEMMA NoOtherWriter ==
    ASSUME IndInv, NEW w, OneWriter(w), NEW k \in calls, NEW i \in calls,
           k.rpc \in Writers, i.rpc \in Writers
    PROVE  i = k
BY DEF OneWriter, IndInv, LiveCalls

(* When a handler returns, the calls that remain are as they were, but for *)
(* readers that are let in.                                                *)
LEMMA Remaining ==
    ASSUME IndInv, NEW w, OneWriter(w), NEW k \in calls, NEW p, NEW next, Return(k, p, next)
    PROVE  \A j \in calls' : j \in next \/ /\ j.live
                                           /\ j.rpc \in Writers => j \in calls \ {k} /\ j.client = w
<1> SUFFICES ASSUME NEW j \in calls', j \notin next
             PROVE  j.live /\ (j.rpc \in Writers => j \in calls \ {k} /\ j.client = w)
  OBVIOUS
<1>1. j \in Rest(k)
  BY DEF Return
<1>2. PICK i \in calls \ {k} :
        /\ j.rpc = i.rpc /\ j.live = i.live
        /\ j = i \/ i.rpc \notin Writers
  BY <1>1, RestSame DEF IndInv, TypeOK
<1> QED
  BY <1>2 DEF OneWriter

(* Steps that leave the garden of the server alone. *)
LEMMA ServerStays ==
    ASSUME IndInv, NEW w, OneWriter(w), UNCHANGED <<server, store>>,
           pending' \in {pending, None},
           \A j \in calls' : /\ j.live /\ (j.rpc \in Writers => j.client = w)
                             /\ j.rpc = "PushBlobs" => \E i \in calls :
                                  i.rpc = "PushBlobs" /\ i.hashes = j.hashes /\ i.current = j.current
    PROVE  OneWriter(w)'
<1>1. ASSUME NEW j \in calls', j.rpc = "PushBlobs", pending' # None
      PROVE  Blobs(pending') \subseteq store' \cup j.hashes \cup {j.current}
  BY <1>1 DEF OneWriter, Filling
<1> QED
  BY <1>1 DEF OneWriter, Filling, ServerComplete

LEMMA InvokeIs ==
    ASSUME NEW c, NEW rpc, NEW m, NEW hs
    PROVE  /\ Invoke(c, rpc, m, hs).client = c /\ Invoke(c, rpc, m, hs).rpc = rpc
           /\ Invoke(c, rpc, m, hs).hashes = hs /\ Invoke(c, rpc, m, hs).live
BY DEF Invoke

LEMMA StartStays ==
    ASSUME IndInv, NEW w, OneWriter(w), SoleWriter(w), NEW c \in Client,
           Push(c) \/ Pull(c) \/ RemotePrune(c)
    PROVE  OneWriter(w)' /\ UNCHANGED <<server, store>>
<1>1. PICK rpc \in Rpc, m \in {local[c], None} :
                  /\ calls' = calls \cup {Invoke(c, rpc, m, {})}
                  /\ rpc # "PushBlobs" /\ (rpc \in Writers => c = w)
  BY DEF Push, Pull, RemotePrune, Start, Rpc, Writers, SoleWriter
<1>2. UNCHANGED <<server, store, pending>>
  BY DEF Push, Pull, RemotePrune, Start, serverVars
<1>3. /\ \A j \in calls : j.live /\ (j.rpc \in Writers => j.client = w)
      /\ \A j \in calls' : j \in calls \/ (j.rpc = rpc /\ j.client = c /\ j.live)
  BY <1>1, InvokeIs DEF OneWriter
<1> QED
  BY <1>1, <1>2, <1>3, ServerStays

(* A call moves on without the server's garden. *)
LEMMA MovesStays ==
    ASSUME IndInv, NEW w, OneWriter(w), NEW k \in calls,
           Arrive(k) \/ BeginRead(k) \/ BeginPushBlobs(k) \/ SendBlob(k)
    PROVE  OneWriter(w)' /\ UNCHANGED <<server, store>>
<1>1. k \in Call
  BY DEF IndInv, TypeOK
<1>2. \A j \in calls' : j \in calls \/ /\ j.rpc = k.rpc /\ j.client = k.client /\ j.live = k.live
                                       /\ j.rpc = "PushBlobs" => j.hashes = k.hashes /\ j.current = k.current
  BY <1>1 DEF Arrive, BeginRead, BeginPushBlobs, SendBlob, Call
<1>3. UNCHANGED <<server, store, pending>>
  BY DEF Arrive, BeginRead, BeginPushBlobs, SendBlob, serverVars
<1>4. \A j \in calls : j.live /\ (j.rpc \in Writers => j.client = w)
  BY DEF OneWriter
<1> QED
  BY <1>2, <1>3, <1>4, ServerStays

(* The handlers of pulls. *)
LEMMA PullsStay ==
    ASSUME IndInv, NEW w, OneWriter(w), NEW k \in calls,
           PullManifest(k) \/ EndPullBlobs(k) \/ AbortPullBlobs(k)
    PROVE  OneWriter(w)' /\ UNCHANGED <<server, store>>
<1>1. PICK p, next : Return(k, p, next) /\ \A n \in next : n.live /\ n.rpc = "PullBlobs"
  BY InvokeIs DEF PullManifest, EndPullBlobs, AbortPullBlobs
<1>2. UNCHANGED <<server, store, pending>>
  BY DEF PullManifest, EndPullBlobs, AbortPullBlobs, serverVars
<1>3. "PullBlobs" \notin Writers /\ "PushBlobs" \in Writers
  BY DEF Writers
<1>4. \A j \in calls' : /\ j.live /\ (j.rpc \in Writers => j.client = w)
                        /\ j.rpc = "PushBlobs" => j \in calls
  BY <1>1, <1>3, Remaining
<1> QED
  BY <1>2, <1>4, ServerStays

LEMMA PushManifestStays ==
    ASSUME IndInv, NEW w, OneWriter(w), NEW k \in calls, PushManifest(k)
    PROVE  OneWriter(w)' /\ UNCHANGED <<server, store>>
<1>1. k.rpc = "PushManifest" /\ UNCHANGED <<server, store>> /\ k.client = w /\ k.live
  BY DEF PushManifest, OneWriter, Writers
<1>2. PICK p, next :
        /\ Return(k, p, next)
        /\ \A n \in next : /\ n.live /\ n.rpc = "PushBlobs" /\ n.client = w
                           /\ pending' = k.manifest /\ n.hashes = Missing(k.manifest, store)
  BY <1>1, InvokeIs DEF PushManifest, Park
<1>3. \A j \in calls' : j \in next \/ /\ j.live /\ (j.rpc \in Writers => j.client = w)
                                      /\ j.rpc # "PushBlobs"
  <2>1. \A i \in calls \ {k} : i.rpc \notin Writers
    BY <1>1, NoOtherWriter DEF Writers
  <2> QED
    BY <1>2, <2>1, Remaining DEF Writers
<1>4. \A j \in calls' : j.rpc = "PushBlobs" => Filling(j)'
  <2> SUFFICES ASSUME NEW j \in calls', j.rpc = "PushBlobs", pending' # None
               PROVE  Blobs(pending') \subseteq store' \cup j.hashes \cup {j.current}
    BY DEF Filling
  <2> QED
    BY <1>1, <1>2, <1>3 DEF Missing
<1> QED
  BY <1>1, <1>2, <1>3, <1>4 DEF OneWriter, ServerComplete

(* A blob arrives: it is in the store, or will be with the next chunk.     *)
LEMMA ReceiveBlobStays ==
    ASSUME IndInv, NEW w, OneWriter(w), NEW k \in calls, ReceiveBlob(k)
    PROVE  OneWriter(w)' /\ server' = server /\ store \subseteq store'
<1>1. PICK h \in k.hashes :
        /\ calls' = (calls \ {k}) \cup {[k EXCEPT !.hashes = @ \ {h}, !.current = h]}
        /\ store' = store \cup ({k.current} \cap Blob)
        /\ UNCHANGED <<server, pending>> /\ k.rpc = "PushBlobs"
  BY DEF ReceiveBlob, Flushed
<1>2. PICK k2 : k2 = [k EXCEPT !.hashes = @ \ {h}, !.current = h]
  OBVIOUS
<1>3. /\ k2.rpc = "PushBlobs" /\ k2.client = k.client /\ k2.live = k.live
      /\ k2.hashes = k.hashes \ {h} /\ k2.current = h
  BY <1>1, <1>2 DEF IndInv, TypeOK, Call
<1>4. \A i \in calls \ {k} : i.rpc \notin Writers
  BY <1>1, NoOtherWriter DEF Writers
<1>5. Filling(k2)'
  <2> SUFFICES ASSUME pending # None
               PROVE  Blobs(pending) \subseteq store' \cup k2.hashes \cup {k2.current}
    BY <1>1 DEF Filling
  <2>1. Blobs(pending) \subseteq store \cup k.hashes \cup {k.current}
    BY <1>1 DEF OneWriter, Filling
  <2>2. Blobs(pending) \subseteq Blob
    BY DEF Blobs
  <2> QED
    BY <1>1, <1>3, <2>1, <2>2
<1>6. \A j \in calls' : j = k2 \/ j \in calls \ {k}
  BY <1>1, <1>2
<1>7. ASSUME NEW j \in calls', j.rpc = "PushBlobs" PROVE Filling(j)'
  <2>1. j = k2
    BY <1>4, <1>6, <1>7 DEF Writers
  <2> QED
    BY <1>5, <2>1
<1>8. \A j \in calls' : j.live /\ (j.rpc \in Writers => j.client = w)
  BY <1>1, <1>3, <1>6 DEF OneWriter, Writers
<1>9. ServerComplete'
  BY <1>1 DEF OneWriter, ServerComplete
<1> QED
  BY <1>1, <1>7, <1>8, <1>9 DEF OneWriter

(* The handlers that end a writer's RPC. *)
LEMMA WriterGone ==
    ASSUME IndInv, NEW w, OneWriter(w), NEW k \in calls, k.rpc \in Writers,
           NEW p, Return(k, p, {}), ServerComplete'
    PROVE  OneWriter(w)'
<1>1. \A j \in calls' : j.live /\ j.rpc \notin Writers
  BY Remaining, NoOtherWriter
<1> QED
  BY <1>1 DEF OneWriter, Writers

LEMMA EndPushBlobsStays ==
    ASSUME IndInv, NEW w, OneWriter(w), NEW k \in calls, EndPushBlobs(k)
    PROVE  /\ OneWriter(w)' /\ store \subseteq store'
           /\ \/ server' = server
              \/ server' \in Manifest /\ After(server', server) /\ Blobs(server') \subseteq store'
<1>1. /\ k.rpc = "PushBlobs" /\ k.hashes = {} /\ store' = store \cup ({k.current} \cap Blob)
      /\ k.rpc \in Writers
  BY DEF EndPushBlobs, Flushed, Writers
<1>2. CASE pending # None
  <2>1. server' = pending /\ pending \in Manifest /\ After(pending, server)
    BY <1>2 DEF EndPushBlobs, ApplyPending, IndInv, TypeOK, PendingNewer
  <2>2. Blobs(pending) \subseteq store \cup {k.current} /\ Blobs(pending) \subseteq Blob
    BY <1>1, <1>2 DEF OneWriter, Filling, Blobs
  <2>3. Blobs(server') \subseteq store'
    BY <1>1, <2>1, <2>2
  <2>4. ServerComplete'
    BY <2>3 DEF ServerComplete, Blobs
  <2>5. After(server', server)
    BY <2>1
  <2> QED
    BY <1>1, <2>1, <2>3, <2>4, <2>5, WriterGone DEF EndPushBlobs
<1>3. CASE pending = None
  <2>1. server' = server /\ ServerComplete'
    BY <1>1, <1>3 DEF EndPushBlobs, ApplyPending, OneWriter, ServerComplete
  <2> QED
    BY <1>1, <2>1, WriterGone DEF EndPushBlobs
<1> QED
  BY <1>2, <1>3

LEMMA AbortPushBlobsStays ==
    ASSUME IndInv, NEW w, OneWriter(w), NEW k \in calls, AbortPushBlobs(k)
    PROVE  OneWriter(w)' /\ server' = server /\ store \subseteq store'
<1>1. server' = server /\ store \subseteq store' /\ k.rpc \in Writers
  BY DEF AbortPushBlobs, KeepPending, Flushed, Writers
<1>2. ServerComplete'
  BY <1>1 DEF OneWriter, ServerComplete
<1> QED
  BY <1>1, <1>2, WriterGone DEF AbortPushBlobs

(* What the served manifest does not name goes. *)
Collected == server' = server /\ store' \subseteq store /\ store \cap Blobs(server) \subseteq store'

LEMMA PruneStays ==
    ASSUME IndInv, NEW w, OneWriter(w), NEW k \in calls, Prune(k)
    PROVE  OneWriter(w)' /\ Collected
<1>1. Collected /\ k.rpc \in Writers
  BY DEF Prune, Unreferenced, Writers, Collected
<1>2. ServerComplete'
  BY <1>1 DEF OneWriter, ServerComplete, Collected
<1>3. PICK p : Return(k, p, {})
  BY DEF Prune
<1> QED
  BY <1>1, <1>2, <1>3, WriterGone

LEMMA ExpireStays ==
    ASSUME IndInv, NEW w, OneWriter(w), NEW k \in calls, Expire(k)
    PROVE  OneWriter(w)' /\ UNCHANGED <<server, store>>
<1>1. UNCHANGED <<server, store, pending>> /\ k.live
  BY DEF Expire, serverVars
<1>2. cli[k.client].pc \in {"push", "streaming"} => k.rpc \in {"PushManifest", "PushBlobs"}
  <2>1. cli[k.client].pc = Awaits[k.rpc] /\ k.rpc \in Rpc
    BY <1>1 DEF IndInv, LiveCalls, TypeOK, Call
  <2> QED
    BY <2>1 DEF Awaits, Rpc
<1>3. \A j \in calls : j.live /\ (j.rpc \in Writers => j.client = w)
  BY DEF OneWriter
<1>4. ASSUME NEW j \in calls', j \notin calls
      PROVE  j.live /\ j.rpc # "PushBlobs" /\ (j.rpc \in Writers => j.client = w)
  <2>1. \/ j = Invoke(k.client, "PullManifest", None, {})
        \/ /\ j = Invoke(k.client, "PushManifest", local[k.client], {})
           /\ cli[k.client].pc \in {"push", "streaming"}
    BY <1>4 DEF Expire
  <2>2. /\ j.live /\ j.client = k.client
        /\ \/ j.rpc = "PullManifest"
           \/ j.rpc = "PushManifest" /\ cli[k.client].pc \in {"push", "streaming"}
    BY <2>1, InvokeIs
  <2> QED
    BY <1>2, <1>3, <2>2 DEF Writers
<1> QED
  BY <1>1, <1>3, <1>4, ServerStays

LEMMA DisconnectStays ==
    ASSUME IndInv, NEW w, OneWriter(w), SoleWriter(w), NEW c \in Client, Disconnect(c)
    PROVE  OneWriter(w)' /\ UNCHANGED <<server, store>>
<1>1. {k \in calls : ~k.live} = {}
  BY DEF OneWriter
<1>2. ~(Cardinality({k \in calls : ~k.live}) < MaxLate)
  BY <1>1, FS_EmptySet DEF SoleWriter
<1>3. calls' \subseteq calls /\ UNCHANGED <<server, store, pending>>
  BY <1>2 DEF Disconnect, serverVars
<1>4. \A j \in calls : j.live /\ (j.rpc \in Writers => j.client = w)
  BY DEF OneWriter
<1> QED
  BY <1>3, <1>4, ServerStays

(* A restart forgets what was parked: no stream can install it. *)
LEMMA RestartStays ==
    ASSUME IndInv, NEW w, OneWriter(w), Restart
    PROVE  OneWriter(w)' /\ Collected
<1>1. pending' = None /\ calls' \subseteq calls
  BY DEF Restart
<1>2. Collected
  BY DEF Restart, Unreferenced, Collected
<1>3. ServerComplete'
  BY <1>2 DEF OneWriter, ServerComplete, Collected
<1> QED
  BY <1>1, <1>2, <1>3 DEF OneWriter, Filling

LEMMA LocalStays ==
    ASSUME IndInv, NEW w, OneWriter(w), NEW c \in Client,
           Commit(c) \/ Remove(c) \/ LocalPrune(c) \/ ReplaceLocal(c)
    PROVE  OneWriter(w)' /\ UNCHANGED <<server, store>>
<1>1. UNCHANGED <<server, store, pending, calls>>
  BY DEF Commit, Remove, LocalPrune, ReplaceLocal, serverVars
<1>2. \A j \in calls : j.live /\ (j.rpc \in Writers => j.client = w)
  BY DEF OneWriter
<1> QED
  BY <1>1, <1>2, ServerStays

-----------------------------------------------------------------------------
(* Every step is one of the register, or leaves it alone. *)
LEMMA StepImplements ==
    ASSUME IndInv, NEW w, OneWriter(w), SoleWriter(w), [Next]_vars
    PROVE  /\ OneWriter(w)'
           /\ \/ server' = server /\ store \subseteq store'
              \/ store \subseteq store' /\ server' \in Manifest /\ After(server', server)
                 /\ Blobs(server') \subseteq store'
              \/ Collected
<1>1. CASE UNCHANGED vars
  <2>1. UNCHANGED <<server, store, pending, calls>>
    BY <1>1 DEF vars
  <2>2. \A j \in calls : j.live /\ (j.rpc \in Writers => j.client = w)
    BY DEF OneWriter
  <2> QED
    BY <2>1, <2>2, ServerStays
<1>2. ASSUME NEW c \in Client,
             \/ Commit(c) \/ Remove(c) \/ LocalPrune(c)
             \/ Push(c) \/ Pull(c) \/ RemotePrune(c)
             \/ ReplaceLocal(c) \/ Disconnect(c)
      PROVE  OneWriter(w)' /\ UNCHANGED <<server, store>>
  BY <1>2, LocalStays, StartStays, DisconnectStays
<1>3. ASSUME NEW k \in calls, Arrive(k) \/ Handle(k) \/ Transfer(k) \/ Expire(k)
      PROVE  /\ OneWriter(w)'
             /\ \/ server' = server /\ store \subseteq store'
                \/ store \subseteq store' /\ server' \in Manifest /\ After(server', server)
                   /\ Blobs(server') \subseteq store'
                \/ Collected
  <2>1. CASE Arrive(k) \/ BeginRead(k) \/ BeginPushBlobs(k) \/ SendBlob(k)
    BY <2>1, MovesStays
  <2>2. CASE PullManifest(k) \/ EndPullBlobs(k) \/ AbortPullBlobs(k)
    BY <2>2, PullsStay
  <2>3. CASE PushManifest(k) \/ Expire(k)
    BY <2>3, PushManifestStays, ExpireStays
  <2>4. CASE ReceiveBlob(k) \/ AbortPushBlobs(k)
    BY <2>4, ReceiveBlobStays, AbortPushBlobsStays
  <2>5. CASE EndPushBlobs(k)
    BY <2>5, EndPushBlobsStays
  <2>6. CASE Prune(k)
    BY <2>6, PruneStays
  <2> QED
    BY <1>3, <2>1, <2>2, <2>3, <2>4, <2>5, <2>6 DEF Handle, Transfer
<1>4. CASE Restart
  BY <1>4, RestartStays
<1> QED
  BY <1>1, <1>2, <1>3, <1>4 DEF Next

LEMMA InitOneWriter == ASSUME Init, NEW w PROVE OneWriter(w)
  BY DEF Init, OneWriter, ServerComplete, Blobs, Empty

(* With one machine that pushes and prunes, the server always has every    *)
(* blob of the manifest it serves, whatever breaks, restarts or expires.   *)
THEOREM ServerStaysComplete ==
    ASSUME NEW w, SoleWriter(w)
    PROVE  Spec => []ServerComplete
<1>1. Init => IndInv /\ OneWriter(w)
  BY InitIndInv, InitOneWriter
<1>2. IndInv /\ OneWriter(w) /\ [Next]_vars => IndInv' /\ OneWriter(w)'
  BY NextIndInv, StepImplements
<1>3. OneWriter(w) => ServerComplete
  BY DEF OneWriter
<1> QED
  BY <1>1, <1>2, <1>3, PTL DEF Spec

(* With one machine that pushes and prunes, sgardd implements the register *)
(* of complete manifests of CompleteGarden.                                *)
THEOREM Implements ==
    ASSUME NEW w, SoleWriter(w)
    PROVE  Spec => AtomicPush
<1>1. Init => IndInv /\ OneWriter(w) /\ Abstract!Init
  <2>1. Init => Abstract!Init
    BY DEF Init, Abstract!Init, Abstract!Empty, Empty
  <2> QED
    BY <2>1, InitIndInv, InitOneWriter
<1>2. IndInv /\ OneWriter(w) /\ [Next]_vars
         => IndInv' /\ OneWriter(w)' /\ [Abstract!Next]_<<server, store>>
  <2> SUFFICES ASSUME IndInv, OneWriter(w), [Next]_vars
               PROVE  IndInv' /\ OneWriter(w)' /\ [Abstract!Next]_<<server, store>>
    OBVIOUS
  <2>1. IndInv' /\ OneWriter(w)'
    BY NextIndInv, StepImplements
  <2>2. store' \subseteq Blob
    BY <2>1 DEF IndInv, TypeOK
  <2>3. CASE server' = server /\ store \subseteq store'
    BY <2>1, <2>2, <2>3 DEF Abstract!Next, Abstract!Arrive
  <2>4. CASE store \subseteq store' /\ server' \in Manifest /\ After(server', server)
             /\ Blobs(server') \subseteq store'
    BY <2>1, <2>2, <2>4 DEF Abstract!Next, Abstract!Publish, Abstract!Manifest, Abstract!Entry,
       Abstract!After, Abstract!Blobs, Manifest, Entry, After, Blobs
  <2>5. CASE Collected
    BY <2>1, <2>5 DEF Collected, Abstract!Next, Abstract!Collect, Abstract!Blobs, Blobs
  <2> QED
    BY <2>1, <2>3, <2>4, <2>5, StepImplements
<1> QED
  BY <1>1, <1>2, PTL DEF Spec, AtomicPush, Abstract!Spec
=============================================================================
