----------------------------- MODULE AuthProofs -----------------------------
(* Proofs about Auth, for every number of keys and processes, every life   *)
(* of a token, window and clock.                                           *)
EXTENDS Auth, TLAPS

(* A token outlives the timestamp that was signed for it by no more than   *)
(* its own life and the window.                                            *)
Proven(token) == token # None => token.expires <= token.signed + TTL + Window

(* A token as the server has just issued it for this process. *)
Fresh(token, process) ==
    /\ token \in Token /\ token.secret = server.jwtKey /\ token.expires = clock + TTL
    /\ token.subject = process.signer /\ process.signer \in server.authorizedKeys

(* What a process that nothing has disturbed holds: the token it began     *)
(* with, then, if the server did not take it, a fresh one.                 *)
Undisturbed(process) ==
    /\ process.at = "calling" =>
          Fresh(process.token, process) \/ (process.token = process.first /\ process.tries = 0)
    /\ process.at = "authenticating" /\ process.tries = 0 =>
          process.first = None /\ process.stamp = clock + process.skew
    /\ process.at = "authenticating" /\ process.tries # 0 =>
          \/ Verdict(process.first) = "expired" /\ process.stamp = clock
          \/ Verdict(process.first) = "invalid" /\ process.stamp = clock + process.skew

ProcessOK(process) == Proven(process.token) /\ (process.calm => Undisturbed(process))

IndInv ==
    /\ TypeOK
    /\ Proven(cached)
    /\ \A p \in Proc, x \in Process : proc[p] = x => ProcessOK(x)

-----------------------------------------------------------------------------
(* Types. *)

LEMMA IdleType == Idle \in Process /\ Idle.token = None /\ ~Idle.calm
<1>1. 0 \in Stamp
  BY SkewsAssumption, TimesAssumption DEF Stamp
<1> QED BY <1>1 DEF Idle, Process

LEMMA Stamps ==
  ASSUME NEW t \in 0 .. MaxTime, NEW s \in Skews \cup {0}
  PROVE  t + s \in Stamp /\ t + s \in Int /\ t \in Stamp
<1>1. t + 0 = t /\ s \in Int
  BY SkewsAssumption, TimesAssumption
<1> QED BY <1>1, SkewsAssumption, TimesAssumption DEF Stamp

LEMMA StampsInt == Stamp \subseteq Int
  BY SkewsAssumption, TimesAssumption DEF Stamp

(* One process moves. *)
LEMMA OneMoves ==
  ASSUME IndInv, NEW p \in Proc, NEW new \in Process, proc' = [proc EXCEPT ![p] = new]
  PROVE  proc' \in [Proc -> Process] /\ proc'[p] = new /\ \A q \in Proc : q # p => proc'[q] = proc[q]
  BY DEF IndInv, TypeOK

(* What is known of a process depends on the server and the time alone. *)
LEMMA Keeps ==
  ASSUME NEW x, ProcessOK(x), UNCHANGED <<clock, server>>
  PROVE  ProcessOK(x)'
<1>1. Verdict(x.first)' = Verdict(x.first)
  BY DEF Verdict, Signed, Expired, KnownSubject
<1>2. Fresh(x.token, x)' <=> Fresh(x.token, x)
  BY DEF Fresh
<1> QED BY <1>1, <1>2 DEF ProcessOK, Proven, Undisturbed

(* The frame of every step of a process. *)
LEMMA ProcessKeeps ==
  ASSUME IndInv, NEW p \in Proc, NEW new \in Process, proc' = [proc EXCEPT ![p] = new],
         UNCHANGED <<clock, authorized, keyFile, secrets, server>>,
         cached' \in Token \cup {None}, Proven(cached)', ProcessOK(new)
  PROVE  IndInv'
<1>1. proc' \in [Proc -> Process] /\ proc'[p] = new /\ \A q \in Proc : q # p => proc'[q] = proc[q]
  BY OneMoves
<1>2. TypeOK'
  BY <1>1 DEF IndInv, TypeOK
<1>3. ASSUME NEW q \in Proc, NEW x \in Process, proc'[q] = x
      PROVE  ProcessOK(x)'
  <2>1. ProcessOK(x)
    BY <1>1, <1>3 DEF IndInv
  <2> QED BY <2>1, Keeps
<1> QED BY <1>2, <1>3 DEF IndInv

-----------------------------------------------------------------------------
(* The actions. *)

LEMMA InitInv == Init => IndInv
<1> SUFFICES ASSUME Init PROVE IndInv
  OBVIOUS
<1>1. TypeOK
  BY IdleType, TimesAssumption, MaxSecretAssumption DEF Init, TypeOK, Server, Secret
<1>2. \A p \in Proc : proc[p] = Idle
  BY DEF Init
<1>3. ProcessOK(Idle)
  BY IdleType DEF ProcessOK, Proven
<1> QED BY <1>1, <1>2, <1>3 DEF IndInv, Init, Proven

(* Once it is disturbed nothing is claimed of a process but its token. *)
LEMMA DisturbedKeeps ==
  ASSUME IndInv, proc' = Disturbed
  PROVE  /\ proc' \in [Proc -> Process]
         /\ \A p \in Proc, x \in Process : proc'[p] = x => ProcessOK(x)'
<1>1. ASSUME NEW p \in Proc
      PROVE  proc'[p] \in Process /\ ~proc'[p].calm /\ proc'[p].token = proc[p].token
  <2>1. proc[p] \in Process /\ proc'[p] = [proc[p] EXCEPT !.calm = FALSE]
    BY DEF IndInv, TypeOK, Disturbed
  <2> QED BY <2>1 DEF Process
<1>2. proc' \in [Proc -> Process]
  BY <1>1 DEF Disturbed
<1>3. ASSUME NEW p \in Proc, NEW x \in Process, proc'[p] = x
      PROVE  ProcessOK(x)'
  <2>1. ~x.calm /\ x.token = proc[p].token
    BY <1>1, <1>3
  <2>2. proc[p] \in Process /\ ProcessOK(proc[p])
    BY DEF IndInv, TypeOK
  <2> QED BY <2>1, <2>2 DEF ProcessOK, Proven
<1> QED BY <1>2, <1>3

LEMMA WorldInv ==
  ASSUME IndInv, Tick \/ EditAuthorizedKeys \/ LoseKeyFile \/ LoseToken \/ Restart
  PROVE  IndInv'
<1>1. CASE Tick
  <2>1. clock' \in 0 .. MaxTime
    BY <1>1, TimesAssumption DEF Tick, IndInv, TypeOK
  <2> QED BY <1>1, <2>1, DisturbedKeeps DEF Tick, IndInv, TypeOK, Proven
<1>2. CASE EditAuthorizedKeys \/ LoseKeyFile \/ LoseToken
  <2>1. TypeOK' /\ Proven(cached)'
    BY <1>2, MaxSecretAssumption DEF EditAuthorizedKeys, LoseKeyFile, LoseToken, IndInv, TypeOK, Proven
  <2>2. UNCHANGED <<clock, server, proc>>
    BY <1>2 DEF EditAuthorizedKeys, LoseKeyFile, LoseToken
  <2> QED BY <2>1, <2>2, Keeps DEF IndInv
<1>3. CASE Restart
  <2>1. server' \in Server /\ keyFile' \in 0 .. MaxSecret /\ secrets' \in Secret
    BY <1>3, MaxSecretAssumption DEF Restart, RestartWith, IndInv, TypeOK, Server, Secret
  <2>2. proc' = Disturbed /\ UNCHANGED <<clock, authorized, cached>>
    BY <1>3 DEF Restart, RestartWith
  <2> QED BY <2>1, <2>2, DisturbedKeeps DEF IndInv, TypeOK, Proven
<1> QED BY <1>1, <1>2, <1>3

LEMMA StartInv == ASSUME IndInv, NEW p \in Proc, Start(p) PROVE IndInv'
<1>1. PICK key \in Key, skew \in Skews :
        proc' = [proc EXCEPT ![p] =
              [at |-> IF cached = None THEN "authenticating" ELSE "calling",
               signer |-> key, token |-> cached, stamp |-> clock + skew, tries |-> 0,
               skew |-> skew, calm |-> TRUE, first |-> cached]]
  BY DEF Start
<1>2. clock + skew \in Stamp /\ cached \in Token \cup {None} /\ Proven(cached)
  BY Stamps DEF IndInv, TypeOK
<1>3. PICK new : new = [at |-> IF cached = None THEN "authenticating" ELSE "calling",
               signer |-> key, token |-> cached, stamp |-> clock + skew, tries |-> 0,
               skew |-> skew, calm |-> TRUE, first |-> cached]
  OBVIOUS
<1>4. new \in Process
  BY <1>2, <1>3 DEF Process
<1>5. ProcessOK(new)
  BY <1>2, <1>3 DEF ProcessOK, Undisturbed, Proven
<1>6. UNCHANGED <<clock, authorized, keyFile, secrets, server, cached>>
  BY DEF Start
<1>7. Proven(cached)' /\ cached' \in Token \cup {None}
  BY <1>2, <1>6 DEF Proven
<1>8. proc' = [proc EXCEPT ![p] = new]
  BY <1>1, <1>3
<1> QED BY <1>4, <1>5, <1>6, <1>7, <1>8, ProcessKeeps

LEMMA EndsInv == ASSUME IndInv, NEW p \in Proc, Ends(p) PROVE IndInv'
<1>1. ProcessOK(Idle) /\ Idle \in Process
  BY IdleType DEF ProcessOK, Proven
<1>2. Proven(cached)' /\ cached' \in Token \cup {None}
  BY DEF Ends, Proven, IndInv, TypeOK
<1> QED BY <1>1, <1>2, ProcessKeeps DEF Ends

(* A fresh token is good. *)
LEMMA FreshIsGood ==
  ASSUME NEW process, NEW token, IndInv, Fresh(token, process)
  PROVE  Verdict(token) = "ok"
<1>1. token # None /\ clock \in Int /\ ~(clock >= token.expires)
  BY NoneAssumption, TimesAssumption DEF Fresh, IndInv, TypeOK
<1> QED BY <1>1 DEF Verdict, Signed, Expired, KnownSubject, Fresh

LEMMA ReauthenticateInv == ASSUME IndInv, NEW p \in Proc, Reauthenticate(p) PROVE IndInv'
<1>1. PICK old \in Process : proc[p] = old
  BY DEF IndInv, TypeOK
<1>2. /\ old.at = "calling" /\ Verdict(old.token) \in {"expired", "invalid"} /\ ProcessOK(old)
      /\ old.skew \in Skews \cup {0}
  BY <1>1 DEF Reauthenticate, Retries, IndInv, Process
<1>3. /\ Challenge(p) \in Stamp
      /\ Challenge(p) = IF Verdict(old.token) = "expired" THEN clock ELSE clock + old.skew
  BY <1>1, <1>2, Stamps DEF Challenge, OwnStamp, IndInv, TypeOK
<1>4. PICK new : new = [old EXCEPT !.at = "authenticating", !.stamp = Challenge(p), !.tries = 1]
  OBVIOUS
<1>5. /\ new \in Process /\ new.token = old.token /\ new.first = old.first /\ new.calm = old.calm
      /\ new.at = "authenticating" /\ new.stamp = Challenge(p) /\ new.tries = 1
      /\ new.skew = old.skew
  <2>1. PICK stamp \in Stamp : stamp = Challenge(p)
    BY <1>3
  <2>2. PICK at : at = "authenticating"
    OBVIOUS
  <2>3. PICK tries \in 0 .. 2 : tries = 1
    OBVIOUS
  <2>4. new = [old EXCEPT !.at = at, !.stamp = stamp, !.tries = tries]
    BY <1>4, <2>1, <2>2, <2>3
  <2>5. at \in {"idle", "calling", "authenticating"}
    BY <2>2
  <2>6. /\ new \in Process /\ new.token = old.token /\ new.first = old.first /\ new.calm = old.calm
        /\ new.at = at /\ new.stamp = stamp /\ new.tries = tries /\ new.skew = old.skew
    BY <2>4, <2>5 DEF Process
  <2> QED BY <2>1, <2>2, <2>3, <2>6
<1>6. ProcessOK(new)
  <2>1. Proven(new.token)
    BY <1>2, <1>5 DEF ProcessOK
  <2>2. ASSUME old.calm PROVE old.token = old.first
    <3>1. ~Fresh(old.token, old)
      BY <1>2, FreshIsGood
    <3> QED BY <1>2, <2>2, <3>1 DEF ProcessOK, Undisturbed
  <2> QED BY <1>2, <1>3, <1>5, <2>1, <2>2 DEF ProcessOK, Undisturbed
<1>7. Proven(cached)' /\ cached' \in Token \cup {None}
  BY DEF Reauthenticate, Proven, IndInv, TypeOK
<1>8. proc' = [proc EXCEPT ![p] = new]
  BY <1>1, <1>4 DEF Reauthenticate
<1> QED BY <1>5, <1>6, <1>7, <1>8, ProcessKeeps DEF Reauthenticate

LEMMA AuthenticateInv == ASSUME IndInv, NEW p \in Proc, Authenticate(p) PROVE IndInv'
<1>1. PICK old \in Process : proc[p] = old
  BY DEF IndInv, TypeOK
<1>2. PICK token : token = IssuedTo(old.signer, old.stamp)
  OBVIOUS
<1>3. /\ old.signer \in server.authorizedKeys /\ InWindow(old.stamp)
      /\ proc' = [proc EXCEPT ![p].at = "calling", ![p].token = token] /\ cached' = token
      /\ UNCHANGED <<clock, authorized, keyFile, secrets, server>>
  BY <1>1, <1>2 DEF Authenticate, Accepted
<1>4. /\ server.authorizedKeys \subseteq Key /\ server.jwtKey \in Secret
      /\ clock \in 0 .. MaxTime /\ clock \in Int /\ clock + TTL \in 0 .. MaxTime + TTL
      /\ old.stamp \in Stamp /\ old.stamp \in Int
  <2>1. server \in Server /\ clock \in 0 .. MaxTime
    BY DEF IndInv, TypeOK
  <2>2. clock \in Int /\ clock + TTL \in 0 .. MaxTime + TTL
    BY <2>1, TimesAssumption
  <2>3. old.stamp \in Stamp
    BY DEF Process
  <2> QED BY <2>1, <2>2, <2>3, StampsInt DEF Server
<1>5. /\ token \in Token /\ token.expires = clock + TTL /\ token.signed = old.stamp
      /\ token.subject = old.signer /\ token.secret = server.jwtKey
  BY <1>2, <1>3, <1>4 DEF IssuedTo, Token
<1>6. Proven(token)
  BY <1>3, <1>4, <1>5, TimesAssumption DEF Proven, InWindow
<1>7. PICK new : new = [old EXCEPT !.at = "calling", !.token = token]
  OBVIOUS
<1>8. /\ new \in Process /\ new.at = "calling" /\ new.token = token /\ new.signer = old.signer
  BY <1>5, <1>7 DEF Process
<1>9. ProcessOK(new)
  <2>1. Fresh(new.token, new)
    BY <1>3, <1>5, <1>8 DEF Fresh
  <2> QED BY <1>6, <1>8, <2>1 DEF ProcessOK, Undisturbed
<1>10. proc' = [proc EXCEPT ![p] = new]
  BY <1>1, <1>3, <1>7
<1>11. Proven(cached)' /\ cached' \in Token \cup {None}
  BY <1>3, <1>5, <1>6 DEF Proven
<1> QED BY <1>3, <1>8, <1>9, <1>10, <1>11, ProcessKeeps

(* IndInv: every token there is was issued on a recent proof, and what an  *)
(* undisturbed process holds at each place of retryOnAuth is known.        *)
THEOREM Inductive == Spec => []IndInv
<1>1. IndInv /\ [Next]_vars => IndInv'
  <2> SUFFICES ASSUME IndInv, [Next]_vars PROVE IndInv'
    OBVIOUS
  <2>1. CASE UNCHANGED vars
    BY <2>1, Keeps DEF IndInv, vars, TypeOK, Proven
  <2>2. ASSUME NEW p \in Proc,
               \/ Start(p) \/ Served(p) \/ Reauthenticate(p) \/ Refused(p)
               \/ Authenticate(p) \/ AuthenticateFails(p)
        PROVE  IndInv'
    BY <2>2, StartInv, EndsInv, ReauthenticateInv, AuthenticateInv
    DEF Served, Refused, AuthenticateFails
  <2> QED BY <2>1, <2>2, WorldInv DEF Next
<1> QED BY <1>1, InitInv, PTL DEF Spec

-----------------------------------------------------------------------------
(* The theorems. *)

(* Every variable stays in its type. *)
THEOREM TypeCorrect == Spec => []TypeOK
<1>1. IndInv => TypeOK
  BY DEF IndInv
<1> QED BY <1>1, Inductive, PTL

(* ServedProven: a call is served only under a key that sgardd knows, to   *)
(* one who proved to hold it no longer ago than a token's life and the     *)
(* window.                                                                 *)
THEOREM ProofsAreRecent == Spec => ServedProven
<1>1. IndInv /\ [Next]_vars =>
        [\A p \in Proc : Served(p) =>
          /\ proc[p].token.subject \in server.authorizedKeys
          /\ clock - proc[p].token.signed < TTL + Window]_vars
  <2> SUFFICES ASSUME IndInv, NEW p \in Proc, Served(p)
               PROVE  /\ proc[p].token.subject \in server.authorizedKeys
                      /\ clock - proc[p].token.signed < TTL + Window
    OBVIOUS
  <2>1. PICK x \in Process : proc[p] = x
    BY DEF IndInv, TypeOK
  <2>2. Verdict(x.token) = "ok" /\ Proven(x.token)
    BY <2>1 DEF Served, IndInv, ProcessOK
  <2>3. Signed(x.token) /\ ~Expired(x.token) /\ KnownSubject(x.token)
    BY <2>2 DEF Verdict
  <2>4. x.token \in Token /\ x.token # None
    BY <2>3 DEF Signed, Process
  <2>5. clock \in Int /\ x.token.expires \in Int /\ x.token.signed \in Int
    <3>1. clock \in 0 .. MaxTime
      BY DEF IndInv, TypeOK
    <3>2. x.token.expires \in 0 .. MaxTime + TTL /\ x.token.signed \in Stamp
      BY <2>4 DEF Token
    <3>3. x.token.signed \in Int
      BY <3>2, StampsInt
    <3> QED BY <3>1, <3>2, <3>3, TimesAssumption
  <2>6. clock < x.token.expires /\ x.token.expires <= x.token.signed + TTL + Window
    BY <2>2, <2>3, <2>4, <2>5 DEF Expired, Proven
  <2> QED BY <2>1, <2>3, <2>5, <2>6, TimesAssumption DEF KnownSubject
<1> QED BY <1>1, Inductive, PTL DEF Spec, ServedProven

(* AuthorizedServed: the call of an authorized key fails only because      *)
(* something happened meanwhile, the machine's clock is off and there is   *)
(* nothing to renew, or it came with a good token of a key that is gone.   *)
THEOREM AuthorizedGetThrough == Spec => AuthorizedServed
<1>1. IndInv /\ [Next]_vars =>
        [\A p \in Proc : Fails(p) /\ proc[p].calm =>
          \/ proc[p].signer \notin server.authorizedKeys
          \/ ~InWindow(OwnStamp(p)) /\ ~Renewable(proc[p].first)
          \/ Verdict(proc[p].first) = "denied"]_vars
  <2> SUFFICES ASSUME IndInv, NEW p \in Proc, Fails(p), proc[p].calm,
                      proc[p].signer \in server.authorizedKeys
               PROVE  \/ ~InWindow(OwnStamp(p)) /\ ~Renewable(proc[p].first)
                      \/ Verdict(proc[p].first) = "denied"
    OBVIOUS
  <2>1. PICK x \in Process : proc[p] = x
    BY DEF IndInv, TypeOK
  <2>2. Undisturbed(x) /\ clock \in Int
    BY <2>1, TimesAssumption DEF IndInv, ProcessOK, TypeOK
  <2>3. CASE Refused(p)
    <3>1. x.at = "calling" /\ Verdict(x.token) # "ok"
          /\ (Verdict(x.token) \notin {"expired", "invalid"} \/ x.tries # 0)
      BY <2>1, <2>3 DEF Refused, Retries
    <3>2. x.token = x.first /\ x.tries = 0
      BY <2>2, <3>1, FreshIsGood DEF Undisturbed
    <3> QED BY <2>1, <3>1, <3>2 DEF Verdict
  <2>4. CASE AuthenticateFails(p)
    <3>1. x.at = "authenticating" /\ ~InWindow(x.stamp)
      BY <2>1, <2>4 DEF AuthenticateFails, Accepted
    <3>2. InWindow(clock)
      BY <2>2, TimesAssumption DEF InWindow
    <3>3. x.stamp = clock + x.skew /\ (x.first = None \/ Verdict(x.first) = "invalid")
      BY <2>2, <3>1, <3>2 DEF Undisturbed
    <3>4. ~Renewable(x.first)
      BY <3>3 DEF Renewable, Verdict, Signed
    <3> QED BY <2>1, <3>1, <3>3, <3>4 DEF OwnStamp
  <2> QED BY <2>3, <2>4 DEF Fails
<1> QED BY <1>1, Inductive, PTL DEF Spec, AuthorizedServed
=============================================================================
