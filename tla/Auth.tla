-------------------------------- MODULE Auth -------------------------------
(***************************************************************************)
(* How a client gets and keeps its token: server/auth.go, client/auth.go   *)
(* and the retry of client/client.go.  Processes of one machine share the  *)
(* token file; each signs with a key of its user's choice.  sgardd reads   *)
(* authorized_keys and jwt.key when it starts, and only then.              *)
(*                                                                         *)
(* A token is identified with its claims and the secret that signed it.    *)
(* Signatures are perfect.  proc[p].stamp also serves the properties: it   *)
(* says what the token in use goes back to.                                *)
(***************************************************************************)
EXTENDS Integers

CONSTANTS
    Key,        \* SSH keys
    Proc,       \* runs of sgard against the remote
    Skews,      \* by how much the machine's clock may be ahead of the server's
    Window,     \* authWindow
    TTL,        \* tokenTTL
    MaxTime,    \* bound: the server's clock
    MaxSecret,  \* bound: the secrets that are generated
    None

ASSUME SkewsAssumption == Skews \subseteq Int
ASSUME TimesAssumption == Window \in Nat /\ TTL \in Nat \ {0} /\ MaxTime \in Nat
ASSUME MaxSecretAssumption == MaxSecret \in Nat \ {0}

VARIABLES
    clock,          \* the server's clock
    authorized,     \* the authorized_keys file
    keyFile,        \* jwt.key, 0 when there is none
    secrets,        \* how many secrets have been generated
    server,         \* what sgardd has read
    cached,         \* the token file
    proc            \* the calls under way

vars == <<clock, authorized, keyFile, secrets, server, cached, proc>>

-----------------------------------------------------------------------------
Stamp == {t + s : t \in 0 .. MaxTime, s \in Skews \cup {0}}
Secret == 1 .. MaxSecret

(* signed is the timestamp of the challenge it was issued for. *)
Token == [subject : Key, expires : 0 .. MaxTime + TTL, secret : Secret, signed : Stamp]

ASSUME NoneAssumption == None \notin Token

Server == [authorizedKeys : SUBSET Key, jwtKey : Secret]

(* tries counts the calls of retryOnAuth.  calm, for the properties only:  *)
(* no clock tick and no restart since the process began; first is the      *)
(* token it began with.                                                    *)
Process == [at : {"idle", "calling", "authenticating"}, signer : Key \cup {None},
            token : Token \cup {None}, stamp : Stamp, tries : 0 .. 2, skew : Skews \cup {0},
            calm : BOOLEAN, first : Token \cup {None}]

Idle == [at |-> "idle", signer |-> None, token |-> None, stamp |-> 0, tries |-> 0, skew |-> 0,
         calm |-> FALSE, first |-> None]

Init ==
    /\ clock = 0
    /\ authorized = Key
    /\ keyFile = 1 /\ secrets = 1
    /\ server = [authorizedKeys |-> Key, jwtKey |-> 1]
    /\ cached = None
    /\ proc = [p \in Proc |-> Idle]

-----------------------------------------------------------------------------
(* The world around. *)

Disturbed == [p \in Proc |-> [proc[p] EXCEPT !.calm = FALSE]]

Tick ==
    /\ clock < MaxTime
    /\ clock' = clock + 1
    /\ proc' = Disturbed
    /\ UNCHANGED <<authorized, keyFile, secrets, server, cached>>

EditAuthorizedKeys ==
    \E keys \in SUBSET Key :
        /\ authorized' = keys
        /\ UNCHANGED <<clock, keyFile, secrets, server, cached, proc>>

LoseKeyFile ==
    /\ keyFile' = 0
    /\ UNCHANGED <<clock, authorized, secrets, server, cached, proc>>

(* A cached token may be deleted. *)
LoseToken ==
    /\ cached' = None
    /\ UNCHANGED <<clock, authorized, keyFile, secrets, server, proc>>

(* loadOrGenerateJWTKey: what the file holds, or a new secret, saved. *)
RestartWith(secret) ==
    /\ authorized # {}
    /\ server' = [authorizedKeys |-> authorized, jwtKey |-> secret]
    /\ keyFile' = secret
    /\ proc' = Disturbed
    /\ UNCHANGED <<clock, authorized, cached>>

Restart ==
    \/ keyFile # 0 /\ RestartWith(keyFile) /\ secrets' = secrets
    \/ /\ keyFile = 0 /\ secrets < MaxSecret
       /\ RestartWith(secrets + 1) /\ secrets' = secrets + 1

-----------------------------------------------------------------------------
(* The server. *)

Signed(token) == token # None /\ token.secret = server.jwtKey

Expired(token) == clock >= token.expires

KnownSubject(token) == token.subject \in server.authorizedKeys

(* verifyToken: only the challenge of "expired" spares the client a        *)
(* timestamp of its own.                                                   *)
Verdict(token) ==
    IF ~Signed(token) \/ (Expired(token) /\ ~KnownSubject(token)) THEN "invalid"
    ELSE IF Expired(token) THEN "expired"
    ELSE IF ~KnownSubject(token) THEN "denied"
    ELSE "ok"

(* Mutant of InWindow: a timestamp from the past is never too old. *)
NotAhead(stamp) == stamp - clock <= Window

InWindow(stamp) == stamp - clock <= Window /\ clock - stamp <= Window

(* Mutant of IssuedTo: the token's life counts from the client's timestamp. *)
IssuedFrom(key, stamp) ==
    [subject |-> key, expires |-> stamp + TTL, secret |-> server.jwtKey, signed |-> stamp]

IssuedTo(key, stamp) ==
    [subject |-> key, expires |-> clock + TTL, secret |-> server.jwtKey, signed |-> stamp]

-----------------------------------------------------------------------------
(* The client. *)

OwnStamp(p) == clock + proc[p].skew

(* NewWithAuth with the cached token, and EnsureAuth. *)
Start(p) ==
    \E key \in Key, skew \in Skews :
        /\ proc[p].at = "idle"
        /\ proc' = [proc EXCEPT ![p] =
              [at |-> IF cached = None THEN "authenticating" ELSE "calling",
               signer |-> key, token |-> cached, stamp |-> clock + skew, tries |-> 0,
               skew |-> skew, calm |-> TRUE, first |-> cached]]
        /\ UNCHANGED <<clock, authorized, keyFile, secrets, server, cached>>

(* Mutant of Challenge: the client signs a timestamp of its own. *)
OwnChallenge(p) == OwnStamp(p)

(* The timestamp of the server's challenge, or the client's. *)
Challenge(p) == IF Verdict(proc[p].token) = "expired" THEN clock ELSE OwnStamp(p)

Ends(p) ==
    /\ proc' = [proc EXCEPT ![p] = Idle]
    /\ UNCHANGED <<clock, authorized, keyFile, secrets, server, cached>>

Served(p) ==
    /\ proc[p].at = "calling" /\ Verdict(proc[p].token) = "ok"
    /\ Ends(p)

(* Only Unauthenticated is retried, and once. *)
Retries(p) == Verdict(proc[p].token) \in {"expired", "invalid"} /\ proc[p].tries = 0

Reauthenticate(p) ==
    /\ proc[p].at = "calling" /\ Retries(p)
    /\ proc' = [proc EXCEPT ![p].at = "authenticating", ![p].stamp = Challenge(p), ![p].tries = 1]
    /\ UNCHANGED <<clock, authorized, keyFile, secrets, server, cached>>

Refused(p) ==
    /\ proc[p].at = "calling" /\ Verdict(proc[p].token) # "ok" /\ ~Retries(p)
    /\ Ends(p)

Accepted(p) == proc[p].signer \in server.authorizedKeys /\ InWindow(proc[p].stamp)

(* The token is kept in memory and cached. *)
Authenticate(p) ==
    LET token == IssuedTo(proc[p].signer, proc[p].stamp)
    IN  /\ proc[p].at = "authenticating" /\ Accepted(p)
        /\ proc' = [proc EXCEPT ![p].at = "calling", ![p].token = token]
        /\ cached' = token
        /\ UNCHANGED <<clock, authorized, keyFile, secrets, server>>

AuthenticateFails(p) ==
    /\ proc[p].at = "authenticating" /\ ~Accepted(p)
    /\ Ends(p)

Next ==
    \/ Tick \/ EditAuthorizedKeys \/ LoseKeyFile \/ LoseToken \/ Restart
    \/ \E p \in Proc :
        \/ Start(p) \/ Served(p) \/ Reauthenticate(p) \/ Refused(p)
        \/ Authenticate(p) \/ AuthenticateFails(p)

Spec == Init /\ [][Next]_vars

-----------------------------------------------------------------------------
(* Properties. *)

TypeOK ==
    /\ clock \in 0 .. MaxTime
    /\ authorized \subseteq Key
    /\ keyFile \in 0 .. MaxSecret /\ secrets \in Secret
    /\ server \in Server
    /\ cached \in Token \cup {None}
    /\ proc \in [Proc -> Process]

(* Across restarts, renewals and changes of authorized_keys, a call is     *)
(* served only under a key the server now knows, to a holder of that key   *)
(* who signed a timestamp that is not older than a token's life and the    *)
(* window.                                                                 *)
ServedProven ==
    [][\A p \in Proc : Served(p) =>
          /\ proc[p].token.subject \in server.authorizedKeys
          /\ clock - proc[p].token.signed < TTL + Window]_vars

Fails(p) == Refused(p) \/ AuthenticateFails(p)

(* A token the server can renew by a challenge of its own. *)
Renewable(token) == Signed(token) /\ KnownSubject(token)

(* A process whose key is authorized gets its call through, at worst by    *)
(* authenticating, unless something happens meanwhile: with a token that   *)
(* has merely expired even if the machine's clock is off.  A good token of *)
(* a key that is gone is excepted.                                         *)
AuthorizedServed ==
    [][\A p \in Proc : Fails(p) /\ proc[p].calm =>
          \/ proc[p].signer \notin server.authorizedKeys
          \/ ~InWindow(OwnStamp(p)) /\ ~Renewable(proc[p].first)
          \/ Verdict(proc[p].first) = "denied"]_vars

(* So does one whose token is of a key that is gone. *)
UnknownKeyReauthenticates ==
    [][\A p \in Proc : Fails(p) /\ proc[p].calm =>
          \/ proc[p].signer \notin server.authorizedKeys
          \/ ~InWindow(OwnStamp(p)) /\ ~Renewable(proc[p].first)]_vars
=============================================================================
