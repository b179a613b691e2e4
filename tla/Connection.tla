----------------------------- MODULE Connection -----------------------------
(***************************************************************************)
(* Connections to vCenter and the credentials they are made with:          *)
(* connectionmanager.go, vclib/connection.go and credentialmanager.go.     *)
(*                                                                         *)
(* Goroutines share one connection per vCenter (a client, which is a       *)
(* session, and a user name with a password) and one cache of the          *)
(* Kubernetes secret, or of the mounted directory, that holds newer        *)
(* credentials.  Connect runs under the manager's clientLock, but          *)
(* getAllFCDs calls ConnectByInstance without it; both take vclib's own    *)
(* clientLock for the connection and cacheLock for each access to the      *)
(* cache.  Callers then read the client with no lock at all.               *)
(*                                                                         *)
(* The text of a user name or password is the revision of the secret that  *)
(* brought it; revision 0 is the configuration file.                       *)
(***************************************************************************)
EXTENDS Naturals, Sequences

CONSTANTS
    Thread,         \* goroutines
    Host,           \* spellings of vCenter host names
    Server,         \* the ones the configuration uses
    LowerHost,      \* [Host -> Host]: strings.ToLower
    Session,        \* session identifiers
    Sources,        \* where credentials may come from
    Contents,       \* what a secret may hold: [keys, unknown]
    MaxRevision,    \* bound on the revisions of the secret
    None

Field == {"user", "password"}

ASSUME HostAssumption ==
    /\ Server \subseteq Host
    /\ LowerHost \in [Host -> Host]
    /\ Sources \subseteq {"lister", "directory", "none"}
    /\ Contents \subseteq [keys : SUBSET (Host \X Field), unknown : BOOLEAN]
    /\ MaxRevision \in Nat

ASSUME ConnNoneAssumption ==
    /\ None \notin Session \cup Thread \cup Server \cup Nat
    /\ None \notin [Field -> 0..MaxRevision \cup {None}]
    /\ None \notin [ver : 1..MaxRevision, keys : SUBSET (Host \X Field), unknown : BOOLEAN]

Revision   == 0..MaxRevision
Credential == [Field -> Revision \cup {None}]       \* None: the empty string
Data       == [ver : 1..MaxRevision, keys : SUBSET (Host \X Field), unknown : BOOLEAN]

Locking == {"Connect", "APIVersion"}
Kinds   == Locking \cup {"ConnectByInstance", "Logout"}

VARIABLES
    source,         \* where credentials come from
    log, secret,    \* environment: the secret's revisions, and the present one (0: none)
    account,        \* environment: [Server -> Revision], the credentials vCenter accepts
    live,           \* environment: [Server -> SUBSET Session], sessions vCenter has open
    ended,          \* history: has a session of this vCenter ever ended
    client, conn,   \* VSphereConnection: Client, and Username with Password
    cacheSecret, cacheFile, parsed, virtualCenter,     \* SecretCache, SecretsDirectoryParse
    cmLock, vcLock, \* holders of the clientLocks of connectionmanager and vclib
    pc, kind, srv,  \* per goroutine: control point, call and vCenter
    again,          \* per goroutine: is this ConnectByInstance's second Connect
    got, cred,      \* per goroutine: data read from the source, and the credential found
    calm,           \* history, per goroutine: has its call run undisturbed
    up              \* FALSE: a nil client was dereferenced

world  == <<source, log, secret, account>>
cache  == <<cacheSecret, cacheFile, parsed, virtualCenter>>
locals == <<kind, srv, again, got, cred, calm>>
locks  == <<cmLock, vcLock>>
vars == <<world, live, ended, client, conn, cache, locks, pc, locals, up>>

Same(r)     == [f \in Field |-> r]
SecretAt(v) == [ver |-> v, keys |-> log[v].keys, unknown |-> log[v].unknown]

Init ==
    /\ source \in Sources
    /\ log = <<>> /\ secret = 0
    /\ account \in [Server -> Revision]
    /\ live = [s \in Server |-> {}] /\ ended = [s \in Server |-> FALSE]
    /\ client = [s \in Server |-> None] /\ conn = [s \in Server |-> Same(0)]
    /\ cacheSecret = None /\ cacheFile = None /\ parsed = FALSE
    /\ virtualCenter = [h \in Host |-> None]
    /\ cmLock = None /\ vcLock = None
    /\ pc = [t \in Thread |-> "idle"] /\ kind = [t \in Thread |-> None]
    /\ srv = [t \in Thread |-> None] /\ again = [t \in Thread |-> FALSE]
    /\ got = [t \in Thread |-> None] /\ cred = [t \in Thread |-> None]
    /\ calm = [t \in Thread |-> FALSE] /\ up = TRUE

-----------------------------------------------------------------------------
Move(t, label) == pc' = [pc EXCEPT ![t] = label] /\ UNCHANGED cmLock
Goto(t, label) == Move(t, label) /\ UNCHANGED locals

(* cm.Connect gives up the manager's lock when it returns. *)
Unlock(t) == cmLock' = IF cmLock = t THEN None ELSE cmLock
Connected(t) == pc' = [pc EXCEPT ![t] = "use"] /\ Unlock(t) /\ UNCHANGED locals

(* A call ends; why it failed, if it did, makes no difference to anyone. *)
Return(t) ==
    /\ pc' = [pc EXCEPT ![t] = "idle"] /\ Unlock(t)
    /\ kind' = [kind EXCEPT ![t] = None] /\ srv' = [srv EXCEPT ![t] = None]
    /\ again' = [again EXCEPT ![t] = FALSE] /\ calm' = [calm EXCEPT ![t] = FALSE]
    /\ got' = [got EXCEPT ![t] = None] /\ cred' = [cred EXCEPT ![t] = None]

Alone(t) == \A o \in Thread \ {t} : pc[o] = "idle"

(* cm.Connect (also as APIVersion's first step), ConnectByInstance as      *)
(* getAllFCDs calls it, or Logout of one vCenter.                          *)
Start(t, k, s) ==
    /\ up /\ pc[t] = "idle"
    /\ kind' = [kind EXCEPT ![t] = k] /\ srv' = [srv EXCEPT ![t] = s]
    /\ calm' = [o \in Thread |-> o = t /\ Alone(t)]
    /\ Move(t, IF k = "ConnectByInstance" THEN "enter" ELSE "lock")
    /\ UNCHANGED <<world, live, ended, client, conn, cache, vcLock, again, got, cred, up>>

LockManager(t) ==
    /\ up /\ pc[t] = "lock" /\ kind[t] \in Locking /\ cmLock = None
    /\ cmLock' = t
    /\ pc' = [pc EXCEPT ![t] = "enter"]
    /\ UNCHANGED <<world, live, ended, client, conn, cache, vcLock, locals, up>>

-----------------------------------------------------------------------------
(* VSphereConnection.Connect. *)

(* Mutant of Enter: vclib's lock is not taken. *)
EnterUnlocked(t) ==
    /\ up /\ pc[t] = "enter"
    /\ Goto(t, IF client[srv[t]] = None THEN "newClient" ELSE "session")
    /\ UNCHANGED <<world, live, ended, client, conn, cache, vcLock, up>>

Enter(t) ==
    /\ up /\ pc[t] = "enter" /\ vcLock = None
    /\ vcLock' = t
    /\ Goto(t, IF client[srv[t]] = None THEN "newClient" ELSE "session")
    /\ UNCHANGED <<world, live, ended, client, conn, cache, up>>

(* The client has a session: it is still valid, it has ended, or vCenter   *)
(* could not be asked.                                                     *)
SessionValid(t) ==
    /\ up /\ pc[t] = "session" /\ client[srv[t]] \in live[srv[t]]
    /\ vcLock' = None /\ Connected(t)
    /\ UNCHANGED <<world, live, ended, client, conn, cache, up>>

SessionEnded(t) ==
    /\ up /\ pc[t] = "session" /\ client[srv[t]] \notin live[srv[t]]
    /\ Goto(t, "newClient")
    /\ UNCHANGED <<world, live, ended, client, conn, cache, vcLock, up>>

(* Mutant of SessionUnknown: vclib's lock is kept. *)
SessionUnknownLocked(t) ==
    /\ up /\ pc[t] = "session"
    /\ Return(t)
    /\ UNCHANGED <<world, live, ended, client, conn, cache, vcLock, up>>

SessionUnknown(t) ==
    /\ up /\ pc[t] = "session"
    /\ vcLock' = None /\ Return(t)
    /\ UNCHANGED <<world, live, ended, client, conn, cache, up>>

(* NewClient logs in with the connection's credentials, under its          *)
(* credentialsLock.  Without a client the connection is left with nil.     *)
Accepts(s) == conn[s] = Same(account[s])

LoginOK(t) ==
    /\ up /\ pc[t] = "newClient" /\ Accepts(srv[t])
    /\ \E n \in Session \ (UNION {live[s] \cup {client[s]} : s \in Server}) :
          /\ client' = [client EXCEPT ![srv[t]] = n]
          /\ live' = [live EXCEPT ![srv[t]] = @ \cup {n}]
    /\ vcLock' = None /\ Connected(t)
    /\ UNCHANGED <<world, ended, conn, cache, up>>

(* Mutant of NewClientFails: the error is dropped. *)
NewClientSwallows(t) ==
    /\ up /\ pc[t] = "newClient"
    /\ client' = [client EXCEPT ![srv[t]] = None]
    /\ vcLock' = None /\ Connected(t)
    /\ UNCHANGED <<world, live, ended, conn, cache, up>>

NewClientFails(t) ==
    /\ up /\ pc[t] = "newClient"
    /\ client' = [client EXCEPT ![srv[t]] = None]
    /\ vcLock' = None /\ Return(t)
    /\ UNCHANGED <<world, live, ended, conn, cache, up>>

(* InvalidLogin: ConnectByInstance asks the credential manager, once. *)
LoginInvalid(t) ==
    /\ up /\ pc[t] = "newClient" /\ ~Accepts(srv[t])
    /\ client' = [client EXCEPT ![srv[t]] = None]
    /\ vcLock' = None
    /\ IF again[t] THEN Return(t)
       ELSE Goto(t, CASE source = "lister"    -> "getSecret"
                      [] source = "directory" -> "checkDirectory"
                      [] source = "none"      -> "getCredential")
    /\ UNCHANGED <<world, live, ended, conn, cache, up>>

-----------------------------------------------------------------------------
(* SecretCredentialManager.GetCredential. *)

(* updateCredentialsMapK8s: a secret that is gone leaves the cache in use. *)
GetSecret(t) ==
    /\ up /\ pc[t] = "getSecret"
    /\ IF secret = 0 THEN Goto(t, "getCredential")
       ELSE /\ Move(t, "compare") /\ got' = [got EXCEPT ![t] = SecretAt(secret)]
            /\ UNCHANGED <<kind, srv, again, cred, calm>>
    /\ UNCHANGED <<world, live, ended, client, conn, cache, vcLock, up>>

(* Mutant of CompareSecret: any cached secret will do. *)
CompareNothing(t) ==
    /\ up /\ pc[t] = "compare"
    /\ Goto(t, IF cacheSecret # None THEN "getCredential" ELSE "updateSecret")
    /\ UNCHANGED <<world, live, ended, client, conn, cache, vcLock, up>>

CompareSecret(t) ==
    /\ up /\ pc[t] = "compare"
    /\ Goto(t, IF cacheSecret # None /\ cacheSecret.ver = got[t].ver
               THEN "getCredential" ELSE "updateSecret")
    /\ UNCHANGED <<world, live, ended, client, conn, cache, vcLock, up>>

(* Mutant of UpdateSecret: the new secret is not parsed. *)
UpdateSecretOnly(t) ==
    /\ up /\ pc[t] = "updateSecret"
    /\ cacheSecret' = got[t]
    /\ Move(t, "getCredential") /\ got' = [got EXCEPT ![t] = None]
    /\ UNCHANGED <<world, live, ended, client, conn, cacheFile, parsed, virtualCenter,
                   vcLock, kind, srv, again, cred, calm, up>>

UpdateSecret(t) ==
    /\ up /\ pc[t] = "updateSecret"
    /\ cacheSecret' = got[t]
    /\ Move(t, "parse") /\ got' = [got EXCEPT ![t] = None]
    /\ UNCHANGED <<world, live, ended, client, conn, cacheFile, parsed, virtualCenter,
                   vcLock, kind, srv, again, cred, calm, up>>

(* updateCredentialsMapFile: the directory is read once, and whatever the  *)
(* outcome never again.  A file that cannot be read is skipped.            *)
CheckDirectory(t) ==
    /\ up /\ pc[t] = "checkDirectory"
    /\ Goto(t, IF parsed THEN "getCredential" ELSE "readDirectory")
    /\ UNCHANGED <<world, live, ended, client, conn, cache, vcLock, up>>

ReadDirectory(t) ==
    /\ up /\ pc[t] = "readDirectory" /\ secret # 0
    /\ \E K \in SUBSET log[secret].keys, b \in {log[secret].unknown, FALSE} :
          cacheFile' = [ver |-> secret, keys |-> K, unknown |-> b]
    /\ parsed' = TRUE
    /\ Goto(t, "parse")
    /\ UNCHANGED <<world, live, ended, client, conn, cacheSecret, virtualCenter, vcLock, up>>

ReadDirectoryFails(t) ==
    /\ up /\ pc[t] = "readDirectory"
    /\ parsed' = TRUE
    /\ Goto(t, "getCredential")
    /\ UNCHANGED <<world, live, ended, client, conn, cacheSecret, cacheFile, virtualCenter,
                   vcLock, up>>

(* parseConfig, with the entries K of the data applied: an entry's host is *)
(* lowered, and what the data does not mention stays as it was.            *)
Entries(K, h) == {f \in Field : \E x \in K : LowerHost[x[1]] = h /\ x[2] = f}
Applied(d, K) ==
    [h \in Host |->
        IF Entries(K, h) = {} THEN virtualCenter[h]
        ELSE [f \in Field |-> IF f \in Entries(K, h) THEN d.ver
                              ELSE IF virtualCenter[h] = None THEN None
                              ELSE virtualCenter[h][f]]]
Incomplete(c) == c # None /\ \E f \in Field : c[f] = None

ParseFails(t) == IF source = "lister" THEN Return(t) ELSE Goto(t, "getCredential")

(* parseSecret: of the cached secret if there is one.  The entries come in *)
(* any order, and an unknown key ends the parse where it is met.           *)
ParseSecret(t) ==
    /\ up /\ pc[t] = "parse"
    /\ LET d == IF cacheSecret # None THEN cacheSecret ELSE cacheFile
       IN  \/ /\ d.unknown
              /\ \E K \in SUBSET d.keys : virtualCenter' = Applied(d, K)
              /\ ParseFails(t)
           \/ /\ ~d.unknown
              /\ virtualCenter' = Applied(d, d.keys)
              /\ IF d.keys = {} \/ \E h \in Host : Incomplete(virtualCenter'[h])
                 THEN ParseFails(t) ELSE Goto(t, "getCredential")
    /\ UNCHANGED <<world, live, ended, client, conn, cacheSecret, cacheFile, parsed, vcLock, up>>

(* Mutant of GetCredential: a host that is not in the cache is not noticed. *)
GetCredentialUnchecked(t) ==
    /\ up /\ pc[t] = "getCredential"
    /\ Move(t, "updateCredentials")
    /\ cred' = [cred EXCEPT ![t] = virtualCenter[srv[t]]]
    /\ UNCHANGED <<world, live, ended, client, conn, cache, vcLock, kind, srv, again, got,
                   calm, up>>

(* The cache is asked by the host name as the configuration spells it. *)
GetCredential(t) ==
    /\ up /\ pc[t] = "getCredential"
    /\ IF virtualCenter[srv[t]] = None THEN Return(t)
       ELSE /\ Move(t, "updateCredentials")
            /\ cred' = [cred EXCEPT ![t] = virtualCenter[srv[t]]]
            /\ UNCHANGED <<kind, srv, again, got, calm>>
    /\ UNCHANGED <<world, live, ended, client, conn, cache, vcLock, up>>

(* Mutant of UpdateCredentials: only the password is replaced. *)
UpdatePassword(t) ==
    /\ up /\ pc[t] = "updateCredentials"
    /\ conn' = [conn EXCEPT ![srv[t]]["password"] = cred[t]["password"]]
    /\ Move(t, "enter")
    /\ again' = [again EXCEPT ![t] = TRUE] /\ cred' = [cred EXCEPT ![t] = None]
    /\ UNCHANGED <<world, live, ended, client, cache, vcLock, kind, srv, got, calm, up>>

UpdateCredentials(t) ==
    /\ up /\ pc[t] = "updateCredentials"
    /\ conn' = [conn EXCEPT ![srv[t]] = cred[t]]
    /\ Move(t, "enter")
    /\ again' = [again EXCEPT ![t] = TRUE] /\ cred' = [cred EXCEPT ![t] = None]
    /\ UNCHANGED <<world, live, ended, client, cache, vcLock, kind, srv, got, calm, up>>

-----------------------------------------------------------------------------
(* The client is read with no lock held. *)

(* vclib's calls on the connection, after a successful Connect. *)
Use(t) ==
    /\ up /\ pc[t] = "use" /\ client[srv[t]] # None
    /\ IF kind[t] = "APIVersion" THEN Goto(t, "version") ELSE Return(t)
    /\ UNCHANGED <<world, live, ended, client, conn, cache, vcLock, up>>

(* APIVersion looks for nil, and reads the client once more. *)
NoVersion(t) ==
    /\ up /\ pc[t] = "use" /\ client[srv[t]] = None /\ kind[t] = "APIVersion"
    /\ Return(t)
    /\ UNCHANGED <<world, live, ended, client, conn, cache, vcLock, up>>

Version(t) ==
    /\ up /\ pc[t] = "version" /\ client[srv[t]] # None
    /\ Return(t)
    /\ UNCHANGED <<world, live, ended, client, conn, cache, vcLock, up>>

(* ConnectionManager.Logout reads the client under the lock, logs out      *)
(* without it, and leaves the client in place.                             *)
LogoutRead(t) ==
    /\ up /\ pc[t] = "lock" /\ kind[t] = "Logout" /\ cmLock = None
    /\ IF client[srv[t]] = None THEN Return(t) ELSE Goto(t, "logout")
    /\ UNCHANGED <<world, live, ended, client, conn, cache, vcLock, up>>

Logout(t) ==
    /\ up /\ pc[t] = "logout" /\ client[srv[t]] # None
    /\ live' = [live EXCEPT ![srv[t]] = @ \ {client[srv[t]]}]
    /\ ended' = [ended EXCEPT ![srv[t]] = TRUE]
    /\ Return(t)
    /\ UNCHANGED <<world, client, conn, cache, vcLock, up>>

(* A nil client takes the process down. *)
NilClient(t) ==
    /\ up
    /\ \/ pc[t] = "use" /\ kind[t] # "APIVersion"
       \/ pc[t] \in {"version", "logout"}
    /\ client[srv[t]] = None
    /\ up' = FALSE
    /\ UNCHANGED <<world, live, ended, client, conn, cache, locks, pc, locals>>

-----------------------------------------------------------------------------
(* The environment. *)

Disturb == calm' = [t \in Thread |-> FALSE]

(* The secret is written, or deleted. *)
Publish(c) ==
    /\ Len(log) < MaxRevision
    /\ log' = Append(log, c) /\ secret' = Len(log) + 1
    /\ Disturb
    /\ UNCHANGED <<source, account, live, ended, client, conn, cache, locks, pc, kind, srv,
                   again, got, cred, up>>

Withdraw ==
    /\ secret # 0 /\ secret' = 0
    /\ Disturb
    /\ UNCHANGED <<source, log, account, live, ended, client, conn, cache, locks, pc, kind, srv,
                   again, got, cred, up>>

(* The account on a vCenter changes, before or after the secret does. *)
Rotate(s, r) ==
    /\ account[s] # r /\ account' = [account EXCEPT ![s] = r]
    /\ Disturb
    /\ UNCHANGED <<source, log, secret, live, ended, client, conn, cache, locks, pc, kind, srv,
                   again, got, cred, up>>

(* vCenter ends a session. *)
Expire(s) ==
    /\ live[s] # {}
    /\ \E n \in live[s] : live' = [live EXCEPT ![s] = @ \ {n}]
    /\ ended' = [ended EXCEPT ![s] = TRUE]
    /\ UNCHANGED <<world, client, conn, cache, locks, pc, locals, up>>

-----------------------------------------------------------------------------
Acquire(t) == LockManager(t) \/ LogoutRead(t) \/ Enter(t)
Step(t) ==
    \/ SessionValid(t) \/ SessionEnded(t) \/ SessionUnknown(t)
    \/ LoginOK(t) \/ NewClientFails(t) \/ LoginInvalid(t)
    \/ GetSecret(t) \/ CompareSecret(t) \/ UpdateSecret(t)
    \/ CheckDirectory(t) \/ ReadDirectory(t) \/ ReadDirectoryFails(t)
    \/ ParseSecret(t) \/ GetCredential(t) \/ UpdateCredentials(t)
    \/ Use(t) \/ NoVersion(t) \/ Version(t) \/ Logout(t) \/ NilClient(t)

Environment ==
    \/ \E c \in Contents : Publish(c)
    \/ Withdraw
    \/ \E s \in Server : \E r \in Revision : Rotate(s, r)
    \/ \E s \in Server : Expire(s)

Next == \/ \E t \in Thread : \/ \E k \in Kinds, s \in Server : Start(t, k, s)
                             \/ Acquire(t) \/ Step(t)
        \/ Environment

(* Every goroutine runs on and every remote call returns; a goroutine that *)
(* waits for a sync.Mutex is served, however many others ask for it.       *)
Fairness == \A t \in Thread : WF_vars(Step(t)) /\ SF_vars(Acquire(t))

Spec     == Init /\ [][Next]_vars
FairSpec == Spec /\ Fairness

-----------------------------------------------------------------------------
(* Properties. *)

Labels == {"idle", "lock", "enter", "session", "newClient", "getSecret", "compare",
           "updateSecret", "checkDirectory", "readDirectory", "parse", "getCredential",
           "updateCredentials", "use", "version", "logout"}

TypeOK ==
    /\ source \in Sources
    /\ log \in Seq(Contents) /\ Len(log) <= MaxRevision /\ secret \in 0..Len(log)
    /\ account \in [Server -> Revision]
    /\ live \in [Server -> SUBSET Session] /\ ended \in [Server -> BOOLEAN]
    /\ client \in [Server -> Session \cup {None}]
    /\ conn \in [Server -> Credential]
    /\ cacheSecret \in Data \cup {None} /\ cacheFile \in Data \cup {None}
    /\ parsed \in BOOLEAN
    /\ virtualCenter \in [Host -> Credential \cup {None}]
    /\ cmLock \in Thread \cup {None} /\ vcLock \in Thread \cup {None}
    /\ pc \in [Thread -> Labels] /\ kind \in [Thread -> Kinds \cup {None}]
    /\ srv \in [Thread -> Server \cup {None}] /\ again \in [Thread -> BOOLEAN]
    /\ got \in [Thread -> Data \cup {None}]
    /\ cred \in [Thread -> Credential \cup {None}]
    /\ calm \in [Thread -> BOOLEAN] /\ up \in BOOLEAN

(* The process never loses track of a session it has opened: at most one   *)
(* is open on a vCenter, and it is the connection's client                 *)
(* (connection.go:55-85).                                                  *)
NoSessionLost == \A s \in Server : live[s] \subseteq {client[s]}

(* As long as every secret was whole (both halves for each host it names,  *)
(* and no unknown key), no login ever pairs the user name of one revision  *)
(* with the password of another (credentialmanager.go:161-208,             *)
(* connection.go:184-189).                                                 *)
Whole(c) ==
    /\ ~c.unknown
    /\ \A h \in Host : Entries(c.keys, h) \in {{}, Field}
NeverMixed ==
    (source = "lister" /\ \A v \in 1..Len(log) : Whole(log[v])) =>
        \A s \in Server : conn[s]["user"] = conn[s]["password"]

(* When nobody is between updating the cached secret and parsing it, the   *)
(* credentials handed out for the hosts it names are the ones it holds     *)
(* (credentialmanager.go:74-88, 161-175).                                  *)
CacheFollowsSecret ==
    cacheSecret # None /\ ~cacheSecret.unknown /\ (\A t \in Thread : pc[t] # "parse") =>
        \A h \in Host : \A f \in Entries(cacheSecret.keys, h) :
            virtualCenter[h] # None /\ virtualCenter[h][f] = cacheSecret.ver

(* Rotated credentials are picked up: when a call has run undisturbed, and *)
(* the secret holds what vCenter accepts, its second login is accepted     *)
(* (connectionmanager.go:136-158).                                         *)
RotationPickedUp ==
    \A t \in Thread :
        /\ source = "lister" /\ calm[t] /\ again[t] /\ pc[t] = "newClient"
        /\ secret # 0 /\ ~log[secret].unknown
        /\ Entries(log[secret].keys, srv[t]) = Field /\ account[srv[t]] = secret
        => Accepts(srv[t])

(* A caller that was told it is connected, or that is about to log out,    *)
(* finds a client, unless a session of that vCenter has ended and another  *)
(* goroutine may have failed to log in anew (connection.go:60-84).         *)
ClientPresent ==
    \A t \in Thread : pc[t] \in {"use", "version", "logout"} =>
        client[srv[t]] # None \/ ended[srv[t]]

(* Every call comes to an end: no order of taking the locks leaves         *)
(* goroutines waiting for one another (connectionmanager.go:119-158,       *)
(* connection.go:55-85).                                                   *)
CallsReturn == \A t \in Thread : (pc[t] # "idle") ~> (pc[t] = "idle" \/ ~up)

(* The comment of ErrCredentialMissing, credentialmanager.go:35: it is     *)
(* returned when the credentials lack a user name or a password.  So the   *)
(* credentials that GetCredential does return have both.                   *)
MissingMeansError == \A t \in Thread : ~Incomplete(cred[t])
=============================================================================
