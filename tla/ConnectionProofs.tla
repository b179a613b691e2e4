-------------------------- MODULE ConnectionProofs --------------------------
(* Proofs of the properties of module Connection, for any number of        *)
(* goroutines, vCenters, host names, sessions and revisions of the secret. *)
EXTENDS Connection, SequenceTheorems, TLAPS

(* What a goroutine holds at its control point.  vclib's lock is held      *)
(* exactly while the session is looked at or made.                         *)
ControlInv ==
    /\ \A t \in Thread :
        /\ pc[t] # "idle" => kind[t] \in Kinds /\ srv[t] \in Server
        /\ pc[t] = "idle" => ~again[t]
        /\ pc[t] \in {"session", "newClient"} <=> vcLock = t
        /\ pc[t] \in {"compare", "updateSecret"} => got[t] \in Data
        /\ pc[t] = "updateCredentials" => cred[t] \in Credential
        /\ pc[t] \in {"getSecret", "compare", "updateSecret"} => source = "lister"
        /\ pc[t] \in {"checkDirectory", "readDirectory"} => source # "lister"
        /\ pc[t] = "parse" => IF source = "lister" THEN cacheSecret \in Data
                                                  ELSE cacheFile \in Data
    /\ source # "lister" => cacheSecret = None

(* Data at hand is a revision of the secret as it was written. *)
VersionInv ==
    /\ \A t \in Thread : got[t] # None =>
        got[t].ver \in 1..Len(log) /\ got[t] = SecretAt(got[t].ver)
    /\ cacheSecret # None =>
        cacheSecret.ver \in 1..Len(log) /\ cacheSecret = SecretAt(cacheSecret.ver)

(* A new session is made only where none is open. *)
SessionInv ==
    /\ NoSessionLost
    /\ \A t \in Thread : pc[t] = "newClient" => live[srv[t]] = {}

(* Until a session has ended, a client is an open session. *)
PresentInv ==
    /\ ClientPresent
    /\ \A s \in Server : client[s] # None => client[s] \in live[s] \/ ended[s]

(* As long as secrets are whole, so is every credential in the process. *)
AllWhole  == source = "lister" /\ \A v \in 1..Len(log) : Whole(log[v])
Paired(c) == c # None => c["user"] = c["password"]
MixInv ==
    AllWhole => /\ \A s \in Server : Paired(conn[s])
                /\ \A h \in Host : Paired(virtualCenter[h])
                /\ \A t \in Thread : Paired(cred[t])

(* How far an undisturbed call has carried the present secret. *)
Good(t) == /\ source = "lister" /\ calm[t] /\ secret # 0 /\ ~log[secret].unknown
           /\ Entries(log[secret].keys, srv[t]) = Field
Carried(t) ==
    Good(t) =>
        /\ pc[t] \in {"compare", "updateSecret"} => got[t] = SecretAt(secret)
        /\ pc[t] \in {"parse", "getCredential"} => cacheSecret = SecretAt(secret)
        /\ pc[t] = "updateCredentials" => cred[t] = Same(secret)
        /\ again[t] => conn[srv[t]] = Same(secret)
RotationInv ==
    \A t \in Thread : /\ calm[t] => \A o \in Thread \ {t} : pc[o] = "idle"
                      /\ Carried(t)

IndInv == /\ TypeOK /\ ControlInv /\ VersionInv /\ SessionInv /\ PresentInv
          /\ MixInv /\ CacheFollowsSecret /\ RotationInv

-----------------------------------------------------------------------------
(* None is no session, goroutine, vCenter, credential or data. *)
LEMMA NoneFacts ==
    /\ None \notin Session /\ None \notin Thread /\ None \notin Server
    /\ None \notin Credential /\ None \notin Data
BY ConnNoneAssumption DEF Credential, Data, Revision

(* The part of the type invariant that is about goroutines. *)
LocalsOK ==
    /\ pc \in [Thread -> Labels] /\ kind \in [Thread -> Kinds \cup {None}]
    /\ srv \in [Thread -> Server \cup {None}] /\ again \in [Thread -> BOOLEAN]
    /\ got \in [Thread -> Data \cup {None}]
    /\ cred \in [Thread -> Credential \cup {None}]
    /\ calm \in [Thread -> BOOLEAN]
    /\ cmLock \in Thread \cup {None}

(* Going on to another control point keeps it. *)
LEMMA GotoType ==
    ASSUME LocalsOK, NEW t \in Thread, NEW l \in Labels, Goto(t, l)
    PROVE  LocalsOK'
BY DEF LocalsOK, Goto, Move, locals

(* Returning keeps it. *)
LEMMA ReturnType ==
    ASSUME LocalsOK, NEW t \in Thread, Return(t)
    PROVE  LocalsOK'
BY DEF LocalsOK, Return, Unlock, Labels

(* What a return does to the goroutines. *)
LEMMA ReturnFacts ==
    ASSUME LocalsOK, NEW t \in Thread, Return(t)
    PROVE  /\ pc'[t] = "idle" /\ ~again'[t] /\ ~calm'[t]
           /\ \A u \in Thread \ {t} :
                /\ pc'[u] = pc[u] /\ kind'[u] = kind[u] /\ srv'[u] = srv[u]
                /\ again'[u] = again[u] /\ got'[u] = got[u] /\ cred'[u] = cred[u]
           /\ \A u \in Thread : /\ cred'[u] \in {cred[u], None}
                                /\ got'[u] \in {got[u], None}
                                /\ calm'[u] => calm[u]
BY DEF LocalsOK, Return

(* What going on to another control point does to them. *)
LEMMA GotoFacts ==
    ASSUME LocalsOK, NEW t \in Thread, NEW l, Goto(t, l)
    PROVE  /\ pc'[t] = l /\ \A u \in Thread \ {t} : pc'[u] = pc[u]
           /\ UNCHANGED locals
BY DEF LocalsOK, Goto, Move

(* A step that leaves the credentials alone, or forgets one, mixes nothing. *)
LEMMA MixFrame ==
    ASSUME MixInv, UNCHANGED <<source, log, conn, virtualCenter>>,
           \A u \in Thread : cred'[u] \in {cred[u], None}
    PROVE  MixInv'
<1>1. AllWhole' = AllWhole
    BY DEF AllWhole
<1>2. \A u \in Thread : Paired(cred[u]) => Paired(cred'[u])
    BY DEF Paired
<1> QED
    BY <1>1, <1>2 DEF MixInv

(* The step of a goroutine in the middle of a call is the only one an      *)
(* undisturbed call can see.                                               *)
LEMMA RotationFrame ==
    ASSUME RotationInv, NEW t \in Thread, pc[t] # "idle",
           \A u \in Thread \ {t} : pc'[u] = pc[u],
           \A u \in Thread : calm'[u] => calm[u],
           Carried(t)'
    PROVE  RotationInv'
<1>1. \A u \in Thread \ {t} : ~calm[u]
    BY DEF RotationInv
<1>2. \A u \in Thread \ {t} : ~calm'[u] /\ Carried(u)'
    BY <1>1 DEF Carried, Good
<1>3. calm'[t] => \A o \in Thread \ {t} : pc'[o] = "idle"
    BY DEF RotationInv
<1> QED
    BY <1>2, <1>3 DEF RotationInv

(* The cache is as good as it was when nobody touches it or ends a parse. *)
LEMMA CacheFrame ==
    ASSUME CacheFollowsSecret, UNCHANGED <<cacheSecret, virtualCenter>>,
           \A u \in Thread : pc[u] = "parse" => pc'[u] = "parse"
    PROVE  CacheFollowsSecret'
BY DEF CacheFollowsSecret

(* Data at hand stays what it was, or is forgotten. *)
LEMMA VersionFrame ==
    ASSUME VersionInv, UNCHANGED <<log, cacheSecret>>,
           \A u \in Thread : got'[u] \in {got[u], None}
    PROVE  VersionInv'
BY DEF VersionInv, SecretAt

(* A return keeps the control invariant if it gives up vclib's lock. *)
LEMMA ReturnControl ==
    ASSUME LocalsOK, ControlInv, NEW t \in Thread, Return(t),
           vcLock' # t, \A u \in Thread \ {t} : (vcLock' = u) <=> (vcLock = u),
           UNCHANGED <<source, cacheSecret, cacheFile>>
    PROVE  ControlInv'
<1>1. /\ pc'[t] = "idle" /\ ~again'[t]
      /\ \A u \in Thread \ {t} :
           /\ pc'[u] = pc[u] /\ kind'[u] = kind[u] /\ srv'[u] = srv[u]
           /\ again'[u] = again[u] /\ got'[u] = got[u] /\ cred'[u] = cred[u]
    BY ONLY LocalsOK, t \in Thread, Return(t), ReturnFacts
<1> QED
    BY <1>1 DEF ControlInv

(* So does going on to a control point whose demands are met. *)
LEMMA GotoControl ==
    ASSUME LocalsOK, ControlInv, NEW t \in Thread, NEW l \in Labels, Goto(t, l),
           pc[t] # "idle", l \notin {"idle", "session", "newClient", "compare",
                                     "updateSecret", "updateCredentials", "parse"},
           l = "getSecret" => source = "lister",
           l \in {"checkDirectory", "readDirectory"} => source # "lister",
           vcLock' # t, \A u \in Thread \ {t} : (vcLock' = u) <=> (vcLock = u),
           UNCHANGED <<source, cacheSecret, cacheFile>>
    PROVE  ControlInv'
<1>1. /\ pc'[t] = l /\ \A u \in Thread \ {t} : pc'[u] = pc[u]
      /\ UNCHANGED locals
    BY ONLY LocalsOK, t \in Thread, Goto(t, l), GotoFacts
<1> QED
    BY <1>1 DEF ControlInv, locals

(* The present secret is data. *)
LEMMA SecretData ==
    ASSUME TypeOK, secret # 0
    PROVE  secret \in 1..Len(log) /\ SecretAt(secret) \in Data
<1>1. secret \in 1..Len(log) /\ secret \in 1..MaxRevision
    BY HostAssumption DEF TypeOK
<1>2. log[secret] \in Contents
    BY <1>1 DEF TypeOK
<1> QED
    BY <1>1, <1>2, HostAssumption DEF SecretAt, Data

(* Parsing data leaves the cache a map from hosts to credentials. *)
LEMMA AppliedType ==
    ASSUME TypeOK, NEW d \in Data, NEW K
    PROVE  Applied(d, K) \in [Host -> Credential \cup {None}]
<1> SUFFICES ASSUME NEW h \in Host, Entries(K, h) # {}
             PROVE  Applied(d, K)[h] \in Credential
    BY DEF Applied, TypeOK
<1>1. d.ver \in Revision
    BY HostAssumption DEF Data, Revision
<1>2. virtualCenter[h] = None \/ virtualCenter[h] \in [Field -> Revision \cup {None}]
    BY DEF TypeOK, Credential
<1> QED
    BY <1>1, <1>2 DEF Applied, Credential

(* Where a parse finds an entry, it takes the data's revision. *)
LEMMA AppliedEntries ==
    ASSUME TypeOK, NEW d \in Data, NEW K, NEW h \in Host, NEW f \in Entries(K, h)
    PROVE  Applied(d, K)[h] # None /\ Applied(d, K)[h][f] = d.ver
<1>1. f \in Field /\ Entries(K, h) # {}
    BY DEF Entries
<1>2. Applied(d, K)[h] \in Credential
    <2>1. Applied(d, K)[h] = [g \in Field |-> IF g \in Entries(K, h) THEN d.ver
                              ELSE IF virtualCenter[h] = None THEN None
                              ELSE virtualCenter[h][g]]
        BY <1>1 DEF Applied
    <2>2. d.ver \in Revision
        BY HostAssumption DEF Data, Revision
    <2>3. virtualCenter[h] = None \/ virtualCenter[h] \in [Field -> Revision \cup {None}]
        BY DEF TypeOK, Credential
    <2> QED
        BY <2>1, <2>2, <2>3 DEF Credential
<1>3. Applied(d, K)[h][f] = d.ver
    BY <1>1 DEF Applied
<1> QED
    BY <1>2, <1>3, NoneFacts

(* Where a refused login leads. *)
LEMMA LoginInvalidBranch ==
    ASSUME TypeOK, NEW t \in Thread, LoginInvalid(t)
    PROVE  \/ Return(t)
           \/ source = "lister" /\ Goto(t, "getSecret")
           \/ source # "lister" /\ Goto(t, "checkDirectory")
           \/ source # "lister" /\ Goto(t, "getCredential")
<1>1. source \in {"lister", "directory", "none"}
    BY HostAssumption DEF TypeOK
<1> QED
    BY ONLY <1>1, LoginInvalid(t) DEF LoginInvalid

(* Where the end of a parse leads. *)
LEMMA ParseBranch ==
    ASSUME NEW t \in Thread, ParseSecret(t)
    PROVE  Return(t) \/ Goto(t, "getCredential")
BY DEF ParseSecret, ParseFails

(* Start preserves every part of the invariant. *)
LEMMA StartStep ==
    ASSUME IndInv, NEW t \in Thread, NEW k \in Kinds, NEW s \in Server, Start(t, k, s)
    PROVE  IndInv'
<1> USE DEF world, cache, locks, locals, Start, Move, Alone
<1>1. TypeOK'
    BY NoneFacts, HostAssumption
       DEF IndInv, TypeOK, ControlInv, Labels, Kinds, Locking, Revision
<1>2. ControlInv'
    BY NoneFacts
       DEF IndInv, TypeOK, ControlInv, Kinds, Locking
<1>3. VersionInv'
    <2>1. \A u \in Thread : got'[u] \in {got[u], None}
        BY DEF IndInv, TypeOK
    <2>2. VersionInv /\ UNCHANGED <<log, cacheSecret>>
        BY DEF IndInv
    <2> QED
        BY ONLY <2>1, <2>2, VersionFrame
<1>4. SessionInv'
    BY NoneFacts
       DEF IndInv, TypeOK, ControlInv, SessionInv, NoSessionLost
<1>5. PresentInv'
    BY NoneFacts
       DEF IndInv, TypeOK, ControlInv, SessionInv, NoSessionLost, PresentInv, ClientPresent
<1>6. MixInv'
    <2>1. \A u \in Thread : cred'[u] \in {cred[u], None}
        BY DEF IndInv, TypeOK
    <2>2. MixInv /\ UNCHANGED <<source, log, conn, virtualCenter>>
        BY DEF IndInv
    <2> QED
        BY ONLY <2>1, <2>2, MixFrame
<1>7. CacheFollowsSecret'
    <2>1. \A u \in Thread : pc[u] = "parse" => pc'[u] = "parse"
        BY DEF IndInv, TypeOK
    <2>2. CacheFollowsSecret /\ UNCHANGED <<cacheSecret, virtualCenter>>
        BY DEF IndInv
    <2> QED
        BY ONLY <2>1, <2>2, CacheFrame
<1>8. RotationInv'
    BY NoneFacts
       DEF IndInv, TypeOK, ControlInv, RotationInv, Carried, Good, Entries, SecretAt
<1> QED
    BY <1>1, <1>2, <1>3, <1>4, <1>5, <1>6, <1>7, <1>8 DEF IndInv

(* LockManager preserves every part of the invariant. *)
LEMMA LockManagerStep ==
    ASSUME IndInv, NEW t \in Thread, LockManager(t)
    PROVE  IndInv'
<1> USE DEF world, cache, locks, locals, LockManager
<1>1. TypeOK'
    BY NoneFacts, HostAssumption
       DEF IndInv, TypeOK, ControlInv, Labels, Kinds, Locking, Revision
<1>2. ControlInv'
    BY NoneFacts
       DEF IndInv, TypeOK, ControlInv, Kinds, Locking
<1>3. VersionInv'
    <2>1. \A u \in Thread : got'[u] \in {got[u], None}
        BY DEF IndInv, TypeOK
    <2>2. VersionInv /\ UNCHANGED <<log, cacheSecret>>
        BY DEF IndInv
    <2> QED
        BY ONLY <2>1, <2>2, VersionFrame
<1>4. SessionInv'
    BY NoneFacts
       DEF IndInv, TypeOK, ControlInv, SessionInv, NoSessionLost
<1>5. PresentInv'
    BY NoneFacts
       DEF IndInv, TypeOK, ControlInv, SessionInv, NoSessionLost, PresentInv, ClientPresent
<1>6. MixInv'
    <2>1. \A u \in Thread : cred'[u] \in {cred[u], None}
        BY DEF IndInv, TypeOK
    <2>2. MixInv /\ UNCHANGED <<source, log, conn, virtualCenter>>
        BY DEF IndInv
    <2> QED
        BY ONLY <2>1, <2>2, MixFrame
<1>7. CacheFollowsSecret'
    <2>1. \A u \in Thread : pc[u] = "parse" => pc'[u] = "parse"
        BY DEF IndInv, TypeOK
    <2>2. CacheFollowsSecret /\ UNCHANGED <<cacheSecret, virtualCenter>>
        BY DEF IndInv
    <2> QED
        BY ONLY <2>1, <2>2, CacheFrame
<1>8. RotationInv'
    <2>1. /\ pc[t] # "idle" /\ RotationInv
          /\ \A u \in Thread \ {t} : pc'[u] = pc[u]
          /\ \A u \in Thread : calm'[u] => calm[u]
        BY DEF IndInv, TypeOK
    <2>2. Carried(t)'
        BY NoneFacts DEF IndInv, TypeOK, ControlInv, RotationInv, Carried, Good,
           SecretAt
    <2> QED
        BY ONLY <2>1, <2>2, RotationFrame
<1> QED
    BY <1>1, <1>2, <1>3, <1>4, <1>5, <1>6, <1>7, <1>8 DEF IndInv

(* Enter preserves every part of the invariant. *)
LEMMA EnterStep ==
    ASSUME IndInv, NEW t \in Thread, Enter(t)
    PROVE  IndInv'
<1> USE DEF world, cache, locks, locals, Enter, Goto, Move
<1>1. TypeOK'
    BY NoneFacts, HostAssumption
       DEF IndInv, TypeOK, ControlInv, Labels, Kinds, Locking, Revision
<1>2. ControlInv'
    BY NoneFacts
       DEF IndInv, TypeOK, ControlInv, Kinds, Locking
<1>3. VersionInv'
    <2>1. \A u \in Thread : got'[u] \in {got[u], None}
        BY DEF IndInv, TypeOK
    <2>2. VersionInv /\ UNCHANGED <<log, cacheSecret>>
        BY DEF IndInv
    <2> QED
        BY ONLY <2>1, <2>2, VersionFrame
<1>4. SessionInv'
    BY NoneFacts
       DEF IndInv, TypeOK, ControlInv, SessionInv, NoSessionLost
<1>5. PresentInv'
    BY NoneFacts
       DEF IndInv, TypeOK, ControlInv, SessionInv, NoSessionLost, PresentInv, ClientPresent
<1>6. MixInv'
    <2>1. \A u \in Thread : cred'[u] \in {cred[u], None}
        BY DEF IndInv, TypeOK
    <2>2. MixInv /\ UNCHANGED <<source, log, conn, virtualCenter>>
        BY DEF IndInv
    <2> QED
        BY ONLY <2>1, <2>2, MixFrame
<1>7. CacheFollowsSecret'
    <2>1. \A u \in Thread : pc[u] = "parse" => pc'[u] = "parse"
        BY DEF IndInv, TypeOK
    <2>2. CacheFollowsSecret /\ UNCHANGED <<cacheSecret, virtualCenter>>
        BY DEF IndInv
    <2> QED
        BY ONLY <2>1, <2>2, CacheFrame
<1>8. RotationInv'
    <2>1. /\ pc[t] # "idle" /\ RotationInv
          /\ \A u \in Thread \ {t} : pc'[u] = pc[u]
          /\ \A u \in Thread : calm'[u] => calm[u]
        BY DEF IndInv, TypeOK
    <2>2. Carried(t)'
        BY NoneFacts DEF IndInv, TypeOK, ControlInv, RotationInv, Carried, Good,
           SecretAt
    <2> QED
        BY ONLY <2>1, <2>2, RotationFrame
<1> QED
    BY <1>1, <1>2, <1>3, <1>4, <1>5, <1>6, <1>7, <1>8 DEF IndInv

(* SessionValid preserves every part of the invariant. *)
LEMMA SessionValidStep ==
    ASSUME IndInv, NEW t \in Thread, SessionValid(t)
    PROVE  IndInv'
<1> USE DEF world, cache, locks, locals, SessionValid, Connected, Unlock
<1>1. TypeOK'
    BY NoneFacts, HostAssumption
       DEF IndInv, TypeOK, ControlInv, Labels, Kinds, Locking, Revision
<1>2. ControlInv'
    BY NoneFacts
       DEF IndInv, TypeOK, ControlInv, Kinds, Locking
<1>3. VersionInv'
    <2>1. \A u \in Thread : got'[u] \in {got[u], None}
        BY DEF IndInv, TypeOK
    <2>2. VersionInv /\ UNCHANGED <<log, cacheSecret>>
        BY DEF IndInv
    <2> QED
        BY ONLY <2>1, <2>2, VersionFrame
<1>4. SessionInv'
    BY NoneFacts
       DEF IndInv, TypeOK, ControlInv, SessionInv, NoSessionLost
<1>5. PresentInv'
    BY NoneFacts
       DEF IndInv, TypeOK, ControlInv, SessionInv, NoSessionLost, PresentInv, ClientPresent
<1>6. MixInv'
    <2>1. \A u \in Thread : cred'[u] \in {cred[u], None}
        BY DEF IndInv, TypeOK
    <2>2. MixInv /\ UNCHANGED <<source, log, conn, virtualCenter>>
        BY DEF IndInv
    <2> QED
        BY ONLY <2>1, <2>2, MixFrame
<1>7. CacheFollowsSecret'
    <2>1. \A u \in Thread : pc[u] = "parse" => pc'[u] = "parse"
        BY DEF IndInv, TypeOK
    <2>2. CacheFollowsSecret /\ UNCHANGED <<cacheSecret, virtualCenter>>
        BY DEF IndInv
    <2> QED
        BY ONLY <2>1, <2>2, CacheFrame
<1>8. RotationInv'
    <2>1. /\ pc[t] # "idle" /\ RotationInv
          /\ \A u \in Thread \ {t} : pc'[u] = pc[u]
          /\ \A u \in Thread : calm'[u] => calm[u]
        BY DEF IndInv, TypeOK
    <2>2. Carried(t)'
        BY NoneFacts DEF IndInv, TypeOK, ControlInv, RotationInv, Carried, Good,
           SecretAt
    <2> QED
        BY ONLY <2>1, <2>2, RotationFrame
<1> QED
    BY <1>1, <1>2, <1>3, <1>4, <1>5, <1>6, <1>7, <1>8 DEF IndInv

(* SessionEnded preserves every part of the invariant. *)
LEMMA SessionEndedStep ==
    ASSUME IndInv, NEW t \in Thread, SessionEnded(t)
    PROVE  IndInv'
<1> USE DEF world, cache, locks, locals, SessionEnded, Goto, Move
<1>1. TypeOK'
    BY NoneFacts, HostAssumption
       DEF IndInv, TypeOK, ControlInv, Labels, Kinds, Locking, Revision
<1>2. ControlInv'
    BY NoneFacts
       DEF IndInv, TypeOK, ControlInv, Kinds, Locking
<1>3. VersionInv'
    <2>1. \A u \in Thread : got'[u] \in {got[u], None}
        BY DEF IndInv, TypeOK
    <2>2. VersionInv /\ UNCHANGED <<log, cacheSecret>>
        BY DEF IndInv
    <2> QED
        BY ONLY <2>1, <2>2, VersionFrame
<1>4. SessionInv'
    BY NoneFacts
       DEF IndInv, TypeOK, ControlInv, SessionInv, NoSessionLost
<1>5. PresentInv'
    BY NoneFacts
       DEF IndInv, TypeOK, ControlInv, SessionInv, NoSessionLost, PresentInv, ClientPresent
<1>6. MixInv'
    <2>1. \A u \in Thread : cred'[u] \in {cred[u], None}
        BY DEF IndInv, TypeOK
    <2>2. MixInv /\ UNCHANGED <<source, log, conn, virtualCenter>>
        BY DEF IndInv
    <2> QED
        BY ONLY <2>1, <2>2, MixFrame
<1>7. CacheFollowsSecret'
    <2>1. \A u \in Thread : pc[u] = "parse" => pc'[u] = "parse"
        BY DEF IndInv, TypeOK
    <2>2. CacheFollowsSecret /\ UNCHANGED <<cacheSecret, virtualCenter>>
        BY DEF IndInv
    <2> QED
        BY ONLY <2>1, <2>2, CacheFrame
<1>8. RotationInv'
    <2>1. /\ pc[t] # "idle" /\ RotationInv
          /\ \A u \in Thread \ {t} : pc'[u] = pc[u]
          /\ \A u \in Thread : calm'[u] => calm[u]
        BY DEF IndInv, TypeOK
    <2>2. Carried(t)'
        BY NoneFacts DEF IndInv, TypeOK, ControlInv, RotationInv, Carried, Good,
           SecretAt
    <2> QED
        BY ONLY <2>1, <2>2, RotationFrame
<1> QED
    BY <1>1, <1>2, <1>3, <1>4, <1>5, <1>6, <1>7, <1>8 DEF IndInv

(* SessionUnknown preserves every part of the invariant. *)
LEMMA SessionUnknownStep ==
    ASSUME IndInv, NEW t \in Thread, SessionUnknown(t)
    PROVE  IndInv'
<1> USE DEF world, cache, locks, locals, SessionUnknown, Return, Unlock
<1>1. TypeOK'
    BY NoneFacts, HostAssumption
       DEF IndInv, TypeOK, ControlInv, Labels, Kinds, Locking, Revision
<1>2. ControlInv'
    BY NoneFacts
       DEF IndInv, TypeOK, ControlInv, Kinds, Locking
<1>3. VersionInv'
    <2>1. \A u \in Thread : got'[u] \in {got[u], None}
        BY DEF IndInv, TypeOK
    <2>2. VersionInv /\ UNCHANGED <<log, cacheSecret>>
        BY DEF IndInv
    <2> QED
        BY ONLY <2>1, <2>2, VersionFrame
<1>4. SessionInv'
    BY NoneFacts
       DEF IndInv, TypeOK, ControlInv, SessionInv, NoSessionLost
<1>5. PresentInv'
    BY NoneFacts
       DEF IndInv, TypeOK, ControlInv, SessionInv, NoSessionLost, PresentInv, ClientPresent
<1>6. MixInv'
    <2>1. \A u \in Thread : cred'[u] \in {cred[u], None}
        BY DEF IndInv, TypeOK
    <2>2. MixInv /\ UNCHANGED <<source, log, conn, virtualCenter>>
        BY DEF IndInv
    <2> QED
        BY ONLY <2>1, <2>2, MixFrame
<1>7. CacheFollowsSecret'
    <2>1. \A u \in Thread : pc[u] = "parse" => pc'[u] = "parse"
        BY DEF IndInv, TypeOK
    <2>2. CacheFollowsSecret /\ UNCHANGED <<cacheSecret, virtualCenter>>
        BY DEF IndInv
    <2> QED
        BY ONLY <2>1, <2>2, CacheFrame
<1>8. RotationInv'
    <2>1. /\ pc[t] # "idle" /\ RotationInv
          /\ \A u \in Thread \ {t} : pc'[u] = pc[u]
          /\ \A u \in Thread : calm'[u] => calm[u]
        BY DEF IndInv, TypeOK
    <2>2. Carried(t)'
        BY NoneFacts DEF IndInv, TypeOK, ControlInv, RotationInv, Carried, Good,
           SecretAt
    <2> QED
        BY ONLY <2>1, <2>2, RotationFrame
<1> QED
    BY <1>1, <1>2, <1>3, <1>4, <1>5, <1>6, <1>7, <1>8 DEF IndInv

(* LoginOK preserves every part of the invariant. *)
LEMMA LoginOKStep ==
    ASSUME IndInv, NEW t \in Thread, LoginOK(t)
    PROVE  IndInv'
<1> USE DEF world, cache, locks, locals, LoginOK, Connected, Unlock
<1>1. TypeOK'
    BY NoneFacts, HostAssumption
       DEF IndInv, TypeOK, ControlInv, Labels, Kinds, Locking, Revision
<1>2. ControlInv'
    BY NoneFacts
       DEF IndInv, TypeOK, ControlInv, Kinds, Locking
<1>3. VersionInv'
    <2>1. \A u \in Thread : got'[u] \in {got[u], None}
        BY DEF IndInv, TypeOK
    <2>2. VersionInv /\ UNCHANGED <<log, cacheSecret>>
        BY DEF IndInv
    <2> QED
        BY ONLY <2>1, <2>2, VersionFrame
<1>4. SessionInv'
    BY NoneFacts
       DEF IndInv, TypeOK, ControlInv, SessionInv, NoSessionLost
<1>5. PresentInv'
    BY NoneFacts
       DEF IndInv, TypeOK, ControlInv, SessionInv, NoSessionLost, PresentInv, ClientPresent
<1>6. MixInv'
    <2>1. \A u \in Thread : cred'[u] \in {cred[u], None}
        BY DEF IndInv, TypeOK
    <2>2. MixInv /\ UNCHANGED <<source, log, conn, virtualCenter>>
        BY DEF IndInv
    <2> QED
        BY ONLY <2>1, <2>2, MixFrame
<1>7. CacheFollowsSecret'
    <2>1. \A u \in Thread : pc[u] = "parse" => pc'[u] = "parse"
        BY DEF IndInv, TypeOK
    <2>2. CacheFollowsSecret /\ UNCHANGED <<cacheSecret, virtualCenter>>
        BY DEF IndInv
    <2> QED
        BY ONLY <2>1, <2>2, CacheFrame
<1>8. RotationInv'
    <2>1. /\ pc[t] # "idle" /\ RotationInv
          /\ \A u \in Thread \ {t} : pc'[u] = pc[u]
          /\ \A u \in Thread : calm'[u] => calm[u]
        BY DEF IndInv, TypeOK
    <2>2. Carried(t)'
        BY NoneFacts DEF IndInv, TypeOK, ControlInv, RotationInv, Carried, Good,
           SecretAt
    <2> QED
        BY ONLY <2>1, <2>2, RotationFrame
<1> QED
    BY <1>1, <1>2, <1>3, <1>4, <1>5, <1>6, <1>7, <1>8 DEF IndInv

(* NewClientFails preserves every part of the invariant. *)
LEMMA NewClientFailsStep ==
    ASSUME IndInv, NEW t \in Thread, NewClientFails(t)
    PROVE  IndInv'
<1> USE DEF world, cache, locks, locals, NewClientFails, Return, Unlock
<1>1. TypeOK'
    BY NoneFacts, HostAssumption
       DEF IndInv, TypeOK, ControlInv, Labels, Kinds, Locking, Revision
<1>2. ControlInv'
    BY NoneFacts
       DEF IndInv, TypeOK, ControlInv, Kinds, Locking
<1>3. VersionInv'
    <2>1. \A u \in Thread : got'[u] \in {got[u], None}
        BY DEF IndInv, TypeOK
    <2>2. VersionInv /\ UNCHANGED <<log, cacheSecret>>
        BY DEF IndInv
    <2> QED
        BY ONLY <2>1, <2>2, VersionFrame
<1>4. SessionInv'
    BY NoneFacts
       DEF IndInv, TypeOK, ControlInv, SessionInv, NoSessionLost
<1>5. PresentInv'
    BY NoneFacts
       DEF IndInv, TypeOK, ControlInv, SessionInv, NoSessionLost, PresentInv, ClientPresent
<1>6. MixInv'
    <2>1. \A u \in Thread : cred'[u] \in {cred[u], None}
        BY DEF IndInv, TypeOK
    <2>2. MixInv /\ UNCHANGED <<source, log, conn, virtualCenter>>
        BY DEF IndInv
    <2> QED
        BY ONLY <2>1, <2>2, MixFrame
<1>7. CacheFollowsSecret'
    <2>1. \A u \in Thread : pc[u] = "parse" => pc'[u] = "parse"
        BY DEF IndInv, TypeOK
    <2>2. CacheFollowsSecret /\ UNCHANGED <<cacheSecret, virtualCenter>>
        BY DEF IndInv
    <2> QED
        BY ONLY <2>1, <2>2, CacheFrame
<1>8. RotationInv'
    <2>1. /\ pc[t] # "idle" /\ RotationInv
          /\ \A u \in Thread \ {t} : pc'[u] = pc[u]
          /\ \A u \in Thread : calm'[u] => calm[u]
        BY DEF IndInv, TypeOK
    <2>2. Carried(t)'
        BY NoneFacts DEF IndInv, TypeOK, ControlInv, RotationInv, Carried, Good,
           SecretAt
    <2> QED
        BY ONLY <2>1, <2>2, RotationFrame
<1> QED
    BY <1>1, <1>2, <1>3, <1>4, <1>5, <1>6, <1>7, <1>8 DEF IndInv

(* LoginInvalid preserves every part of the invariant. *)
LEMMA LoginInvalidStep ==
    ASSUME IndInv, NEW t \in Thread, LoginInvalid(t)
    PROVE  IndInv'
<1> USE DEF world, cache, locks, locals, LoginInvalid, Return, Unlock, Goto, Move
<1>1. TypeOK'
    <2>0. TypeOK /\ LocalsOK /\ ControlInv /\ pc[t] # "idle"
        BY DEF IndInv, TypeOK, LocalsOK
    <2>1. \/ Return(t)
          \/ Goto(t, "getSecret") \/ Goto(t, "checkDirectory") \/ Goto(t, "getCredential")
        BY ONLY <2>0, LoginInvalidBranch, t \in Thread, LoginInvalid(t)
    <2>2. LocalsOK'
        BY ONLY <2>0, <2>1, ReturnType, GotoType, t \in Thread DEF Labels
    <2> QED
        BY <2>0, <2>2 DEF TypeOK, LocalsOK, ControlInv
<1>2. ControlInv'
    <2>0. TypeOK /\ LocalsOK /\ ControlInv /\ pc[t] # "idle"
        BY DEF IndInv, TypeOK, LocalsOK
    <2>1. \/ Return(t)
          \/ source = "lister" /\ Goto(t, "getSecret")
          \/ source # "lister" /\ Goto(t, "checkDirectory")
          \/ source # "lister" /\ Goto(t, "getCredential")
        BY ONLY <2>0, LoginInvalidBranch, t \in Thread, LoginInvalid(t)
    <2>2. /\ vcLock' # t /\ \A u \in Thread \ {t} : (vcLock' = u) <=> (vcLock = u)
          /\ UNCHANGED <<source, cacheSecret, cacheFile>>
        BY <2>0, NoneFacts DEF ControlInv
    <2>3. {"getSecret", "checkDirectory", "getCredential"} \subseteq Labels
        BY DEF Labels
    <2> QED
        BY ONLY <2>0, <2>1, <2>2, <2>3, ReturnControl, GotoControl, t \in Thread
<1>3. VersionInv'
    <2>1. \A u \in Thread : got'[u] \in {got[u], None}
        BY DEF IndInv, TypeOK
    <2>2. VersionInv /\ UNCHANGED <<log, cacheSecret>>
        BY DEF IndInv
    <2> QED
        BY ONLY <2>1, <2>2, VersionFrame
<1>4. SessionInv'
    BY NoneFacts
       DEF IndInv, TypeOK, ControlInv, SessionInv, NoSessionLost
<1>5. PresentInv'
    <2>0. TypeOK /\ LocalsOK /\ ControlInv /\ pc[t] # "idle"
        BY DEF IndInv, TypeOK, LocalsOK
    <2>1. \/ Return(t)
          \/ Goto(t, "getSecret") \/ Goto(t, "checkDirectory") \/ Goto(t, "getCredential")
        BY ONLY <2>0, LoginInvalidBranch, t \in Thread, LoginInvalid(t)
    <2>2. /\ pc'[t] \notin {"use", "version", "logout"}
          /\ \A u \in Thread \ {t} : pc'[u] = pc[u] /\ srv'[u] = srv[u]
        BY ONLY <2>0, <2>1, ReturnFacts, GotoFacts, t \in Thread DEF locals
    <2>3. srv[t] \in Server /\ live[srv[t]] = {} /\ client' = [client EXCEPT ![srv[t]] = None]
          /\ UNCHANGED <<live, ended>>
        BY <2>0 DEF IndInv, ControlInv, SessionInv
    <2>4. \A s \in Server : client'[s] # None => s # srv[t] /\ client'[s] = client[s]
        BY ONLY <2>0, <2>3 DEF TypeOK
    <2>5. client[srv[t]] # None => ended[srv[t]]
        BY <2>3 DEF IndInv, PresentInv
    <2>6. \A s \in Server : client'[s] = client[s] \/ (s = srv[t] /\ client'[s] = None)
        BY ONLY <2>0, <2>3 DEF TypeOK
    <2>7. ClientPresent'
        <3> SUFFICES ASSUME NEW u \in Thread, pc'[u] \in {"use", "version", "logout"}
                     PROVE  client'[srv'[u]] # None \/ ended'[srv'[u]]
            BY DEF ClientPresent
        <3>0. pc[u] \in {"use", "version", "logout"} /\ srv'[u] = srv[u]
            BY <2>2
        <3>1. srv'[u] = srv[u] /\ srv[u] \in Server /\ (client[srv[u]] # None \/ ended[srv[u]])
            BY <3>0 DEF IndInv, ControlInv, PresentInv, ClientPresent
        <3> QED
            BY ONLY <3>1, <2>3, <2>5, <2>6
    <2> QED
        BY ONLY <2>3, <2>4, <2>7, IndInv DEF IndInv, PresentInv
<1>6. MixInv'
    <2>1. \A u \in Thread : cred'[u] \in {cred[u], None}
        BY DEF IndInv, TypeOK
    <2>2. MixInv /\ UNCHANGED <<source, log, conn, virtualCenter>>
        BY DEF IndInv
    <2> QED
        BY ONLY <2>1, <2>2, MixFrame
<1>7. CacheFollowsSecret'
    <2>1. \A u \in Thread : pc[u] = "parse" => pc'[u] = "parse"
        BY DEF IndInv, TypeOK
    <2>2. CacheFollowsSecret /\ UNCHANGED <<cacheSecret, virtualCenter>>
        BY DEF IndInv
    <2> QED
        BY ONLY <2>1, <2>2, CacheFrame
<1>8. RotationInv'
    <2>0. TypeOK /\ LocalsOK /\ pc[t] # "idle" /\ RotationInv
        BY DEF IndInv, TypeOK, LocalsOK
    <2>1. CASE Return(t)
        <3>1. Carried(t)'
            BY ONLY <2>0, <2>1, ReturnFacts, t \in Thread DEF Carried, Good
        <3> QED
            BY ONLY <2>0, <2>1, <3>1, ReturnFacts, RotationFrame, t \in Thread
    <2>2. ASSUME NEW l, Goto(t, l), l \in {"getSecret", "checkDirectory"}
                                  \/ (l = "getCredential" /\ source # "lister")
          PROVE  RotationInv'
        <3>1. /\ pc'[t] = l /\ \A u \in Thread \ {t} : pc'[u] = pc[u]
              /\ UNCHANGED locals
            BY ONLY <2>0, <2>2, GotoFacts, t \in Thread
        <3>2. Carried(t)'
            BY ONLY <2>0, <2>2, <3>1, LoginInvalid(t), t \in Thread
               DEF LoginInvalid, Carried, RotationInv, Good, SecretAt, locals, world, cache
        <3> QED
            BY ONLY <2>0, <3>1, <3>2, RotationFrame, t \in Thread DEF locals
    <2> QED
        BY ONLY <2>0, <2>1, <2>2, LoginInvalidBranch, t \in Thread, LoginInvalid(t)
<1> QED
    BY <1>1, <1>2, <1>3, <1>4, <1>5, <1>6, <1>7, <1>8 DEF IndInv

(* GetSecret preserves every part of the invariant. *)
LEMMA GetSecretStep ==
    ASSUME IndInv, NEW t \in Thread, GetSecret(t)
    PROVE  IndInv'
<1> USE DEF world, cache, locks, locals, GetSecret, Goto, Move
<1>1. TypeOK'
    <2>0. TypeOK /\ LocalsOK /\ ControlInv /\ pc[t] # "idle"
        BY DEF IndInv, TypeOK, LocalsOK
    <2>1. CASE secret = 0
        <3>1. LocalsOK'
            BY ONLY <2>0, <2>1, GetSecret(t), GotoType, t \in Thread DEF GetSecret, Labels
        <3> QED
            BY <2>0, <3>1 DEF TypeOK, LocalsOK
    <2>2. CASE secret # 0
        <3>1. SecretAt(secret) \in Data
            BY ONLY <2>0, <2>2, SecretData
        <3> QED
            BY <2>0, <2>2, <3>1 DEF TypeOK, Labels
    <2> QED
        BY <2>1, <2>2
<1>2. ControlInv'
    <2>0. TypeOK /\ LocalsOK /\ ControlInv /\ pc[t] # "idle"
        BY DEF IndInv, TypeOK, LocalsOK
    <2>1. UNCHANGED <<source, cacheSecret, cacheFile, vcLock>>
        OBVIOUS
    <2>2. CASE secret = 0
        <3>1. Goto(t, "getCredential") /\ vcLock # t
            BY <2>0, <2>2 DEF ControlInv
        <3> QED
            BY ONLY <2>0, <2>1, <3>1, GotoControl, t \in Thread DEF Labels
    <2>3. CASE secret # 0
        <3>1. SecretAt(secret) \in Data
            BY ONLY <2>0, <2>3, SecretData
        <3> QED
            BY <2>0, <2>3, <3>1 DEF TypeOK, ControlInv
    <2> QED
        BY <2>2, <2>3
<1>3. VersionInv'
    BY NoneFacts
       DEF IndInv, TypeOK, VersionInv, SecretAt
<1>4. SessionInv'
    BY NoneFacts
       DEF IndInv, TypeOK, ControlInv, SessionInv, NoSessionLost
<1>5. PresentInv'
    BY NoneFacts
       DEF IndInv, TypeOK, ControlInv, SessionInv, NoSessionLost, PresentInv, ClientPresent
<1>6. MixInv'
    <2>1. \A u \in Thread : cred'[u] \in {cred[u], None}
        BY DEF IndInv, TypeOK
    <2>2. MixInv /\ UNCHANGED <<source, log, conn, virtualCenter>>
        BY DEF IndInv
    <2> QED
        BY ONLY <2>1, <2>2, MixFrame
<1>7. CacheFollowsSecret'
    <2>1. \A u \in Thread : pc[u] = "parse" => pc'[u] = "parse"
        BY DEF IndInv, TypeOK
    <2>2. CacheFollowsSecret /\ UNCHANGED <<cacheSecret, virtualCenter>>
        BY DEF IndInv
    <2> QED
        BY ONLY <2>1, <2>2, CacheFrame
<1>8. RotationInv'
    <2>1. /\ pc[t] # "idle" /\ RotationInv
          /\ \A u \in Thread \ {t} : pc'[u] = pc[u]
          /\ \A u \in Thread : calm'[u] => calm[u]
        BY DEF IndInv, TypeOK
    <2>2. Carried(t)'
        BY NoneFacts DEF IndInv, TypeOK, ControlInv, RotationInv, Carried, Good,
           SecretAt
    <2> QED
        BY ONLY <2>1, <2>2, RotationFrame
<1> QED
    BY <1>1, <1>2, <1>3, <1>4, <1>5, <1>6, <1>7, <1>8 DEF IndInv

(* CompareSecret preserves every part of the invariant. *)
LEMMA CompareSecretStep ==
    ASSUME IndInv, NEW t \in Thread, CompareSecret(t)
    PROVE  IndInv'
<1> USE DEF world, cache, locks, locals, CompareSecret, Goto, Move
<1>1. TypeOK'
    BY NoneFacts, HostAssumption
       DEF IndInv, TypeOK, ControlInv, Labels, Kinds, Locking, Revision
<1>2. ControlInv'
    BY NoneFacts
       DEF IndInv, TypeOK, ControlInv, Kinds, Locking
<1>3. VersionInv'
    <2>1. \A u \in Thread : got'[u] \in {got[u], None}
        BY DEF IndInv, TypeOK
    <2>2. VersionInv /\ UNCHANGED <<log, cacheSecret>>
        BY DEF IndInv
    <2> QED
        BY ONLY <2>1, <2>2, VersionFrame
<1>4. SessionInv'
    BY NoneFacts
       DEF IndInv, TypeOK, ControlInv, SessionInv, NoSessionLost
<1>5. PresentInv'
    BY NoneFacts
       DEF IndInv, TypeOK, ControlInv, SessionInv, NoSessionLost, PresentInv, ClientPresent
<1>6. MixInv'
    <2>1. \A u \in Thread : cred'[u] \in {cred[u], None}
        BY DEF IndInv, TypeOK
    <2>2. MixInv /\ UNCHANGED <<source, log, conn, virtualCenter>>
        BY DEF IndInv
    <2> QED
        BY ONLY <2>1, <2>2, MixFrame
<1>7. CacheFollowsSecret'
    <2>1. \A u \in Thread : pc[u] = "parse" => pc'[u] = "parse"
        BY DEF IndInv, TypeOK
    <2>2. CacheFollowsSecret /\ UNCHANGED <<cacheSecret, virtualCenter>>
        BY DEF IndInv
    <2> QED
        BY ONLY <2>1, <2>2, CacheFrame
<1>8. RotationInv'
    <2>1. /\ pc[t] # "idle" /\ RotationInv
          /\ \A u \in Thread \ {t} : pc'[u] = pc[u]
          /\ \A u \in Thread : calm'[u] => calm[u]
        BY DEF IndInv, TypeOK
    <2>2. pc'[t] = "getCredential" => cacheSecret = got[t]
        <3>1. got[t] # None
            BY NoneFacts DEF IndInv, ControlInv
        <3>2. pc'[t] = "getCredential" => cacheSecret # None /\ cacheSecret.ver = got[t].ver
            BY DEF IndInv, TypeOK
        <3> QED
            BY ONLY <3>1, <3>2, IndInv, t \in Thread DEF IndInv, VersionInv
    <2>3. Carried(t)'
        BY <2>2 DEF IndInv, TypeOK, RotationInv, Carried, Good, SecretAt
    <2> QED
        BY ONLY <2>1, <2>3, RotationFrame
<1> QED
    BY <1>1, <1>2, <1>3, <1>4, <1>5, <1>6, <1>7, <1>8 DEF IndInv

(* UpdateSecret preserves every part of the invariant. *)
LEMMA UpdateSecretStep ==
    ASSUME IndInv, NEW t \in Thread, UpdateSecret(t)
    PROVE  IndInv'
<1> USE DEF world, cache, locks, locals, UpdateSecret, Move
<1>1. TypeOK'
    BY NoneFacts, HostAssumption
       DEF IndInv, TypeOK, ControlInv, Labels, Kinds, Locking, Revision
<1>2. ControlInv'
    BY NoneFacts
       DEF IndInv, TypeOK, ControlInv, Kinds, Locking
<1>3. VersionInv'
    BY NoneFacts
       DEF IndInv, TypeOK, VersionInv, SecretAt
<1>4. SessionInv'
    BY NoneFacts
       DEF IndInv, TypeOK, ControlInv, SessionInv, NoSessionLost
<1>5. PresentInv'
    BY NoneFacts
       DEF IndInv, TypeOK, ControlInv, SessionInv, NoSessionLost, PresentInv, ClientPresent
<1>6. MixInv'
    <2>1. \A u \in Thread : cred'[u] \in {cred[u], None}
        BY DEF IndInv, TypeOK
    <2>2. MixInv /\ UNCHANGED <<source, log, conn, virtualCenter>>
        BY DEF IndInv
    <2> QED
        BY ONLY <2>1, <2>2, MixFrame
<1>7. CacheFollowsSecret'
    BY NoneFacts
       DEF IndInv, TypeOK, ControlInv, CacheFollowsSecret, Entries
<1>8. RotationInv'
    <2>1. /\ pc[t] # "idle" /\ RotationInv
          /\ \A u \in Thread \ {t} : pc'[u] = pc[u]
          /\ \A u \in Thread : calm'[u] => calm[u]
        BY DEF IndInv, TypeOK
    <2>2. Carried(t)'
        BY NoneFacts DEF IndInv, TypeOK, ControlInv, RotationInv, Carried, Good,
           SecretAt
    <2> QED
        BY ONLY <2>1, <2>2, RotationFrame
<1> QED
    BY <1>1, <1>2, <1>3, <1>4, <1>5, <1>6, <1>7, <1>8 DEF IndInv

(* CheckDirectory preserves every part of the invariant. *)
LEMMA CheckDirectoryStep ==
    ASSUME IndInv, NEW t \in Thread, CheckDirectory(t)
    PROVE  IndInv'
<1> USE DEF world, cache, locks, locals, CheckDirectory, Goto, Move
<1>1. TypeOK'
    BY NoneFacts, HostAssumption
       DEF IndInv, TypeOK, ControlInv, Labels, Kinds, Locking, Revision
<1>2. ControlInv'
    BY NoneFacts
       DEF IndInv, TypeOK, ControlInv, Kinds, Locking
<1>3. VersionInv'
    <2>1. \A u \in Thread : got'[u] \in {got[u], None}
        BY DEF IndInv, TypeOK
    <2>2. VersionInv /\ UNCHANGED <<log, cacheSecret>>
        BY DEF IndInv
    <2> QED
        BY ONLY <2>1, <2>2, VersionFrame
<1>4. SessionInv'
    BY NoneFacts
       DEF IndInv, TypeOK, ControlInv, SessionInv, NoSessionLost
<1>5. PresentInv'
    BY NoneFacts
       DEF IndInv, TypeOK, ControlInv, SessionInv, NoSessionLost, PresentInv, ClientPresent
<1>6. MixInv'
    <2>1. \A u \in Thread : cred'[u] \in {cred[u], None}
        BY DEF IndInv, TypeOK
    <2>2. MixInv /\ UNCHANGED <<source, log, conn, virtualCenter>>
        BY DEF IndInv
    <2> QED
        BY ONLY <2>1, <2>2, MixFrame
<1>7. CacheFollowsSecret'
    <2>1. \A u \in Thread : pc[u] = "parse" => pc'[u] = "parse"
        BY DEF IndInv, TypeOK
    <2>2. CacheFollowsSecret /\ UNCHANGED <<cacheSecret, virtualCenter>>
        BY DEF IndInv
    <2> QED
        BY ONLY <2>1, <2>2, CacheFrame
<1>8. RotationInv'
    <2>1. /\ pc[t] # "idle" /\ RotationInv
          /\ \A u \in Thread \ {t} : pc'[u] = pc[u]
          /\ \A u \in Thread : calm'[u] => calm[u]
        BY DEF IndInv, TypeOK
    <2>2. Carried(t)'
        BY NoneFacts DEF IndInv, TypeOK, ControlInv, RotationInv, Carried, Good,
           SecretAt
    <2> QED
        BY ONLY <2>1, <2>2, RotationFrame
<1> QED
    BY <1>1, <1>2, <1>3, <1>4, <1>5, <1>6, <1>7, <1>8 DEF IndInv

(* ReadDirectory preserves every part of the invariant. *)
LEMMA ReadDirectoryStep ==
    ASSUME IndInv, NEW t \in Thread, ReadDirectory(t)
    PROVE  IndInv'
<1> USE DEF world, cache, locks, locals, ReadDirectory, Goto, Move
<1>1. TypeOK'
    <2>1. cacheFile' \in Data
        <3>1. secret \in 1..Len(log) /\ SecretAt(secret) \in Data
            BY ONLY IndInv, ReadDirectory(t), SecretData DEF IndInv, ReadDirectory
        <3>2. /\ log[secret].keys \in SUBSET (Host \X Field)
              /\ log[secret].unknown \in BOOLEAN /\ secret \in 1..MaxRevision
            BY ONLY <3>1 DEF SecretAt, Data
        <3>3. PICK K \in SUBSET log[secret].keys, b \in {log[secret].unknown, FALSE} :
                cacheFile' = [ver |-> secret, keys |-> K, unknown |-> b]
            OBVIOUS
        <3> QED
            BY ONLY <3>2, <3>3 DEF Data
    <2> QED
        BY <2>1 DEF IndInv, TypeOK, Labels
<1>2. ControlInv'
    <2>1. cacheFile' \in Data
        <3>1. secret \in 1..Len(log) /\ SecretAt(secret) \in Data
            BY ONLY IndInv, ReadDirectory(t), SecretData DEF IndInv, ReadDirectory
        <3>2. /\ log[secret].keys \in SUBSET (Host \X Field)
              /\ log[secret].unknown \in BOOLEAN /\ secret \in 1..MaxRevision
            BY ONLY <3>1 DEF SecretAt, Data
        <3>3. PICK K \in SUBSET log[secret].keys, b \in {log[secret].unknown, FALSE} :
                cacheFile' = [ver |-> secret, keys |-> K, unknown |-> b]
            OBVIOUS
        <3> QED
            BY ONLY <3>2, <3>3 DEF Data
    <2> QED
        BY <2>1 DEF IndInv, TypeOK, ControlInv
<1>3. VersionInv'
    <2>1. \A u \in Thread : got'[u] \in {got[u], None}
        BY DEF IndInv, TypeOK
    <2>2. VersionInv /\ UNCHANGED <<log, cacheSecret>>
        BY DEF IndInv
    <2> QED
        BY ONLY <2>1, <2>2, VersionFrame
<1>4. SessionInv'
    BY NoneFacts
       DEF IndInv, TypeOK, ControlInv, SessionInv, NoSessionLost
<1>5. PresentInv'
    BY NoneFacts
       DEF IndInv, TypeOK, ControlInv, SessionInv, NoSessionLost, PresentInv, ClientPresent
<1>6. MixInv'
    <2>1. \A u \in Thread : cred'[u] \in {cred[u], None}
        BY DEF IndInv, TypeOK
    <2>2. MixInv /\ UNCHANGED <<source, log, conn, virtualCenter>>
        BY DEF IndInv
    <2> QED
        BY ONLY <2>1, <2>2, MixFrame
<1>7. CacheFollowsSecret'
    <2>1. \A u \in Thread : pc[u] = "parse" => pc'[u] = "parse"
        BY DEF IndInv, TypeOK
    <2>2. CacheFollowsSecret /\ UNCHANGED <<cacheSecret, virtualCenter>>
        BY DEF IndInv
    <2> QED
        BY ONLY <2>1, <2>2, CacheFrame
<1>8. RotationInv'
    <2>1. /\ pc[t] # "idle" /\ RotationInv
          /\ \A u \in Thread \ {t} : pc'[u] = pc[u]
          /\ \A u \in Thread : calm'[u] => calm[u]
        BY DEF IndInv, TypeOK
    <2>2. Carried(t)'
        BY NoneFacts DEF IndInv, TypeOK, ControlInv, RotationInv, Carried, Good,
           SecretAt
    <2> QED
        BY ONLY <2>1, <2>2, RotationFrame
<1> QED
    BY <1>1, <1>2, <1>3, <1>4, <1>5, <1>6, <1>7, <1>8 DEF IndInv

(* ReadDirectoryFails preserves every part of the invariant. *)
LEMMA ReadDirectoryFailsStep ==
    ASSUME IndInv, NEW t \in Thread, ReadDirectoryFails(t)
    PROVE  IndInv'
<1> USE DEF world, cache, locks, locals, ReadDirectoryFails, Goto, Move
<1>1. TypeOK'
    BY NoneFacts, HostAssumption
       DEF IndInv, TypeOK, ControlInv, Labels, Kinds, Locking, Revision
<1>2. ControlInv'
    BY NoneFacts
       DEF IndInv, TypeOK, ControlInv, Kinds, Locking
<1>3. VersionInv'
    <2>1. \A u \in Thread : got'[u] \in {got[u], None}
        BY DEF IndInv, TypeOK
    <2>2. VersionInv /\ UNCHANGED <<log, cacheSecret>>
        BY DEF IndInv
    <2> QED
        BY ONLY <2>1, <2>2, VersionFrame
<1>4. SessionInv'
    BY NoneFacts
       DEF IndInv, TypeOK, ControlInv, SessionInv, NoSessionLost
<1>5. PresentInv'
    BY NoneFacts
       DEF IndInv, TypeOK, ControlInv, SessionInv, NoSessionLost, PresentInv, ClientPresent
<1>6. MixInv'
    <2>1. \A u \in Thread : cred'[u] \in {cred[u], None}
        BY DEF IndInv, TypeOK
    <2>2. MixInv /\ UNCHANGED <<source, log, conn, virtualCenter>>
        BY DEF IndInv
    <2> QED
        BY ONLY <2>1, <2>2, MixFrame
<1>7. CacheFollowsSecret'
    <2>1. \A u \in Thread : pc[u] = "parse" => pc'[u] = "parse"
        BY DEF IndInv, TypeOK
    <2>2. CacheFollowsSecret /\ UNCHANGED <<cacheSecret, virtualCenter>>
        BY DEF IndInv
    <2> QED
        BY ONLY <2>1, <2>2, CacheFrame
<1>8. RotationInv'
    <2>1. /\ pc[t] # "idle" /\ RotationInv
          /\ \A u \in Thread \ {t} : pc'[u] = pc[u]
          /\ \A u \in Thread : calm'[u] => calm[u]
        BY DEF IndInv, TypeOK
    <2>2. Carried(t)'
        BY NoneFacts DEF IndInv, TypeOK, ControlInv, RotationInv, Carried, Good,
           SecretAt
    <2> QED
        BY ONLY <2>1, <2>2, RotationFrame
<1> QED
    BY <1>1, <1>2, <1>3, <1>4, <1>5, <1>6, <1>7, <1>8 DEF IndInv

(* ParseSecret preserves every part of the invariant. *)
LEMMA ParseSecretStep ==
    ASSUME IndInv, NEW t \in Thread, ParseSecret(t)
    PROVE  IndInv'
<1> USE DEF world, cache, locks, locals, ParseSecret, Return, Unlock, Goto, Move, ParseFails
<1>1. TypeOK'
    <2>0. TypeOK /\ LocalsOK /\ ControlInv /\ pc[t] # "idle"
        BY DEF IndInv, TypeOK, LocalsOK
    <2> DEFINE d == IF cacheSecret # None THEN cacheSecret ELSE cacheFile
    <2>1. d \in Data
        BY <2>0, NoneFacts DEF TypeOK, ControlInv
    <2>2. \E K : virtualCenter' = Applied(d, K) /\ (~d.unknown => K = d.keys)
        OBVIOUS
    <2>3. virtualCenter' \in [Host -> Credential \cup {None}]
        BY ONLY <2>0, <2>1, <2>2, AppliedType
    <2>4. LocalsOK'
        BY ONLY <2>0, ParseBranch, ReturnType, GotoType, ParseSecret(t), t \in Thread
           DEF Labels
    <2> QED
        BY <2>0, <2>3, <2>4 DEF TypeOK, LocalsOK
<1>2. ControlInv'
    <2>0. TypeOK /\ LocalsOK /\ ControlInv /\ pc[t] # "idle"
        BY DEF IndInv, TypeOK, LocalsOK
    <2>1. Return(t) \/ Goto(t, "getCredential")
        BY ONLY ParseBranch, ParseSecret(t), t \in Thread
    <2>2. /\ vcLock # t /\ UNCHANGED <<source, cacheSecret, cacheFile, vcLock>>
          /\ "getCredential" \in Labels
        BY <2>0 DEF ControlInv, Labels
    <2> QED
        BY ONLY <2>0, <2>1, <2>2, ReturnControl, GotoControl, t \in Thread
<1>3. VersionInv'
    <2>1. \A u \in Thread : got'[u] \in {got[u], None}
        BY DEF IndInv, TypeOK
    <2>2. VersionInv /\ UNCHANGED <<log, cacheSecret>>
        BY DEF IndInv
    <2> QED
        BY ONLY <2>1, <2>2, VersionFrame
<1>4. SessionInv'
    BY NoneFacts
       DEF IndInv, TypeOK, ControlInv, SessionInv, NoSessionLost
<1>5. PresentInv'
    BY NoneFacts
       DEF IndInv, TypeOK, ControlInv, SessionInv, NoSessionLost, PresentInv, ClientPresent
<1>6. MixInv'
    <2>0. TypeOK /\ LocalsOK /\ ControlInv /\ pc[t] # "idle"
        BY DEF IndInv, TypeOK, LocalsOK
    <2> DEFINE d == IF cacheSecret # None THEN cacheSecret ELSE cacheFile
    <2>1. d \in Data
        BY <2>0, NoneFacts DEF TypeOK, ControlInv
    <2>2. \E K : virtualCenter' = Applied(d, K) /\ (~d.unknown => K = d.keys)
        OBVIOUS
    <2>3. \A u \in Thread : cred'[u] \in {cred[u], None}
        <3>1. Return(t) \/ Goto(t, "getCredential")
            BY ONLY ParseBranch, ParseSecret(t), t \in Thread
        <3> QED
            BY ONLY <2>0, <3>1, ReturnFacts, GotoFacts, t \in Thread DEF locals
    <2>4. ASSUME AllWhole PROVE \A h \in Host : Paired(virtualCenter'[h])
        <3>1. /\ cacheSecret # None /\ d = cacheSecret
              /\ d.ver \in 1..Len(log) /\ d = SecretAt(d.ver)
            BY <2>0, <2>4, NoneFacts DEF IndInv, VersionInv, ControlInv, AllWhole
        <3> HIDE DEF d
        <3>2. /\ ~d.unknown
              /\ \A h \in Host : Entries(d.keys, h) = {} \/ Entries(d.keys, h) = Field
            <4>1. Whole(log[d.ver])
                BY ONLY <2>4, <3>1 DEF AllWhole
            <4>2. d.keys = log[d.ver].keys /\ d.unknown = log[d.ver].unknown
                BY ONLY <3>1 DEF SecretAt
            <4> QED
                BY ONLY <4>1, <4>2 DEF Whole
        <3>3. virtualCenter' = Applied(d, d.keys)
            BY ONLY <2>2, <3>2
        <3> SUFFICES ASSUME NEW h \in Host PROVE Paired(virtualCenter'[h])
            OBVIOUS
        <3>4. CASE Entries(d.keys, h) = {}
            <4>1. virtualCenter'[h] = virtualCenter[h]
                BY ONLY <3>3, <3>4, h \in Host DEF Applied
            <4> QED
                BY ONLY <2>4, <4>1, h \in Host, IndInv DEF IndInv, MixInv
        <3>5. CASE Entries(d.keys, h) = Field
            BY ONLY <2>0, <2>1, <3>3, <3>5, h \in Host, AppliedEntries DEF Paired, Field
        <3> QED
            BY ONLY <3>2, <3>4, <3>5, h \in Host
    <2>5. AllWhole' => AllWhole
        BY DEF AllWhole
    <2>6. \A u \in Thread : Paired(cred[u]) => Paired(cred'[u])
        BY ONLY <2>3 DEF Paired
    <2> QED
        BY ONLY <2>4, <2>5, <2>6, IndInv, UNCHANGED conn DEF IndInv, MixInv
<1>7. CacheFollowsSecret'
    <2>0. TypeOK /\ LocalsOK /\ ControlInv /\ pc[t] # "idle"
        BY DEF IndInv, TypeOK, LocalsOK
    <2> DEFINE d == IF cacheSecret # None THEN cacheSecret ELSE cacheFile
    <2>1. d \in Data
        BY <2>0, NoneFacts DEF TypeOK, ControlInv
    <2>2. \E K : virtualCenter' = Applied(d, K) /\ (~d.unknown => K = d.keys)
        OBVIOUS
    <2>3. ASSUME cacheSecret # None, ~cacheSecret.unknown
          PROVE  \A h \in Host : \A f \in Entries(cacheSecret.keys, h) :
                    virtualCenter'[h] # None /\ virtualCenter'[h][f] = cacheSecret.ver
        <3>1. cacheSecret \in Data /\ virtualCenter' = Applied(cacheSecret, cacheSecret.keys)
            BY <2>1, <2>2, <2>3
        <3> QED
            BY ONLY <2>0, <3>1, AppliedEntries
    <2> QED
        BY <2>3 DEF CacheFollowsSecret
<1>8. RotationInv'
    <2>0. TypeOK /\ LocalsOK /\ pc[t] # "idle" /\ RotationInv
        BY DEF IndInv, TypeOK, LocalsOK
    <2>1. CASE Return(t)
        <3>1. Carried(t)'
            BY ONLY <2>0, <2>1, ReturnFacts, t \in Thread DEF Carried, Good
        <3> QED
            BY ONLY <2>0, <2>1, <3>1, ReturnFacts, RotationFrame, t \in Thread
    <2>2. CASE Goto(t, "getCredential")
        <3>1. /\ pc'[t] = "getCredential" /\ \A u \in Thread \ {t} : pc'[u] = pc[u]
              /\ UNCHANGED locals
            BY ONLY <2>0, <2>2, GotoFacts, t \in Thread
        <3>2. pc[t] = "parse" /\ UNCHANGED <<source, log, secret, cacheSecret, conn>>
            BY ONLY ParseSecret(t) DEF ParseSecret, world
        <3>3. Carried(t)'
            BY ONLY <2>0, <3>1, <3>2, t \in Thread
               DEF Carried, RotationInv, Good, SecretAt, locals
        <3> QED
            BY ONLY <2>0, <3>1, <3>3, RotationFrame, t \in Thread DEF locals
    <2> QED
        BY ONLY <2>1, <2>2, ParseBranch, ParseSecret(t), t \in Thread
<1> QED
    BY <1>1, <1>2, <1>3, <1>4, <1>5, <1>6, <1>7, <1>8 DEF IndInv

(* GetCredential preserves every part of the invariant. *)
LEMMA GetCredentialStep ==
    ASSUME IndInv, NEW t \in Thread, GetCredential(t)
    PROVE  IndInv'
<1> USE DEF world, cache, locks, locals, GetCredential, Return, Unlock, Move
<1>1. TypeOK'
    <2>0. TypeOK /\ LocalsOK /\ ControlInv /\ pc[t] # "idle"
        BY DEF IndInv, TypeOK, LocalsOK
    <2>1. srv[t] \in Server /\ srv[t] \in Host /\ vcLock # t
        BY <2>0, HostAssumption DEF ControlInv
    <2>2. CASE virtualCenter[srv[t]] = None
        <3>1. Return(t) /\ UNCHANGED <<source, cacheSecret, cacheFile, vcLock>>
            BY ONLY <2>2, GetCredential(t) DEF GetCredential, world, cache
        <3>2. LocalsOK'
            BY ONLY <2>0, <3>1, ReturnType, t \in Thread
        <3> QED
            BY <2>0, <3>2 DEF TypeOK, LocalsOK
    <2>3. CASE virtualCenter[srv[t]] # None
        <3>1. virtualCenter[srv[t]] \in Credential
            BY <2>0, <2>1, <2>3 DEF TypeOK
        <3>2. /\ Move(t, "updateCredentials")
              /\ cred' = [cred EXCEPT ![t] = virtualCenter[srv[t]]]
              /\ UNCHANGED <<kind, srv, again, got, calm>>
            BY ONLY <2>3, GetCredential(t) DEF GetCredential
        <3>3. LocalsOK'
            BY ONLY <2>0, <3>1, <3>2, t \in Thread DEF LocalsOK, Labels, Move
        <3>4. UNCHANGED <<world, live, ended, client, conn, cache, vcLock, up>>
            BY ONLY GetCredential(t) DEF GetCredential
        <3> QED
            BY ONLY <2>0, <3>3, <3>4 DEF TypeOK, LocalsOK, world, cache
    <2> QED
        BY <2>2, <2>3
<1>2. ControlInv'
    <2>0. TypeOK /\ LocalsOK /\ ControlInv /\ pc[t] # "idle"
        BY DEF IndInv, TypeOK, LocalsOK
    <2>1. srv[t] \in Server /\ srv[t] \in Host /\ vcLock # t
        BY <2>0, HostAssumption DEF ControlInv
    <2>2. CASE virtualCenter[srv[t]] = None
        <3>1. Return(t) /\ UNCHANGED <<source, cacheSecret, cacheFile, vcLock>>
            BY ONLY <2>2, GetCredential(t) DEF GetCredential, world, cache
        <3> QED
            BY ONLY <2>0, <2>1, <3>1, ReturnControl, t \in Thread
    <2>3. CASE virtualCenter[srv[t]] # None
        <3>1. virtualCenter[srv[t]] \in Credential
            BY <2>0, <2>1, <2>3 DEF TypeOK
        <3> QED
            BY <2>0, <2>3, <3>1 DEF TypeOK, ControlInv
    <2> QED
        BY <2>2, <2>3
<1>3. VersionInv'
    <2>1. \A u \in Thread : got'[u] \in {got[u], None}
        BY DEF IndInv, TypeOK
    <2>2. VersionInv /\ UNCHANGED <<log, cacheSecret>>
        BY DEF IndInv
    <2> QED
        BY ONLY <2>1, <2>2, VersionFrame
<1>4. SessionInv'
    <2>1. \A u \in Thread : pc'[u] = "newClient" => pc[u] = "newClient" /\ srv'[u] = srv[u]
        BY DEF IndInv, TypeOK
    <2> QED
        BY ONLY <2>1, UNCHANGED <<live, client>>, IndInv DEF IndInv, SessionInv, NoSessionLost
<1>5. PresentInv'
    BY NoneFacts
       DEF IndInv, TypeOK, ControlInv, SessionInv, NoSessionLost, PresentInv, ClientPresent
<1>6. MixInv'
    <2>0. TypeOK /\ LocalsOK /\ ControlInv /\ pc[t] # "idle"
        BY DEF IndInv, TypeOK, LocalsOK
    <2>1. CASE virtualCenter[srv[t]] = None
        <3>1. Return(t) /\ UNCHANGED <<source, log, conn, virtualCenter, live, client>>
            BY ONLY <2>1, GetCredential(t) DEF GetCredential, world, cache
        <3> QED
            BY ONLY <2>0, <3>1, ReturnFacts, MixFrame, t \in Thread, IndInv DEF IndInv
    <2>2. CASE virtualCenter[srv[t]] # None
        <3>1. /\ srv[t] \in Host /\ UNCHANGED <<source, log, conn, virtualCenter>>
              /\ \A u \in Thread : cred'[u] \in {cred[u], virtualCenter[srv[t]]}
            BY <2>0, <2>2, HostAssumption DEF TypeOK, ControlInv
        <3>2. AllWhole' => AllWhole
            BY ONLY <3>1 DEF AllWhole
        <3> QED
            BY ONLY <3>1, <3>2, IndInv DEF IndInv, MixInv
    <2> QED
        BY <2>1, <2>2
<1>7. CacheFollowsSecret'
    <2>1. \A u \in Thread : pc[u] = "parse" => pc'[u] = "parse"
        BY DEF IndInv, TypeOK
    <2>2. CacheFollowsSecret /\ UNCHANGED <<cacheSecret, virtualCenter>>
        BY DEF IndInv
    <2> QED
        BY ONLY <2>1, <2>2, CacheFrame
<1>8. RotationInv'
    <2>0. TypeOK /\ LocalsOK /\ ControlInv /\ RotationInv /\ pc[t] # "idle"
        BY DEF IndInv, TypeOK, LocalsOK
    <2>1. CASE virtualCenter[srv[t]] = None
        <3>1. Return(t) /\ UNCHANGED <<source, log, conn, virtualCenter, live, client>>
            BY ONLY <2>1, GetCredential(t) DEF GetCredential, world, cache
        <3>2. Carried(t)'
            BY ONLY <2>0, <3>1, ReturnFacts, t \in Thread DEF Carried, Good
        <3> QED
            BY ONLY <2>0, <3>1, <3>2, ReturnFacts, RotationFrame, t \in Thread
    <2>2. CASE virtualCenter[srv[t]] # None
        <3>1. /\ pc'[t] = "updateCredentials" /\ \A u \in Thread \ {t} : pc'[u] = pc[u]
              /\ cred'[t] = virtualCenter[srv[t]]
              /\ UNCHANGED <<source, log, secret, conn, srv, again, calm>>
            BY <2>0, <2>2 DEF TypeOK
        <3>2. ASSUME Good(t) PROVE virtualCenter[srv[t]] = Same(secret)
            <4>1. /\ cacheSecret = SecretAt(secret)
                  /\ \A u \in Thread : pc[u] # "parse"
                BY <2>0, <3>2 DEF RotationInv, Carried, Good
            <4>2. /\ cacheSecret # None /\ ~cacheSecret.unknown /\ cacheSecret.ver = secret
                  /\ Entries(cacheSecret.keys, srv[t]) = Field
                BY ONLY <2>0, <3>2, <4>1, SecretData, NoneFacts DEF Good, SecretAt
            <4>3. srv[t] \in Host
                BY <2>0, HostAssumption DEF ControlInv
            <4>4. \A f \in Field : virtualCenter[srv[t]][f] = secret
                BY ONLY <4>1, <4>2, <4>3, IndInv DEF IndInv, CacheFollowsSecret
            <4>5. virtualCenter[srv[t]] \in [Field -> Revision \cup {None}]
                BY ONLY <2>0, <2>2, <4>3 DEF TypeOK, Credential
            <4> QED
                BY ONLY <4>4, <4>5 DEF Same
        <3>3. Carried(t)'
            BY ONLY <2>0, <3>1, <3>2, t \in Thread DEF Carried, Good, RotationInv
        <3> QED
            BY ONLY <2>0, <3>1, <3>3, RotationFrame, t \in Thread
    <2> QED
        BY <2>1, <2>2
<1> QED
    BY <1>1, <1>2, <1>3, <1>4, <1>5, <1>6, <1>7, <1>8 DEF IndInv

(* UpdateCredentials preserves every part of the invariant. *)
LEMMA UpdateCredentialsStep ==
    ASSUME IndInv, NEW t \in Thread, UpdateCredentials(t)
    PROVE  IndInv'
<1> USE DEF world, cache, locks, locals, UpdateCredentials, Move
<1>1. TypeOK'
    BY NoneFacts, HostAssumption
       DEF IndInv, TypeOK, ControlInv, Labels, Kinds, Locking, Revision
<1>2. ControlInv'
    BY NoneFacts
       DEF IndInv, TypeOK, ControlInv, Kinds, Locking
<1>3. VersionInv'
    <2>1. \A u \in Thread : got'[u] \in {got[u], None}
        BY DEF IndInv, TypeOK
    <2>2. VersionInv /\ UNCHANGED <<log, cacheSecret>>
        BY DEF IndInv
    <2> QED
        BY ONLY <2>1, <2>2, VersionFrame
<1>4. SessionInv'
    BY NoneFacts
       DEF IndInv, TypeOK, ControlInv, SessionInv, NoSessionLost
<1>5. PresentInv'
    BY NoneFacts
       DEF IndInv, TypeOK, ControlInv, SessionInv, NoSessionLost, PresentInv, ClientPresent
<1>6. MixInv'
    BY NoneFacts
       DEF IndInv, TypeOK, ControlInv, MixInv, AllWhole, Paired, Whole, Entries
<1>7. CacheFollowsSecret'
    <2>1. \A u \in Thread : pc[u] = "parse" => pc'[u] = "parse"
        BY DEF IndInv, TypeOK
    <2>2. CacheFollowsSecret /\ UNCHANGED <<cacheSecret, virtualCenter>>
        BY DEF IndInv
    <2> QED
        BY ONLY <2>1, <2>2, CacheFrame
<1>8. RotationInv'
    <2>1. /\ pc[t] # "idle" /\ RotationInv
          /\ \A u \in Thread \ {t} : pc'[u] = pc[u]
          /\ \A u \in Thread : calm'[u] => calm[u]
        BY DEF IndInv, TypeOK
    <2>2. Carried(t)'
        BY NoneFacts DEF IndInv, TypeOK, ControlInv, RotationInv, Carried, Good,
           SecretAt
    <2> QED
        BY ONLY <2>1, <2>2, RotationFrame
<1> QED
    BY <1>1, <1>2, <1>3, <1>4, <1>5, <1>6, <1>7, <1>8 DEF IndInv

(* Use preserves every part of the invariant. *)
LEMMA UseStep ==
    ASSUME IndInv, NEW t \in Thread, Use(t)
    PROVE  IndInv'
<1> USE DEF world, cache, locks, locals, Use, Return, Unlock, Goto, Move
<1>1. TypeOK'
    <2>1. LocalsOK
        BY DEF IndInv, TypeOK, LocalsOK
    <2>2. Return(t) \/ Goto(t, "version")
        BY ONLY Use(t) DEF Use
    <2>3. LocalsOK'
        BY ONLY <2>1, <2>2, GotoType, ReturnType, t \in Thread DEF Labels
    <2> QED
        BY <2>3 DEF IndInv, TypeOK, LocalsOK
<1>2. ControlInv'
    BY NoneFacts
       DEF IndInv, TypeOK, ControlInv, Kinds, Locking
<1>3. VersionInv'
    <2>1. \A u \in Thread : got'[u] \in {got[u], None}
        BY DEF IndInv, TypeOK
    <2>2. VersionInv /\ UNCHANGED <<log, cacheSecret>>
        BY DEF IndInv
    <2> QED
        BY ONLY <2>1, <2>2, VersionFrame
<1>4. SessionInv'
    BY NoneFacts
       DEF IndInv, TypeOK, ControlInv, SessionInv, NoSessionLost
<1>5. PresentInv'
    BY NoneFacts
       DEF IndInv, TypeOK, ControlInv, SessionInv, NoSessionLost, PresentInv, ClientPresent
<1>6. MixInv'
    <2>1. \A u \in Thread : cred'[u] \in {cred[u], None}
        BY DEF IndInv, TypeOK
    <2>2. MixInv /\ UNCHANGED <<source, log, conn, virtualCenter>>
        BY DEF IndInv
    <2> QED
        BY ONLY <2>1, <2>2, MixFrame
<1>7. CacheFollowsSecret'
    <2>1. \A u \in Thread : pc[u] = "parse" => pc'[u] = "parse"
        BY DEF IndInv, TypeOK
    <2>2. CacheFollowsSecret /\ UNCHANGED <<cacheSecret, virtualCenter>>
        BY DEF IndInv
    <2> QED
        BY ONLY <2>1, <2>2, CacheFrame
<1>8. RotationInv'
    <2>0. LocalsOK /\ pc[t] # "idle" /\ RotationInv
        BY DEF IndInv, TypeOK, LocalsOK
    <2>1. CASE Return(t)
        <3>1. Carried(t)'
            BY ONLY <2>0, <2>1, ReturnFacts, t \in Thread DEF Carried, Good
        <3> QED
            BY ONLY <2>0, <2>1, <3>1, ReturnFacts, RotationFrame, t \in Thread
    <2>2. CASE Goto(t, "version")
        <3>1. /\ pc'[t] = "version" /\ \A u \in Thread \ {t} : pc'[u] = pc[u]
              /\ UNCHANGED locals
            BY ONLY <2>0, <2>2, GotoFacts, t \in Thread
        <3>2. Carried(t)'
            BY ONLY <2>0, <3>1, Use(t), t \in Thread
               DEF Use, Carried, RotationInv, Good, SecretAt, locals, world, cache
        <3> QED
            BY ONLY <2>0, <3>1, <3>2, RotationFrame, t \in Thread DEF locals
    <2>3. Return(t) \/ Goto(t, "version")
        BY ONLY Use(t) DEF Use
    <2> QED
        BY <2>1, <2>2, <2>3
<1> QED
    BY <1>1, <1>2, <1>3, <1>4, <1>5, <1>6, <1>7, <1>8 DEF IndInv

(* NoVersion preserves every part of the invariant. *)
LEMMA NoVersionStep ==
    ASSUME IndInv, NEW t \in Thread, NoVersion(t)
    PROVE  IndInv'
<1> USE DEF world, cache, locks, locals, NoVersion, Return, Unlock
<1>1. TypeOK'
    BY NoneFacts, HostAssumption
       DEF IndInv, TypeOK, ControlInv, Labels, Kinds, Locking, Revision
<1>2. ControlInv'
    BY NoneFacts
       DEF IndInv, TypeOK, ControlInv, Kinds, Locking
<1>3. VersionInv'
    <2>1. \A u \in Thread : got'[u] \in {got[u], None}
        BY DEF IndInv, TypeOK
    <2>2. VersionInv /\ UNCHANGED <<log, cacheSecret>>
        BY DEF IndInv
    <2> QED
        BY ONLY <2>1, <2>2, VersionFrame
<1>4. SessionInv'
    BY NoneFacts
       DEF IndInv, TypeOK, ControlInv, SessionInv, NoSessionLost
<1>5. PresentInv'
    BY NoneFacts
       DEF IndInv, TypeOK, ControlInv, SessionInv, NoSessionLost, PresentInv, ClientPresent
<1>6. MixInv'
    <2>1. \A u \in Thread : cred'[u] \in {cred[u], None}
        BY DEF IndInv, TypeOK
    <2>2. MixInv /\ UNCHANGED <<source, log, conn, virtualCenter>>
        BY DEF IndInv
    <2> QED
        BY ONLY <2>1, <2>2, MixFrame
<1>7. CacheFollowsSecret'
    <2>1. \A u \in Thread : pc[u] = "parse" => pc'[u] = "parse"
        BY DEF IndInv, TypeOK
    <2>2. CacheFollowsSecret /\ UNCHANGED <<cacheSecret, virtualCenter>>
        BY DEF IndInv
    <2> QED
        BY ONLY <2>1, <2>2, CacheFrame
<1>8. RotationInv'
    <2>1. /\ pc[t] # "idle" /\ RotationInv
          /\ \A u \in Thread \ {t} : pc'[u] = pc[u]
          /\ \A u \in Thread : calm'[u] => calm[u]
        BY DEF IndInv, TypeOK
    <2>2. Carried(t)'
        BY NoneFacts DEF IndInv, TypeOK, ControlInv, RotationInv, Carried, Good,
           SecretAt
    <2> QED
        BY ONLY <2>1, <2>2, RotationFrame
<1> QED
    BY <1>1, <1>2, <1>3, <1>4, <1>5, <1>6, <1>7, <1>8 DEF IndInv

(* Version preserves every part of the invariant. *)
LEMMA VersionStep ==
    ASSUME IndInv, NEW t \in Thread, Version(t)
    PROVE  IndInv'
<1> USE DEF world, cache, locks, locals, Version, Return, Unlock
<1>1. TypeOK'
    BY NoneFacts, HostAssumption
       DEF IndInv, TypeOK, ControlInv, Labels, Kinds, Locking, Revision
<1>2. ControlInv'
    BY NoneFacts
       DEF IndInv, TypeOK, ControlInv, Kinds, Locking
<1>3. VersionInv'
    <2>1. \A u \in Thread : got'[u] \in {got[u], None}
        BY DEF IndInv, TypeOK
    <2>2. VersionInv /\ UNCHANGED <<log, cacheSecret>>
        BY DEF IndInv
    <2> QED
        BY ONLY <2>1, <2>2, VersionFrame
<1>4. SessionInv'
    BY NoneFacts
       DEF IndInv, TypeOK, ControlInv, SessionInv, NoSessionLost
<1>5. PresentInv'
    BY NoneFacts
       DEF IndInv, TypeOK, ControlInv, SessionInv, NoSessionLost, PresentInv, ClientPresent
<1>6. MixInv'
    <2>1. \A u \in Thread : cred'[u] \in {cred[u], None}
        BY DEF IndInv, TypeOK
    <2>2. MixInv /\ UNCHANGED <<source, log, conn, virtualCenter>>
        BY DEF IndInv
    <2> QED
        BY ONLY <2>1, <2>2, MixFrame
<1>7. CacheFollowsSecret'
    <2>1. \A u \in Thread : pc[u] = "parse" => pc'[u] = "parse"
        BY DEF IndInv, TypeOK
    <2>2. CacheFollowsSecret /\ UNCHANGED <<cacheSecret, virtualCenter>>
        BY DEF IndInv
    <2> QED
        BY ONLY <2>1, <2>2, CacheFrame
<1>8. RotationInv'
    <2>1. /\ pc[t] # "idle" /\ RotationInv
          /\ \A u \in Thread \ {t} : pc'[u] = pc[u]
          /\ \A u \in Thread : calm'[u] => calm[u]
        BY DEF IndInv, TypeOK
    <2>2. Carried(t)'
        BY NoneFacts DEF IndInv, TypeOK, ControlInv, RotationInv, Carried, Good,
           SecretAt
    <2> QED
        BY ONLY <2>1, <2>2, RotationFrame
<1> QED
    BY <1>1, <1>2, <1>3, <1>4, <1>5, <1>6, <1>7, <1>8 DEF IndInv

(* LogoutRead preserves every part of the invariant. *)
LEMMA LogoutReadStep ==
    ASSUME IndInv, NEW t \in Thread, LogoutRead(t)
    PROVE  IndInv'
<1> USE DEF world, cache, locks, locals, LogoutRead, Return, Unlock, Goto, Move
<1>1. TypeOK'
    <2>1. LocalsOK
        BY DEF IndInv, TypeOK, LocalsOK
    <2>2. Return(t) \/ Goto(t, "logout")
        BY ONLY LogoutRead(t) DEF LogoutRead
    <2>3. LocalsOK'
        BY ONLY <2>1, <2>2, GotoType, ReturnType, t \in Thread DEF Labels
    <2> QED
        BY <2>3 DEF IndInv, TypeOK, LocalsOK
<1>2. ControlInv'
    BY NoneFacts
       DEF IndInv, TypeOK, ControlInv, Kinds, Locking
<1>3. VersionInv'
    <2>1. \A u \in Thread : got'[u] \in {got[u], None}
        BY DEF IndInv, TypeOK
    <2>2. VersionInv /\ UNCHANGED <<log, cacheSecret>>
        BY DEF IndInv
    <2> QED
        BY ONLY <2>1, <2>2, VersionFrame
<1>4. SessionInv'
    BY NoneFacts
       DEF IndInv, TypeOK, ControlInv, SessionInv, NoSessionLost
<1>5. PresentInv'
    BY NoneFacts
       DEF IndInv, TypeOK, ControlInv, SessionInv, NoSessionLost, PresentInv, ClientPresent
<1>6. MixInv'
    <2>1. \A u \in Thread : cred'[u] \in {cred[u], None}
        BY DEF IndInv, TypeOK
    <2>2. MixInv /\ UNCHANGED <<source, log, conn, virtualCenter>>
        BY DEF IndInv
    <2> QED
        BY ONLY <2>1, <2>2, MixFrame
<1>7. CacheFollowsSecret'
    <2>1. \A u \in Thread : pc[u] = "parse" => pc'[u] = "parse"
        BY DEF IndInv, TypeOK
    <2>2. CacheFollowsSecret /\ UNCHANGED <<cacheSecret, virtualCenter>>
        BY DEF IndInv
    <2> QED
        BY ONLY <2>1, <2>2, CacheFrame
<1>8. RotationInv'
    <2>0. LocalsOK /\ pc[t] # "idle" /\ RotationInv
        BY DEF IndInv, TypeOK, LocalsOK
    <2>1. CASE Return(t)
        <3>1. Carried(t)'
            BY ONLY <2>0, <2>1, ReturnFacts, t \in Thread DEF Carried, Good
        <3> QED
            BY ONLY <2>0, <2>1, <3>1, ReturnFacts, RotationFrame, t \in Thread
    <2>2. CASE Goto(t, "logout")
        <3>1. /\ pc'[t] = "logout" /\ \A u \in Thread \ {t} : pc'[u] = pc[u]
              /\ UNCHANGED locals
            BY ONLY <2>0, <2>2, GotoFacts, t \in Thread
        <3>2. Carried(t)'
            BY ONLY <2>0, <3>1, LogoutRead(t), t \in Thread
               DEF LogoutRead, Carried, RotationInv, Good, SecretAt, locals, world, cache
        <3> QED
            BY ONLY <2>0, <3>1, <3>2, RotationFrame, t \in Thread DEF locals
    <2>3. Return(t) \/ Goto(t, "logout")
        BY ONLY LogoutRead(t) DEF LogoutRead
    <2> QED
        BY <2>1, <2>2, <2>3
<1> QED
    BY <1>1, <1>2, <1>3, <1>4, <1>5, <1>6, <1>7, <1>8 DEF IndInv

(* Logout preserves every part of the invariant. *)
LEMMA LogoutStep ==
    ASSUME IndInv, NEW t \in Thread, Logout(t)
    PROVE  IndInv'
<1> USE DEF world, cache, locks, locals, Logout, Return, Unlock
<1>1. TypeOK'
    BY NoneFacts, HostAssumption
       DEF IndInv, TypeOK, ControlInv, Labels, Kinds, Locking, Revision
<1>2. ControlInv'
    BY NoneFacts
       DEF IndInv, TypeOK, ControlInv, Kinds, Locking
<1>3. VersionInv'
    <2>1. \A u \in Thread : got'[u] \in {got[u], None}
        BY DEF IndInv, TypeOK
    <2>2. VersionInv /\ UNCHANGED <<log, cacheSecret>>
        BY DEF IndInv
    <2> QED
        BY ONLY <2>1, <2>2, VersionFrame
<1>4. SessionInv'
    BY NoneFacts
       DEF IndInv, TypeOK, ControlInv, SessionInv, NoSessionLost
<1>5. PresentInv'
    BY NoneFacts
       DEF IndInv, TypeOK, ControlInv, SessionInv, NoSessionLost, PresentInv, ClientPresent
<1>6. MixInv'
    <2>1. \A u \in Thread : cred'[u] \in {cred[u], None}
        BY DEF IndInv, TypeOK
    <2>2. MixInv /\ UNCHANGED <<source, log, conn, virtualCenter>>
        BY DEF IndInv
    <2> QED
        BY ONLY <2>1, <2>2, MixFrame
<1>7. CacheFollowsSecret'
    <2>1. \A u \in Thread : pc[u] = "parse" => pc'[u] = "parse"
        BY DEF IndInv, TypeOK
    <2>2. CacheFollowsSecret /\ UNCHANGED <<cacheSecret, virtualCenter>>
        BY DEF IndInv
    <2> QED
        BY ONLY <2>1, <2>2, CacheFrame
<1>8. RotationInv'
    <2>1. /\ pc[t] # "idle" /\ RotationInv
          /\ \A u \in Thread \ {t} : pc'[u] = pc[u]
          /\ \A u \in Thread : calm'[u] => calm[u]
        BY DEF IndInv, TypeOK
    <2>2. Carried(t)'
        BY NoneFacts DEF IndInv, TypeOK, ControlInv, RotationInv, Carried, Good,
           SecretAt
    <2> QED
        BY ONLY <2>1, <2>2, RotationFrame
<1> QED
    BY <1>1, <1>2, <1>3, <1>4, <1>5, <1>6, <1>7, <1>8 DEF IndInv

(* NilClient preserves every part of the invariant. *)
LEMMA NilClientStep ==
    ASSUME IndInv, NEW t \in Thread, NilClient(t)
    PROVE  IndInv'
<1> USE DEF world, cache, locks, locals, NilClient
<1>1. TypeOK'
    BY NoneFacts, HostAssumption
       DEF IndInv, TypeOK, ControlInv, Labels, Kinds, Locking, Revision
<1>2. ControlInv'
    BY NoneFacts
       DEF IndInv, TypeOK, ControlInv, Kinds, Locking
<1>3. VersionInv'
    <2>1. \A u \in Thread : got'[u] \in {got[u], None}
        BY DEF IndInv, TypeOK
    <2>2. VersionInv /\ UNCHANGED <<log, cacheSecret>>
        BY DEF IndInv
    <2> QED
        BY ONLY <2>1, <2>2, VersionFrame
<1>4. SessionInv'
    BY NoneFacts
       DEF IndInv, TypeOK, ControlInv, SessionInv, NoSessionLost
<1>5. PresentInv'
    BY NoneFacts
       DEF IndInv, TypeOK, ControlInv, SessionInv, NoSessionLost, PresentInv, ClientPresent
<1>6. MixInv'
    <2>1. \A u \in Thread : cred'[u] \in {cred[u], None}
        BY DEF IndInv, TypeOK
    <2>2. MixInv /\ UNCHANGED <<source, log, conn, virtualCenter>>
        BY DEF IndInv
    <2> QED
        BY ONLY <2>1, <2>2, MixFrame
<1>7. CacheFollowsSecret'
    <2>1. \A u \in Thread : pc[u] = "parse" => pc'[u] = "parse"
        BY DEF IndInv, TypeOK
    <2>2. CacheFollowsSecret /\ UNCHANGED <<cacheSecret, virtualCenter>>
        BY DEF IndInv
    <2> QED
        BY ONLY <2>1, <2>2, CacheFrame
<1>8. RotationInv'
    <2>1. /\ pc[t] # "idle" /\ RotationInv
          /\ \A u \in Thread \ {t} : pc'[u] = pc[u]
          /\ \A u \in Thread : calm'[u] => calm[u]
        BY DEF IndInv, TypeOK
    <2>2. Carried(t)'
        BY NoneFacts DEF IndInv, TypeOK, ControlInv, RotationInv, Carried, Good,
           SecretAt
    <2> QED
        BY ONLY <2>1, <2>2, RotationFrame
<1> QED
    BY <1>1, <1>2, <1>3, <1>4, <1>5, <1>6, <1>7, <1>8 DEF IndInv

(* Publish preserves every part of the invariant. *)
LEMMA PublishStep ==
    ASSUME IndInv, NEW c \in Contents, Publish(c)
    PROVE  IndInv'
<1> USE DEF world, cache, locks, locals, Publish, Disturb
<1>1. TypeOK'
    BY NoneFacts, HostAssumption
       DEF IndInv, TypeOK, ControlInv, Labels, Kinds, Locking, Revision
<1>2. ControlInv'
    BY NoneFacts
       DEF IndInv, TypeOK, ControlInv, Kinds, Locking
<1>3. VersionInv'
    BY NoneFacts
       DEF IndInv, TypeOK, VersionInv, SecretAt
<1>4. SessionInv'
    BY NoneFacts
       DEF IndInv, TypeOK, ControlInv, SessionInv, NoSessionLost
<1>5. PresentInv'
    BY NoneFacts
       DEF IndInv, TypeOK, ControlInv, SessionInv, NoSessionLost, PresentInv, ClientPresent
<1>6. MixInv'
    <2>1. /\ Len(log') = Len(log) + 1 /\ Len(log) \in Nat
          /\ \A v \in 1..Len(log) : log'[v] = log[v]
        BY DEF IndInv, TypeOK
    <2>2. \A v \in 1..Len(log) : v \in 1..Len(log')
        BY ONLY <2>1
    <2>3. AllWhole' => AllWhole
        BY ONLY <2>1, <2>2, UNCHANGED source DEF AllWhole
    <2> QED
        BY ONLY <2>3, UNCHANGED <<conn, virtualCenter, cred>>, IndInv
           DEF IndInv, MixInv, Paired
<1>7. CacheFollowsSecret'
    <2>1. \A u \in Thread : pc[u] = "parse" => pc'[u] = "parse"
        BY DEF IndInv, TypeOK
    <2>2. CacheFollowsSecret /\ UNCHANGED <<cacheSecret, virtualCenter>>
        BY DEF IndInv
    <2> QED
        BY ONLY <2>1, <2>2, CacheFrame
<1>8. RotationInv'
    BY NoneFacts
       DEF IndInv, TypeOK, ControlInv, RotationInv, Carried, Good, Entries, SecretAt
<1> QED
    BY <1>1, <1>2, <1>3, <1>4, <1>5, <1>6, <1>7, <1>8 DEF IndInv

(* Withdraw preserves every part of the invariant. *)
LEMMA WithdrawStep ==
    ASSUME IndInv, Withdraw
    PROVE  IndInv'
<1> USE DEF world, cache, locks, locals, Withdraw, Disturb
<1>1. TypeOK'
    BY NoneFacts, HostAssumption
       DEF IndInv, TypeOK, ControlInv, Labels, Kinds, Locking, Revision
<1>2. ControlInv'
    BY NoneFacts
       DEF IndInv, TypeOK, ControlInv, Kinds, Locking
<1>3. VersionInv'
    <2>1. \A u \in Thread : got'[u] \in {got[u], None}
        BY DEF IndInv, TypeOK
    <2>2. VersionInv /\ UNCHANGED <<log, cacheSecret>>
        BY DEF IndInv
    <2> QED
        BY ONLY <2>1, <2>2, VersionFrame
<1>4. SessionInv'
    BY NoneFacts
       DEF IndInv, TypeOK, ControlInv, SessionInv, NoSessionLost
<1>5. PresentInv'
    BY NoneFacts
       DEF IndInv, TypeOK, ControlInv, SessionInv, NoSessionLost, PresentInv, ClientPresent
<1>6. MixInv'
    <2>1. \A u \in Thread : cred'[u] \in {cred[u], None}
        BY DEF IndInv, TypeOK
    <2>2. MixInv /\ UNCHANGED <<source, log, conn, virtualCenter>>
        BY DEF IndInv
    <2> QED
        BY ONLY <2>1, <2>2, MixFrame
<1>7. CacheFollowsSecret'
    <2>1. \A u \in Thread : pc[u] = "parse" => pc'[u] = "parse"
        BY DEF IndInv, TypeOK
    <2>2. CacheFollowsSecret /\ UNCHANGED <<cacheSecret, virtualCenter>>
        BY DEF IndInv
    <2> QED
        BY ONLY <2>1, <2>2, CacheFrame
<1>8. RotationInv'
    BY NoneFacts
       DEF IndInv, TypeOK, ControlInv, RotationInv, Carried, Good, Entries, SecretAt
<1> QED
    BY <1>1, <1>2, <1>3, <1>4, <1>5, <1>6, <1>7, <1>8 DEF IndInv

(* Rotate preserves every part of the invariant. *)
LEMMA RotateStep ==
    ASSUME IndInv, NEW s \in Server, NEW r \in Revision, Rotate(s, r)
    PROVE  IndInv'
<1> USE DEF world, cache, locks, locals, Rotate, Disturb
<1>1. TypeOK'
    BY NoneFacts, HostAssumption
       DEF IndInv, TypeOK, ControlInv, Labels, Kinds, Locking, Revision
<1>2. ControlInv'
    BY NoneFacts
       DEF IndInv, TypeOK, ControlInv, Kinds, Locking
<1>3. VersionInv'
    <2>1. \A u \in Thread : got'[u] \in {got[u], None}
        BY DEF IndInv, TypeOK
    <2>2. VersionInv /\ UNCHANGED <<log, cacheSecret>>
        BY DEF IndInv
    <2> QED
        BY ONLY <2>1, <2>2, VersionFrame
<1>4. SessionInv'
    BY NoneFacts
       DEF IndInv, TypeOK, ControlInv, SessionInv, NoSessionLost
<1>5. PresentInv'
    BY NoneFacts
       DEF IndInv, TypeOK, ControlInv, SessionInv, NoSessionLost, PresentInv, ClientPresent
<1>6. MixInv'
    <2>1. \A u \in Thread : cred'[u] \in {cred[u], None}
        BY DEF IndInv, TypeOK
    <2>2. MixInv /\ UNCHANGED <<source, log, conn, virtualCenter>>
        BY DEF IndInv
    <2> QED
        BY ONLY <2>1, <2>2, MixFrame
<1>7. CacheFollowsSecret'
    <2>1. \A u \in Thread : pc[u] = "parse" => pc'[u] = "parse"
        BY DEF IndInv, TypeOK
    <2>2. CacheFollowsSecret /\ UNCHANGED <<cacheSecret, virtualCenter>>
        BY DEF IndInv
    <2> QED
        BY ONLY <2>1, <2>2, CacheFrame
<1>8. RotationInv'
    BY NoneFacts
       DEF IndInv, TypeOK, ControlInv, RotationInv, Carried, Good, Entries, SecretAt
<1> QED
    BY <1>1, <1>2, <1>3, <1>4, <1>5, <1>6, <1>7, <1>8 DEF IndInv

(* Expire preserves every part of the invariant. *)
LEMMA ExpireStep ==
    ASSUME IndInv, NEW s \in Server, Expire(s)
    PROVE  IndInv'
<1> USE DEF world, cache, locks, locals, Expire
<1>1. TypeOK'
    BY NoneFacts, HostAssumption
       DEF IndInv, TypeOK, ControlInv, Labels, Kinds, Locking, Revision
<1>2. ControlInv'
    BY NoneFacts
       DEF IndInv, TypeOK, ControlInv, Kinds, Locking
<1>3. VersionInv'
    <2>1. \A u \in Thread : got'[u] \in {got[u], None}
        BY DEF IndInv, TypeOK
    <2>2. VersionInv /\ UNCHANGED <<log, cacheSecret>>
        BY DEF IndInv
    <2> QED
        BY ONLY <2>1, <2>2, VersionFrame
<1>4. SessionInv'
    BY NoneFacts
       DEF IndInv, TypeOK, ControlInv, SessionInv, NoSessionLost
<1>5. PresentInv'
    BY NoneFacts
       DEF IndInv, TypeOK, ControlInv, SessionInv, NoSessionLost, PresentInv, ClientPresent
<1>6. MixInv'
    <2>1. \A u \in Thread : cred'[u] \in {cred[u], None}
        BY DEF IndInv, TypeOK
    <2>2. MixInv /\ UNCHANGED <<source, log, conn, virtualCenter>>
        BY DEF IndInv
    <2> QED
        BY ONLY <2>1, <2>2, MixFrame
<1>7. CacheFollowsSecret'
    <2>1. \A u \in Thread : pc[u] = "parse" => pc'[u] = "parse"
        BY DEF IndInv, TypeOK
    <2>2. CacheFollowsSecret /\ UNCHANGED <<cacheSecret, virtualCenter>>
        BY DEF IndInv
    <2> QED
        BY ONLY <2>1, <2>2, CacheFrame
<1>8. RotationInv'
    BY NoneFacts
       DEF IndInv, TypeOK, ControlInv, RotationInv, Carried, Good, Entries, SecretAt
<1> QED
    BY <1>1, <1>2, <1>3, <1>4, <1>5, <1>6, <1>7, <1>8 DEF IndInv

-----------------------------------------------------------------------------
(* The invariant holds initially. *)
LEMMA InitIndInv ==
    ASSUME Init
    PROVE  IndInv
<1> USE DEF Init
<1>1. TypeOK
    <2>1. Same(0) \in Credential /\ <<>> \in Seq(Contents) /\ Len(<<>>) = 0
        BY HostAssumption, EmptySeq DEF Same, Credential, Revision
    <2>2. 0 \in 0..0 /\ 0 <= MaxRevision
        BY HostAssumption
    <2> QED
        BY <2>1, <2>2 DEF TypeOK, Labels
<1>2. ControlInv
    BY NoneFacts DEF ControlInv
<1>3. VersionInv
    BY DEF VersionInv
<1>4. SessionInv
    BY DEF SessionInv, NoSessionLost
<1>5. PresentInv
    BY DEF PresentInv, ClientPresent
<1>6. MixInv
    BY DEF MixInv, Paired, Same, Field
<1>7. CacheFollowsSecret
    BY DEF CacheFollowsSecret
<1>8. RotationInv
    BY DEF RotationInv, Carried, Good
<1> QED
    BY <1>1, <1>2, <1>3, <1>4, <1>5, <1>6, <1>7, <1>8 DEF IndInv

(* A step that changes nothing changes nothing the invariant speaks of. *)
LEMMA StutterIndInv ==
    ASSUME IndInv, UNCHANGED vars
    PROVE  IndInv'
<1> USE DEF vars, world, cache, locks, locals
<1>1. TypeOK' BY DEF IndInv, TypeOK
<1>2. ControlInv' BY DEF IndInv, ControlInv
<1>3. VersionInv' BY DEF IndInv, VersionInv, SecretAt
<1>4. SessionInv' BY DEF IndInv, SessionInv, NoSessionLost
<1>5. PresentInv' BY DEF IndInv, PresentInv, ClientPresent
<1>6. MixInv' BY DEF IndInv, MixInv, AllWhole, Paired
<1>7. CacheFollowsSecret' BY DEF IndInv, CacheFollowsSecret
<1>8. RotationInv' BY DEF IndInv, RotationInv, Carried, Good, SecretAt
<1> QED
    BY <1>1, <1>2, <1>3, <1>4, <1>5, <1>6, <1>7, <1>8 DEF IndInv

(* The inductive invariant holds in every reachable state. *)
THEOREM ConnectionInvariance == Spec => []IndInv
<1>1. Init => IndInv
    BY InitIndInv
<1>2. IndInv /\ [Next]_vars => IndInv'
    <2> SUFFICES ASSUME IndInv, [Next]_vars PROVE IndInv'
        OBVIOUS
    <2>1. ASSUME NEW t \in Thread, NEW k \in Kinds, NEW s \in Server, Start(t, k, s)
          PROVE  IndInv'
        BY <2>1, StartStep
    <2>2. ASSUME NEW t \in Thread, Acquire(t) PROVE IndInv'
        BY <2>2, LockManagerStep, LogoutReadStep, EnterStep DEF Acquire
    <2>3. ASSUME NEW t \in Thread, Step(t) PROVE IndInv'
        BY <2>3, SessionValidStep, SessionEndedStep, SessionUnknownStep, LoginOKStep,
           NewClientFailsStep, LoginInvalidStep, GetSecretStep, CompareSecretStep,
           UpdateSecretStep, CheckDirectoryStep, ReadDirectoryStep,
           ReadDirectoryFailsStep, ParseSecretStep, GetCredentialStep,
           UpdateCredentialsStep, UseStep, NoVersionStep, VersionStep, LogoutStep,
           NilClientStep DEF Step
    <2>4. ASSUME Environment PROVE IndInv'
        BY <2>4, PublishStep, WithdrawStep, RotateStep, ExpireStep DEF Environment
    <2>5. CASE UNCHANGED vars
        BY <2>5, StutterIndInv
    <2> QED
        BY <2>1, <2>2, <2>3, <2>4, <2>5 DEF Next
<1> QED
    BY <1>1, <1>2, PTL DEF Spec

(* Connections, caches and goroutines keep their shape. *)
THEOREM ConnectionTypeCorrect == Spec => []TypeOK
BY ConnectionInvariance, PTL DEF IndInv

(* VSphereConnection.Connect never opens a session beside an open one. *)
THEOREM SessionsKept == Spec => []NoSessionLost
BY ConnectionInvariance, PTL DEF IndInv, SessionInv

(* A client can be missing where one is used only after a session ended. *)
THEOREM ClientsPresent == Spec => []ClientPresent
BY ConnectionInvariance, PTL DEF IndInv, PresentInv

(* The credential cache is the parsed secret whenever nobody parses it. *)
THEOREM CacheFollows == Spec => []CacheFollowsSecret
BY ConnectionInvariance, PTL DEF IndInv

(* Whole secrets never lead to a mixed user name and password. *)
THEOREM CredentialsNotMixed == Spec => []NeverMixed
<1>1. IndInv => NeverMixed
    BY NoneFacts DEF IndInv, TypeOK, MixInv, AllWhole, Paired, NeverMixed
<1> QED
    BY <1>1, ConnectionInvariance, PTL

(* A rotated secret reaches the second login of an undisturbed call. *)
THEOREM RotationReachesLogin == Spec => []RotationPickedUp
<1>1. IndInv => RotationPickedUp
    BY DEF IndInv, RotationInv, Carried, Good, RotationPickedUp, Accepts
<1> QED
    BY <1>1, ConnectionInvariance, PTL
=============================================================================
