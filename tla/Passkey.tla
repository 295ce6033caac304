------------------------------- MODULE Passkey -------------------------------
(***************************************************************************)
(* Passkey accounts (internal/passkey, internal/httpapi/passkeys.go): the  *)
(* ceremonies, the relation between an account, its credentials and its    *)
(* recovery code, and the deletion of an account in three steps.  A        *)
(* request reads, verifies and commits in separate steps; every commit is  *)
(* one transaction of FirestoreStore, or one critical section of           *)
(* MemoryStore.  A uid and its user handle are drawn together and stand    *)
(* for each other; a WebAuthn check succeeds or fails at will.             *)
(***************************************************************************)
EXTENDS Integers, FiniteSets

CONSTANTS
  Requests,            \* requests in flight
  Uids,                \* accounts
  Keys, Codes,         \* WebAuthn credentials and recovery codes, in the order they are made
  Ids,                 \* ceremony identifiers, each drawn once
  None,
  MaxCredentials,
  CeremonyTTL, Recent, MarkerTTL, RecoveryTTL,
  MaxTime              \* bound: the clock stops at MaxTime

Assumption ==
  /\ None \notin Uids \union Keys \union Codes \union Ids
  /\ IsFiniteSet(Uids) /\ IsFiniteSet(Ids) /\ Codes \intersect (Ids \union Uids) = {}
  /\ \A S \in {Keys, Codes} : IsFiniteSet(S) /\ S = 1..Cardinality(S)
  /\ MaxCredentials \in Nat \ {0} /\ MaxTime \in Nat
  /\ \A d \in {CeremonyTTL, Recent, MarkerTTL, RecoveryTTL} : d \in Nat \ {0}

ASSUME Assumption

VARIABLES
  backend,     \* which store the server was started with
  clock,
  ceremony,    \* id -> ceremony, or Absent
  user,        \* uid -> its credentials and the time of its last change
  index,       \* key -> the credential document, or Absent
  handle,      \* the uids whose handle is reserved
  recovery,    \* uid -> its recovery code, or Absent
  codeIndex,   \* code -> the account it recovers, or Absent
  marker,      \* uid -> when its deletion marker expires, or Absent
  forgotten,   \* uids whose long-term memory was disabled and deleted
  request,     \* what each request is doing
  drawn,       \* history: identifiers, uids and codes already drawn
  added,       \* history: the credentials created, with their warrant
  proved       \* history: the assertions a token was minted for

docs == <<user, index, handle, recovery, codeIndex, marker>>
history == <<drawn, added, proved>>
vars == <<backend, clock, ceremony, docs, forgotten, request, history>>

Times == 0..MaxTime
Later == 0..(MaxTime + CeremonyTTL + MarkerTTL + RecoveryTTL)
Uses == {"registration", "addition", "recovery", "authentication"}
Absent == [absent |-> TRUE]
Present(f) == {x \in DOMAIN f : f[x] # Absent}

Ceremonies == [use : Uses, uid : Uids \union {None}, code : Codes \union {None},
               expires : Later]
Users == [keys : SUBSET Keys, updated : Times]
Documents == [uid : Uids, version : Nat \ {0}, updated : Times]
RecoveryCodes == [code : Codes, issued : Times, expires : Later]
CodeEntries == [uid : Uids, issued : Times, expires : Later]

Idle == [pc |-> "idle", use |-> "none", uid |-> None, key |-> None, id |-> None, code |-> None,
         version |-> 0, since |-> 0]

Steps == {"idle", "load", "create", "find", "assert", "update", "revoke", "issue",
          "clean", "data", "auth"}
Locals == [pc : Steps, use : Uses \union {"none"}, uid : Uids \union {None}, key : Keys \union {None},
           id : Ids \union {None}, code : Codes \union {None}, version : Nat, since : Times]

TypeOK ==
  /\ backend \in {"firestore", "memory"} /\ clock \in Times
  /\ ceremony \in [Ids -> Ceremonies \union {Absent}]
  /\ user \in [Uids -> Users \union {Absent}]
  /\ index \in [Keys -> Documents \union {Absent}]
  /\ handle \subseteq Uids /\ forgotten \subseteq Uids
  /\ recovery \in [Uids -> RecoveryCodes \union {Absent}]
  /\ codeIndex \in [Codes -> CodeEntries \union {Absent}]
  /\ marker \in [Uids -> [expires : Later] \union {Absent}]
  /\ request \in [Requests -> Locals]
  /\ drawn \subseteq Ids \union Uids \union Codes
  /\ added \subseteq [id : Ids, uid : Uids, key : Keys, code : Codes \union {None},
                      buried : BOOLEAN]
  /\ proved \subseteq [uid : Uids, key : Keys \union {None}, version : Nat, at : Times]
-----------------------------------------------------------------------------
Init ==
  /\ backend \in {"firestore", "memory"} /\ clock = 0
  /\ ceremony = [i \in Ids |-> Absent]
  /\ user = [u \in Uids |-> Absent] /\ index = [k \in Keys |-> Absent] /\ handle = {}
  /\ recovery = [u \in Uids |-> Absent] /\ codeIndex = [c \in Codes |-> Absent]
  /\ marker = [u \in Uids |-> Absent] /\ forgotten = {}
  /\ request = [r \in Requests |-> Idle]
  /\ drawn = {} /\ added = {} /\ proved = {}

Durable == backend = "firestore"

Tick == /\ clock < MaxTime /\ clock' = clock + 1
        /\ UNCHANGED <<backend, ceremony, docs, forgotten, request, history>>

(* The end of a request, by success or by an error.                        *)
Ends(r) == request' = [request EXCEPT ![r] = Idle]

(* A cancelled request, a rolled back transaction, a failed verification.  *)
Fails(r) == /\ request[r] # Idle /\ Ends(r)
            /\ UNCHANGED <<backend, clock, ceremony, docs, forgotten, history>>

Goes(r, local) == /\ request[r] = Idle /\ request' = [request EXCEPT ![r] = local]
                  /\ UNCHANGED <<backend, clock, ceremony, docs, forgotten, history>>

(* The clock is read between the last step of the request and its commit.  *)
Sampled(r) == request[r].since .. clock

(* A token carries the second of its passkey verification.                 *)
FreshPrincipal(u) == \E p \in proved : p.uid = u /\ clock - p.at <= Recent
-----------------------------------------------------------------------------
(* The complete relation between an account and its credential documents,  *)
(* which every transaction that changes the account validates first.       *)
ValidDocument(u, k) ==
  /\ index[k] # Absent /\ index[k].uid = u
  /\ index[k].updated <= user[u].updated

ValidFirestore(u, at) ==
  /\ user[u].keys # {} /\ Cardinality(user[u].keys) <= MaxCredentials
  /\ \A k \in user[u].keys : ValidDocument(u, k) /\ index[k].updated <= at

ValidMemory(u, at) ==
  /\ user[u].keys # {} /\ Cardinality(user[u].keys) <= MaxCredentials
  /\ \A k \in user[u].keys : index[k] # Absent /\ index[k].uid = u /\ index[k].updated <= at

Valid(u, at) == IF Durable THEN ValidFirestore(u, at) ELSE ValidMemory(u, at)

(* Transactions that also move the account's own time forward.             *)
Progresses(u, at) == Durable => user[u].updated <= at

(* An account-side record and its index name each other.                   *)
Linked(u) ==
  LET c == recovery[u].code IN
  /\ codeIndex[c] # Absent
  /\ codeIndex[c] = [uid |-> u, issued |-> recovery[u].issued, expires |-> recovery[u].expires]
-----------------------------------------------------------------------------
Put(i, use, u, c) ==
  /\ i \notin drawn
  /\ ceremony' = [ceremony EXCEPT ![i] = [use |-> use, uid |-> u, code |-> c,
                                          expires |-> clock + CeremonyTTL]]
  /\ UNCHANGED <<backend, clock, docs, forgotten, request, added, proved>>

(* A new account is drawn with the ceremony that will create it.           *)
BeginRegistration(i, u) ==
  /\ u \notin drawn
  /\ Put(i, "registration", u, None) /\ drawn' = drawn \union {i, u}

BeginAuthentication(i) ==
  Put(i, "authentication", None, None) /\ drawn' = drawn \union {i}

BeginCredentialRegistration(i, u) ==
  /\ FreshPrincipal(u)
  /\ user[u] # Absent /\ Cardinality(user[u].keys) \in 1..(MaxCredentials - 1)
  /\ Put(i, "addition", u, None) /\ drawn' = drawn \union {i}

LoadRecoveryFirestore(c) ==
  LET u == codeIndex[c].uid IN
  /\ codeIndex[c] # Absent /\ clock < codeIndex[c].expires
  /\ recovery[u] # Absent /\ recovery[u].code = c /\ Linked(u)
  /\ marker[u] = Absent /\ user[u] # Absent /\ ValidFirestore(u, clock)

LoadRecoveryMemory(c) ==
  LET u == codeIndex[c].uid IN
  /\ codeIndex[c] # Absent
  /\ recovery[u] # Absent /\ recovery[u].code = c /\ clock < recovery[u].expires
  /\ user[u] # Absent /\ ValidMemory(u, clock)

(* Beginning a recovery leaves its code as it is.                          *)
BeginRecoveryRegistration(i, c) ==
  /\ IF Durable THEN LoadRecoveryFirestore(c) ELSE LoadRecoveryMemory(c)
  /\ Cardinality(user[codeIndex[c].uid].keys) < MaxCredentials
  /\ Put(i, "recovery", codeIndex[c].uid, c) /\ drawn' = drawn \union {i}

(* Firestore's TTL policy removes what has expired, each document alone.   *)
Expire ==
  /\ Durable
  /\ \/ \E i \in Present(ceremony) :
          /\ ceremony[i].expires <= clock /\ ceremony' = [ceremony EXCEPT ![i] = Absent]
          /\ UNCHANGED docs
     \/ \E c \in Present(codeIndex) :
          /\ codeIndex[c].expires <= clock /\ codeIndex' = [codeIndex EXCEPT ![c] = Absent]
          /\ UNCHANGED <<ceremony, user, index, handle, recovery, marker>>
     \/ \E u \in Present(recovery) :
          /\ recovery[u].expires <= clock /\ recovery' = [recovery EXCEPT ![u] = Absent]
          /\ UNCHANGED <<ceremony, user, index, handle, codeIndex, marker>>
     \/ \E u \in Present(marker) :
          /\ marker[u].expires <= clock /\ marker' = [marker EXCEPT ![u] = Absent]
          /\ UNCHANGED <<ceremony, user, index, handle, recovery, codeIndex>>
  /\ UNCHANGED <<backend, clock, forgotten, request, history>>
-----------------------------------------------------------------------------
(* Mutant: a valid ceremony stays until its request has finished.          *)
KeepsCeremony(i) == ceremony

Without(i) == [ceremony EXCEPT ![i] = Absent]

(* Whatever is presented is deleted; only a match in time goes on.         *)
Consume(r, i, uses, u, next) ==
  /\ request[r] = Idle /\ ceremony[i] # Absent
  /\ ceremony' = Without(i)
  /\ LET c == ceremony[i]
         ok == c.use \in uses /\ clock < c.expires /\ (u # None => u = c.uid)
     IN request' = IF ok THEN [request EXCEPT ![r] = [Idle EXCEPT
                                 !.pc = next, !.use = c.use, !.uid = c.uid, !.id = i, !.code = c.code,
                                 !.since = clock]]
                         ELSE request
  /\ UNCHANGED <<backend, clock, docs, forgotten, history>>

ConsumeRegistration(r, i) == Consume(r, i, {"registration", "recovery"}, None, "load")

ConsumeAddition(r, i, u) ==
  FreshPrincipal(u) /\ Consume(r, i, {"addition"}, u, "load")

ConsumeAuthentication(r, i) == Consume(r, i, {"authentication"}, None, "find")

Room(u) == Cardinality(user[u].keys) < MaxCredentials

LoadByHandleFirestore(u) == u \in handle /\ user[u] # Absent /\ user[u].keys # {} /\ Room(u)
LoadByHandleMemory(u, at) == user[u] # Absent /\ ValidMemory(u, at)

LoadByUID(u) == user[u] # Absent /\ user[u].keys # {} /\ Room(u)

(* registrationUser, and the first half of an addition: the account is     *)
(* read here and used after the authenticator's answer was verified.       *)
LoadUser(r) ==
  LET l == request[r] IN
  /\ l.pc = "load"
  /\ l.use = "recovery" =>
       IF Durable THEN LoadByHandleFirestore(l.uid) ELSE LoadByHandleMemory(l.uid, clock)
  /\ l.use = "addition" => LoadByUID(l.uid)
  /\ request' = [request EXCEPT ![r].pc = "create", ![r].since = clock]
  /\ UNCHANGED <<backend, clock, ceremony, docs, forgotten, history>>
-----------------------------------------------------------------------------
CreatesFirestore(u, k, at) ==
  /\ index[k] = Absent
  /\ user[u] # Absent => ValidFirestore(u, at) /\ Progresses(u, at) /\ k \notin user[u].keys

CreatesMemory(u, k, at) ==
  /\ index[k] = Absent
  /\ user[u] # Absent => ValidMemory(u, at)

Creates(u, k, at) ==
  /\ IF Durable THEN CreatesFirestore(u, k, at) ELSE CreatesMemory(u, k, at)
  /\ user[u] # Absent => Room(u)

(* Mutant: the code is looked up when the ceremony begins, and only then.  *)
SpendsUnchecked(u, c, at) == TRUE

SpendsFirestore(u, c, at) ==
  /\ user[u] # Absent
  /\ recovery[u] # Absent /\ codeIndex[c] # Absent
  /\ Linked(u) /\ recovery[u].code = c /\ at < recovery[u].expires

SpendsMemory(u, c, at) ==
  /\ recovery[u] # Absent /\ codeIndex[c] # Absent /\ codeIndex[c].uid = u
  /\ recovery[u].code = c /\ at < recovery[u].expires

Spends(u, c, at) == IF Durable THEN SpendsFirestore(u, c, at) ELSE SpendsMemory(u, c, at)

(* Set of the account, of its handle when it is new, and of the document.  *)
Stored(u, k, at) ==
  /\ user' = [user EXCEPT ![u] =
       [keys |-> IF user[u] = Absent THEN {k} ELSE user[u].keys \union {k}, updated |-> at]]
  /\ handle' = handle \union {u}
  /\ index' = [index EXCEPT ![k] = [uid |-> u, version |-> 1, updated |-> at]]

Dropped(u, c) == /\ recovery' = [recovery EXCEPT ![u] = Absent]
                 /\ codeIndex' = [codeIndex EXCEPT ![c] = Absent]

(* The commit of a registration, an addition or a recovery, of a           *)
(* credential the authenticator has just made.  A sign-in token follows,   *)
(* except for an addition; it may fail to be minted.                       *)
CreateCredential(r, k, at) ==
  LET l == request[r] IN
  /\ l.pc = "create" /\ at \in Sampled(r) /\ k = Cardinality(added) + 1
  /\ Creates(l.uid, k, at)
  /\ l.code # None => Spends(l.uid, l.code, at)
  /\ Stored(l.uid, k, at)
  /\ IF l.code = None THEN UNCHANGED <<recovery, codeIndex>> ELSE Dropped(l.uid, l.code)
  /\ added' = added \union {[id |-> l.id, uid |-> l.uid, key |-> k, code |-> l.code,
                             buried |-> marker[l.uid] # Absent]}
  /\ \/ UNCHANGED proved
     \/ /\ l.use # "addition"
        /\ proved' = proved \union {[uid |-> l.uid, key |-> None, version |-> 0, at |-> at]}
  /\ Ends(r)
  /\ UNCHANGED <<backend, clock, ceremony, marker, forgotten, drawn>>
-----------------------------------------------------------------------------
(* FindCredential reads the credential's document, then the account.       *)
FindCredential(r, k) ==
  /\ request[r].pc = "find" /\ index[k] # Absent
  /\ request' = [request EXCEPT ![r].pc = "assert", ![r].key = k,
                   ![r].uid = index[k].uid, ![r].version = index[k].version]
  /\ UNCHANGED <<backend, clock, ceremony, docs, forgotten, history>>

VerifyAssertion(r) ==
  LET l == request[r] IN
  /\ l.pc = "assert" /\ user[l.uid] # Absent /\ l.key \in user[l.uid].keys
  /\ request' = [request EXCEPT ![r].pc = "update", ![r].since = clock]
  /\ UNCHANGED <<backend, clock, ceremony, docs, forgotten, history>>

(* Mutant: the counter is written without comparing the version.           *)
UpdatesAnyVersion(u, k, version, at) ==
  /\ index[k] # Absent /\ index[k].uid = u /\ user[u] # Absent /\ k \in user[u].keys
  /\ Valid(u, at) /\ Progresses(u, at)

UpdatesFirestore(u, k, version, at) ==
  /\ index[k] # Absent /\ index[k].uid = u /\ user[u] # Absent /\ k \in user[u].keys
  /\ ValidFirestore(u, at) /\ Progresses(u, at) /\ index[k].version = version

UpdatesMemory(u, k, version, at) ==
  /\ index[k] # Absent /\ index[k].version = version /\ index[k].uid = u
  /\ user[u] # Absent /\ ValidMemory(u, at) /\ k \in user[u].keys

Updates(u, k, version, at) ==
  IF Durable THEN UpdatesFirestore(u, k, version, at) ELSE UpdatesMemory(u, k, version, at)

UpdateCredential(r, at) ==
  LET l == request[r] IN
  /\ l.pc = "update" /\ at \in Sampled(r)
  /\ Updates(l.uid, l.key, l.version, at)
  /\ user' = [user EXCEPT ![l.uid].updated = at]
  /\ index' = [index EXCEPT ![l.key].version = @ + 1, ![l.key].updated = at]
  /\ proved' = proved \union {[uid |-> l.uid, key |-> l.key, version |-> l.version, at |-> at]}
  /\ Ends(r)
  /\ UNCHANGED <<backend, clock, ceremony, handle, recovery, codeIndex, marker, forgotten,
                 drawn, added>>
-----------------------------------------------------------------------------
Manages(r, pc, u, k) ==
  /\ FreshPrincipal(u)
  /\ Goes(r, [Idle EXCEPT !.pc = pc, !.uid = u, !.key = k, !.since = clock])

(* An identifier that was never a credential is like a revoked one.       *)
RevokeRequest(r, u, k) == Manages(r, "revoke", u, k)
(* Bound: no code is asked for when all of them are drawn.                 *)
IssueRequest(r, u) == ~(Codes \subseteq drawn) /\ Manages(r, "issue", u, None)
DeleteRequest(r, u) == Manages(r, "clean", u, None)

(* Mutant: the last credential is guarded by what the caller listed.       *)
RevokesLast(u, k, at) == user[u] # Absent /\ k \in user[u].keys /\ Valid(u, at)

RevokesFirestore(u, k, at) ==
  /\ user[u] # Absent /\ k \in user[u].keys /\ ValidFirestore(u, at)
  /\ Progresses(u, at) /\ Cardinality(user[u].keys) > 1

RevokesMemory(u, k, at) ==
  /\ user[u] # Absent /\ ValidMemory(u, at) /\ k \in user[u].keys
  /\ Cardinality(user[u].keys) > 1

Revokes(u, k, at) == IF Durable THEN RevokesFirestore(u, k, at) ELSE RevokesMemory(u, k, at)

RevokeCredential(r) ==
  LET l == request[r] IN
  /\ l.pc = "revoke" /\ Revokes(l.uid, l.key, l.since)
  /\ user' = [user EXCEPT ![l.uid] = [keys |-> @.keys \ {l.key}, updated |-> l.since]]
  /\ index' = [index EXCEPT ![l.key] = Absent]
  /\ Ends(r)
  /\ UNCHANGED <<backend, clock, ceremony, handle, recovery, codeIndex, marker, forgotten, history>>

ReplacesFirestore(u, c, at) ==
  /\ marker[u] = Absent /\ user[u] # Absent /\ ValidFirestore(u, at)
  /\ codeIndex[c] = Absent
  /\ recovery[u] # Absent =>
       Linked(u) \/ (codeIndex[recovery[u].code] = Absent /\ recovery[u].expires <= at)

ReplacesMemory(u, c, at) == user[u] # Absent /\ ValidMemory(u, at)

Replaces(u, c, at) == IF Durable THEN ReplacesFirestore(u, c, at) ELSE ReplacesMemory(u, c, at)

(* A new code takes the place of the old one in both documents.            *)
ReplaceRecoveryCode(r, c) ==
  LET u   == request[r].uid
      at  == request[r].since
      old == IF recovery[u] = Absent THEN None ELSE recovery[u].code
  IN /\ request[r].pc = "issue" /\ c = Cardinality(drawn \intersect Codes) + 1 /\ Replaces(u, c, at)
     /\ recovery' = [recovery EXCEPT ![u] =
          [code |-> c, issued |-> at, expires |-> at + RecoveryTTL]]
     /\ codeIndex' = [k \in Codes |->
          IF k = c THEN [uid |-> u, issued |-> at, expires |-> at + RecoveryTTL]
          ELSE IF k = old THEN Absent ELSE codeIndex[k]]
     /\ drawn' = drawn \union {c} /\ Ends(r)
     /\ UNCHANGED <<backend, clock, ceremony, user, index, handle, marker, forgotten, added, proved>>
-----------------------------------------------------------------------------
(* DeleteAccount: the conversation memory, the passkey documents, and the  *)
(* Firebase account, in this order; a failure leaves the rest for a retry. *)
CleanMemory(r) ==
  /\ request[r].pc = "clean"
  /\ forgotten' = forgotten \union {request[r].uid}
  /\ request' = [request EXCEPT ![r].pc = "data"]
  /\ UNCHANGED <<backend, clock, ceremony, docs, history>>

Marked(u, at) == marker[u] # Absent /\ (Durable => at < marker[u].expires)

DeletesFirestore(u, at) ==
  /\ marker[u] = Absent /\ user[u] # Absent /\ ValidFirestore(u, at)
  /\ recovery[u] # Absent =>
       Linked(u) \/ (codeIndex[recovery[u].code] = Absent /\ recovery[u].expires <= at)

DeletesMemory(u, at) == marker[u] = Absent /\ user[u] # Absent /\ ValidMemory(u, at)

Deletes(u, at) == IF Durable THEN DeletesFirestore(u, at) ELSE DeletesMemory(u, at)

(* Mutant: the deletion forgets the recovery code's own document.          *)
KeepsCodeIndex(u) == codeIndex

WithoutCodeOf(u) ==
  [c \in Codes |-> IF recovery[u] # Absent /\ c = recovery[u].code THEN Absent ELSE codeIndex[c]]

DeleteAccountData(r, at) ==
  LET u == request[r].uid IN
  /\ request[r].pc = "data" /\ at \in Sampled(r)
  /\ \/ Marked(u, at) /\ UNCHANGED docs
     \/ /\ Deletes(u, at)
        /\ codeIndex' = WithoutCodeOf(u) /\ recovery' = [recovery EXCEPT ![u] = Absent]
        /\ index' = [k \in Keys |-> IF k \in user[u].keys THEN Absent ELSE index[k]]
        /\ handle' = handle \ {u} /\ user' = [user EXCEPT ![u] = Absent]
        /\ marker' = [marker EXCEPT ![u] = [expires |-> at + MarkerTTL]]
  /\ request' = [request EXCEPT ![r].pc = "auth"]
  /\ UNCHANGED <<backend, clock, ceremony, forgotten, history>>

(* Deleting a Firebase user that is gone is a success.                     *)
DeleteAuth(r) ==
  /\ request[r].pc = "auth" /\ Ends(r)
  /\ UNCHANGED <<backend, clock, ceremony, docs, forgotten, history>>
-----------------------------------------------------------------------------
Begins ==
  \/ \E i \in Ids, u \in Uids : BeginRegistration(i, u) \/ BeginCredentialRegistration(i, u)
  \/ \E i \in Ids, c \in Codes : BeginRecoveryRegistration(i, c)
  \/ \E i \in Ids : BeginAuthentication(i)

Finishes(r) ==
  \/ \E i \in Ids : ConsumeRegistration(r, i) \/ ConsumeAuthentication(r, i)
  \/ \E i \in Ids, u \in Uids : ConsumeAddition(r, i, u)
  \/ LoadUser(r) \/ VerifyAssertion(r)
  \/ \E k \in Keys : FindCredential(r, k)
  \/ \E k \in Keys, at \in Times : CreateCredential(r, k, at)
  \/ \E at \in Times : UpdateCredential(r, at)

Management(r) ==
  \/ \E u \in Uids : IssueRequest(r, u) \/ DeleteRequest(r, u)
  \/ \E u \in Uids, k \in {a.key : a \in added} : RevokeRequest(r, u, k)
  \/ RevokeCredential(r) \/ \E c \in Codes : ReplaceRecoveryCode(r, c)
  \/ CleanMemory(r) \/ DeleteAuth(r) \/ \E at \in Times : DeleteAccountData(r, at)

Next == Tick \/ Expire \/ Begins
        \/ \E r \in Requests : Finishes(r) \/ Management(r) \/ Fails(r)

Spec == Init /\ [][Next]_vars
-----------------------------------------------------------------------------
(* Every account has at least one credential and a reserved handle, and    *)
(* exactly the documents that name it; a code's document and the account's *)
(* record agree until one of them expires.  Two revocations, a creation    *)
(* beside a deletion, or a replaced code could leave one side behind:      *)
(* credential documents without an account cannot be listed or revoked.    *)
RelationWhole ==
  /\ \A u \in Present(user) : user[u].keys # {} /\ u \in handle
  /\ \A u \in Present(user) : \A k \in user[u].keys : ValidDocument(u, k)
  /\ \A k \in Present(index) : user[index[k].uid] # Absent /\ k \in user[index[k].uid].keys
  /\ \A c \in Present(codeIndex) :
       LET u == codeIndex[c].uid IN
       codeIndex[c].expires > clock => recovery[u] # Absent /\ recovery[u].code = c

(* A ceremony creates at most one credential, whoever finishes it and      *)
(* however often its answer is sent again; so does a recovery code, though *)
(* several ceremonies may have begun with it.                              *)
WarrantOnce ==
  \A a, b \in added : a # b => a.id # b.id /\ (a.code = None \/ a.code # b.code)

(* Of two assertions that read the same version of a credential one is     *)
(* refused: its signature counter may be behind.                           *)
VersionOnce ==
  \A p, q \in proved : p.key # None /\ p.key = q.key /\ p.version = q.version => p = q

(* What may be used once is used once: a ceremony or a code for one        *)
(* credential, a version of a credential for one assertion.                *)
SpentOnce == WarrantOnce /\ VersionOnce

(* docs/passkey-credential-lifecycle.md: a deletion whose last step failed *)
(* is retried "without recreating or trusting deleted credential state".   *)
DeletedStaysDeleted == \A a \in added : ~a.buried
=============================================================================
