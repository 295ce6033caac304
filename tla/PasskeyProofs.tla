--------------------------- MODULE PasskeyProofs ----------------------------
(***************************************************************************)
(* The documents of the passkey accounts, for any number of requests,      *)
(* accounts, credentials and recovery codes: an account, its credentials   *)
(* and its code stay one whole, and a ceremony, a code and a version of a  *)
(* credential are spent once.  The transactions read and write several     *)
(* documents that other requests, a deletion and the expiry policy write   *)
(* as well: the inductive invariant says what a request may rely on        *)
(* between its read and its commit.                                        *)
(***************************************************************************)
EXTENDS Passkey, FiniteSetTheorems, TLAPS

-----------------------------------------------------------------------------
(* The relation between the documents, with what the code needs besides:   *)
(* an unexpired code's document names the record of its account, and both  *)
(* expire together.                                                        *)
AccountsWhole ==
  /\ \A u \in Uids : user[u] # Absent =>
       /\ user[u].keys # {} /\ u \in handle
       /\ \A k \in user[u].keys : ValidDocument(u, k)
  /\ \A k \in Keys : index[k] # Absent =>
       user[index[k].uid] # Absent /\ k \in user[index[k].uid].keys

CodesWhole ==
  \A c \in Codes : codeIndex[c] # Absent /\ codeIndex[c].expires > clock =>
    LET u == codeIndex[c].uid IN
    recovery[u] # Absent /\ recovery[u].code = c /\ recovery[u].expires = codeIndex[c].expires

(* What a request has read is an account's, a credential's, a ceremony's.  *)
Read ==
  /\ \A i \in Ids : ceremony[i] # Absent /\ ceremony[i].use # "authentication" =>
       ceremony[i].uid \in Uids
  /\ \A r \in Requests :
       /\ request[r].pc \notin {"idle", "find"} => request[r].uid \in Uids
       /\ request[r].pc \in {"assert", "update", "revoke"} => request[r].key \in Keys
       /\ request[r].pc \in {"load", "create"} => request[r].id \in Ids

(* An identifier is in its ceremony, in one request, or used up.           *)
Held(r, i) == request[r].id = i
Used(i) == \E a \in added : a.id = i

InOnePlace ==
  /\ \A i \in Ids : ceremony[i] # Absent =>
       i \in drawn /\ ~Used(i) /\ \A r \in Requests : ~Held(r, i)
  /\ \A r \in Requests, i \in Ids : Held(r, i) =>
       i \in drawn /\ ~Used(i) /\ \A s \in Requests : Held(s, i) => s = r
  /\ \A a \in added : a.id \in drawn

(* Codes are drawn in order, and one that was spent is gone.               *)
CodesSpent ==
  /\ \E n \in Nat : drawn \intersect Codes = 1..n
  /\ \A c \in Codes : codeIndex[c] # Absent => c \in drawn
  /\ \A a \in added : a.code # None => a.code \in drawn /\ codeIndex[a.code] = Absent

(* Credentials are made in order, and the version an assertion was         *)
(* accepted for is behind the document.                                    *)
VersionsPass ==
  /\ IsFiniteSet(added) /\ \A a \in added : a.key <= Cardinality(added)
  /\ \A k \in Keys : index[k] # Absent => k <= Cardinality(added)
  /\ \A p \in proved : p.key # None =>
       /\ p.key <= Cardinality(added)
       /\ index[p.key] # Absent => p.version < index[p.key].version

AccountInv ==
  /\ TypeOK /\ AccountsWhole /\ CodesWhole /\ Read /\ InOnePlace /\ CodesSpent /\ VersionsPass
  /\ WarrantOnce /\ VersionOnce

-----------------------------------------------------------------------------
(* What is assumed of the constants, in the form the proofs use.           *)
LEMMA Kinds ==
  /\ Keys \subseteq Nat \ {0} /\ Codes \subseteq Nat \ {0} /\ IsFiniteSet(Keys)
  /\ None \notin Uids /\ None \notin Keys /\ None \notin Codes /\ None \notin Ids
  /\ MaxTime \in Nat /\ MaxCredentials \in Nat \ {0}
  /\ CeremonyTTL \in Nat \ {0} /\ Recent \in Nat \ {0} /\ MarkerTTL \in Nat \ {0}
  /\ RecoveryTTL \in Nat \ {0} /\ Codes \intersect (Ids \union Uids) = {}
<1>1. ASSUME NEW S \in {Keys, Codes}  PROVE S \subseteq Nat \ {0} /\ IsFiniteSet(S)
  <2>1. S = 1..Cardinality(S) /\ IsFiniteSet(S)  BY Assumption DEF Assumption
  <2>2. Cardinality(S) \in Nat  BY <2>1, FS_CardinalityType
  <2> QED  BY <2>1, <2>2
<1>2. \A d \in {CeremonyTTL, Recent, MarkerTTL, RecoveryTTL} : d \in Nat \ {0}
  BY Assumption DEF Assumption
<1> QED  BY <1>1, <1>2, Assumption DEF Assumption

(* A document is not the absence of one.                                   *)
LEMMA Documented ==
  /\ \A x \in Users : x # Absent
  /\ \A x \in Documents : x # Absent
  /\ \A x \in RecoveryCodes : x # Absent
  /\ \A x \in CodeEntries : x # Absent
  /\ \A x \in Ceremonies : x # Absent
  /\ \A x \in [expires : Later] : x # Absent
<1>1. DOMAIN Absent = {"absent"}  BY DEF Absent
<1>2. \A x \in Users : DOMAIN x = {"keys", "updated"}  BY DEF Users
<1>3. \A x \in Documents : DOMAIN x = {"uid", "version", "updated"}  BY DEF Documents
<1>4. \A x \in RecoveryCodes : DOMAIN x = {"code", "issued", "expires"}  BY DEF RecoveryCodes
<1>5. \A x \in CodeEntries : DOMAIN x = {"uid", "issued", "expires"}  BY DEF CodeEntries
<1>6. \A x \in Ceremonies : DOMAIN x = {"use", "uid", "code", "expires"}  BY DEF Ceremonies
<1>7. \A x \in [expires : Later] : DOMAIN x = {"expires"}  OBVIOUS
<1> QED  BY <1>1, <1>2, <1>3, <1>4, <1>5, <1>6, <1>7

(* What a request may hold: whom its step is about, what it verified.      *)
Sound(l) ==
  /\ l.pc \notin {"idle", "find"} => l.uid \in Uids
  /\ l.pc \in {"assert", "update", "revoke"} => l.key \in Keys
  /\ l.pc \in {"load", "create"} => l.id \in Ids

(* A request that is over holds nothing.                                   *)
LEMMA IdleSound == Idle \in Locals /\ Sound(Idle) /\ Idle.id = None /\ Idle.pc = "idle"
BY Kinds DEF Idle, Locals, Sound, Steps, Uses, Times

(* Steps that leave the documents, or the ceremonies, or the history.      *)
LEMMA DocsRest ==
  ASSUME AccountsWhole, CodesWhole, UNCHANGED <<docs, clock>>
  PROVE  AccountsWhole' /\ CodesWhole'
BY DEF AccountsWhole, CodesWhole, ValidDocument, docs

(* What has been spent is as it was.                                       *)
LEMMA HistoryRests ==
  ASSUME CodesSpent, VersionsPass, WarrantOnce, VersionOnce, UNCHANGED <<history, index, codeIndex>>
  PROVE  CodesSpent' /\ VersionsPass' /\ WarrantOnce' /\ VersionOnce'
BY DEF CodesSpent, VersionsPass, WarrantOnce, VersionOnce, history

(* A request that goes on or ends, with its own identifier or none.        *)
LEMMA RequestMoves ==
  ASSUME TypeOK, Read, InOnePlace, NEW r \in Requests, NEW l \in Locals, Sound(l),
         l.id \in {request[r].id, None},
         request' = [request EXCEPT ![r] = l], UNCHANGED <<ceremony, drawn, added>>
  PROVE  request' \in [Requests -> Locals] /\ Read' /\ InOnePlace'
<1>1. /\ request' \in [Requests -> Locals] /\ request'[r] = l
      /\ \A s \in Requests : s # r => request'[s] = request[s]
  BY DEF TypeOK
<1>2. Read'  BY <1>1 DEF Read, Sound
<1>3. \A s \in Requests, i \in Ids : Held(s, i)' => Held(s, i)
  BY <1>1, Kinds DEF Held
<1>4. \A i \in Ids : Used(i)' <=> Used(i)  BY DEF Used
<1> QED  BY <1>1, <1>2, <1>3, <1>4 DEF InOnePlace

(* A request goes on and touches no document.                              *)
LEMMA RequestTurns ==
  ASSUME AccountInv, NEW r \in Requests, NEW l \in Locals, Sound(l),
         l.id \in {request[r].id, None},
         request' = [request EXCEPT ![r] = l], forgotten' \subseteq Uids,
         UNCHANGED <<backend, clock, ceremony, docs, history>>
  PROVE  AccountInv'
<1> USE DEF AccountInv
<1>1. request' \in [Requests -> Locals] /\ Read' /\ InOnePlace'
  BY RequestMoves DEF history
<1>2. TypeOK'  BY <1>1 DEF TypeOK, docs, history
<1>3. AccountsWhole' /\ CodesWhole'  BY DocsRest
<1>4. CodesSpent' /\ VersionsPass' /\ WarrantOnce' /\ VersionOnce'  BY HistoryRests DEF docs
<1> QED  BY <1>1, <1>2, <1>3, <1>4

(* A request that fails, and the deletion at the identity service, leave   *)
(* every document.                                                         *)
LEMMA RequestFails ==
  ASSUME AccountInv, NEW r \in Requests, Fails(r) \/ DeleteAuth(r)
  PROVE  AccountInv'
BY RequestTurns, IdleSound DEF Fails, DeleteAuth, Ends, AccountInv, TypeOK

(* The effect of a step of one request on its record.                      *)
LEMMA UserLoads ==
  ASSUME AccountInv, NEW r \in Requests, LoadUser(r)
  PROVE  AccountInv'
<1> DEFINE l == [request[r] EXCEPT !.pc = "create", !.since = clock]
<1>1. request[r] \in Locals /\ clock \in Times  BY DEF AccountInv, TypeOK
<1>2. l \in Locals /\ l.id = request[r].id /\ l.uid = request[r].uid /\ l.pc = "create"
  BY <1>1 DEF Locals, Steps
<1>3. request' = [request EXCEPT ![r] = l]
  BY DEF LoadUser, AccountInv, TypeOK
<1>4. Sound(l)  BY <1>2 DEF LoadUser, Sound, AccountInv, Read
<1> QED  BY <1>2, <1>3, <1>4, RequestTurns DEF LoadUser, AccountInv, TypeOK

(* The assertion is verified against the version that was read.            *)
LEMMA AssertionVerifies ==
  ASSUME AccountInv, NEW r \in Requests, VerifyAssertion(r)
  PROVE  AccountInv'
<1> DEFINE l == [request[r] EXCEPT !.pc = "update", !.since = clock]
<1>1. request[r] \in Locals /\ clock \in Times  BY DEF AccountInv, TypeOK
<1>2. /\ l \in Locals /\ l.id = request[r].id /\ l.uid = request[r].uid /\ l.pc = "update"
      /\ l.key = request[r].key
  BY <1>1 DEF Locals, Steps
<1>3. request' = [request EXCEPT ![r] = l]
  BY DEF VerifyAssertion, AccountInv, TypeOK
<1>4. Sound(l)  BY <1>2 DEF VerifyAssertion, Sound, AccountInv, Read
<1> QED  BY <1>2, <1>3, <1>4, RequestTurns DEF VerifyAssertion, AccountInv, TypeOK

(* The credential is found, with the version its document has now.         *)
LEMMA CredentialFound ==
  ASSUME AccountInv, NEW r \in Requests, NEW k \in Keys, FindCredential(r, k)
  PROVE  AccountInv'
<1> DEFINE l == [request[r] EXCEPT !.pc = "assert", !.key = k, !.uid = index[k].uid,
                                   !.version = index[k].version]
<1>1. request[r] \in Locals /\ index[k] \in Documents
  BY DEF AccountInv, TypeOK, FindCredential
<1>2. index[k].uid \in Uids /\ index[k].version \in Nat  BY <1>1 DEF Documents
<1>3. /\ l \in Locals /\ l.id = request[r].id /\ l.uid \in Uids /\ l.pc = "assert"
      /\ l.key = k
  BY <1>1, <1>2 DEF Locals, Steps
<1>4. request' = [request EXCEPT ![r] = l]
  BY DEF FindCredential, AccountInv, TypeOK
<1>5. Sound(l)  BY <1>3 DEF Sound
<1> QED  BY <1>3, <1>4, <1>5, RequestTurns DEF FindCredential, AccountInv, TypeOK

(* The account's memory is deleted.                                        *)
LEMMA MemoryCleans ==
  ASSUME AccountInv, NEW r \in Requests, CleanMemory(r)
  PROVE  AccountInv'
<1> DEFINE l == [request[r] EXCEPT !.pc = "data"]
<1>1. request[r] \in Locals  BY DEF AccountInv, TypeOK
<1>2. l \in Locals /\ l.id = request[r].id /\ l.uid = request[r].uid /\ l.pc = "data"
  BY <1>1 DEF Locals, Steps
<1>3. request' = [request EXCEPT ![r] = l]
  BY DEF CleanMemory, AccountInv, TypeOK
<1>4. request[r].uid \in Uids  BY DEF CleanMemory, AccountInv, Read
<1>5. Sound(l)  BY <1>2, <1>4 DEF Sound
<1>6. forgotten' \subseteq Uids  BY <1>4 DEF CleanMemory, AccountInv, TypeOK
<1> QED  BY <1>2, <1>3, <1>5, <1>6, RequestTurns DEF CleanMemory

(* A signed-in request to revoke, to replace the code or to delete begins. *)
LEMMA RequestManages ==
  ASSUME AccountInv, NEW r \in Requests, NEW pc \in {"revoke", "issue", "clean"},
         NEW u \in Uids, NEW k \in Keys \union {None}, pc = "revoke" => k \in Keys,
         Manages(r, pc, u, k)
  PROVE  AccountInv'
<1> DEFINE l == [Idle EXCEPT !.pc = pc, !.uid = u, !.key = k, !.since = clock]
<1>1. Idle \in Locals /\ clock \in Times /\ Idle.id = None
  BY IdleSound DEF AccountInv, TypeOK
<1>2. l \in Locals /\ l.id = None /\ l.uid = u /\ l.pc = pc /\ l.key = k
  BY <1>1 DEF Locals, Steps
<1>3. Sound(l)  BY <1>2 DEF Sound
<1> QED  BY <1>2, <1>3, RequestTurns DEF Manages, Goes, AccountInv, TypeOK

(* Time passes: what was expired stays expired.                            *)
LEMMA Ticks ==
  ASSUME AccountInv, Tick
  PROVE  AccountInv'
<1> USE DEF AccountInv, Tick
<1>1. TypeOK'
  <2>1. clock' \in Times  BY Kinds DEF TypeOK, Times
  <2> QED  BY <2>1 DEF TypeOK, docs, history
<1>2. AccountsWhole'  BY DEF AccountsWhole, ValidDocument, docs
<1>3. CodesWhole'
  <2>1. \A c \in Codes : codeIndex[c] # Absent => codeIndex[c].expires \in Int
    BY Kinds DEF TypeOK, CodeEntries, Later
  <2>2. clock \in Int  BY DEF TypeOK, Times
  <2> QED  BY <2>1, <2>2 DEF CodesWhole, docs
<1>4. Read' /\ InOnePlace'
  BY DEF Read, InOnePlace, Held, Used, history
<1>5. CodesSpent' /\ VersionsPass' /\ WarrantOnce' /\ VersionOnce'  BY HistoryRests DEF docs
<1> QED  BY <1>1, <1>2, <1>3, <1>4, <1>5

(* A ceremony is put under an identifier that is drawn for it.             *)
LEMMA CeremonyPut ==
  ASSUME AccountInv, NEW i \in Ids, NEW use \in Uses, NEW u \in Uids \union {None},
         NEW c \in Codes \union {None}, use # "authentication" => u \in Uids,
         Put(i, use, u, c), drawn \union {i} \subseteq drawn',
         drawn' \subseteq drawn \union {i} \union Uids
  PROVE  AccountInv'
<1> USE DEF AccountInv, Put
<1> DEFINE x == [use |-> use, uid |-> u, code |-> c, expires |-> clock + CeremonyTTL]
<1>1. x \in Ceremonies
  BY Kinds DEF TypeOK, Times, Later, Ceremonies
<1>2. /\ ceremony' \in [Ids -> Ceremonies \union {Absent}] /\ ceremony'[i] = x
      /\ \A j \in Ids : j # i => ceremony'[j] = ceremony[j]
  BY <1>1 DEF TypeOK
<1>3. TypeOK'
  BY <1>2 DEF TypeOK, docs
<1>4. AccountsWhole' /\ CodesWhole'  BY DocsRest
<1>5. Read'  BY <1>2 DEF Read
<1>6. InOnePlace'
  <2>1. i \notin drawn /\ drawn \subseteq drawn'  OBVIOUS
  <2>2. ~Used(i) /\ \A r \in Requests : ~Held(r, i)  BY <2>1 DEF InOnePlace, Used
  <2> QED  BY <2>1, <2>2, <1>2 DEF InOnePlace, Held, Used
<1>7. CodesSpent'
  <2>1. drawn' \intersect Codes = drawn \intersect Codes  BY Kinds
  <2> QED  BY <2>1 DEF CodesSpent, docs
<1>8. VersionsPass' /\ WarrantOnce' /\ VersionOnce'
  BY DEF VersionsPass, WarrantOnce, VersionOnce, docs
<1> QED  BY <1>3, <1>4, <1>5, <1>6, <1>7, <1>8

(* A ceremony of each kind begins.                                         *)
LEMMA Beginnings ==
  ASSUME AccountInv, Begins
  PROVE  AccountInv'
<1>1. ASSUME NEW i \in Ids, NEW u \in Uids, BeginRegistration(i, u)  PROVE AccountInv'
  <2>1. drawn' = drawn \union {i, u}  BY <1>1 DEF BeginRegistration
  <2> QED  BY <1>1, <2>1, CeremonyPut DEF BeginRegistration, Uses
<1>2. ASSUME NEW i \in Ids, NEW u \in Uids, BeginCredentialRegistration(i, u)  PROVE AccountInv'
  <2>1. drawn' = drawn \union {i}  BY <1>2 DEF BeginCredentialRegistration
  <2> QED  BY <1>2, <2>1, CeremonyPut DEF BeginCredentialRegistration, Uses
<1>3. ASSUME NEW i \in Ids, NEW c \in Codes, BeginRecoveryRegistration(i, c)  PROVE AccountInv'
  <2>1. drawn' = drawn \union {i}  BY <1>3 DEF BeginRecoveryRegistration
  <2>2. codeIndex[c] # Absent
    BY <1>3 DEF BeginRecoveryRegistration, LoadRecoveryFirestore, LoadRecoveryMemory
  <2>3. codeIndex[c].uid \in Uids  BY <2>2 DEF AccountInv, TypeOK, CodeEntries
  <2> QED  BY <1>3, <2>1, <2>3, CeremonyPut DEF BeginRecoveryRegistration, Uses
<1>4. ASSUME NEW i \in Ids, BeginAuthentication(i)  PROVE AccountInv'
  <2>1. drawn' = drawn \union {i}  BY <1>4 DEF BeginAuthentication
  <2> QED  BY <1>4, <2>1, CeremonyPut DEF BeginAuthentication, Uses
<1> QED  BY <1>1, <1>2, <1>3, <1>4 DEF Begins

(* What has expired warrants nothing, so the policy may remove it.         *)
LEMMA DocumentsExpire ==
  ASSUME AccountInv, Expire
  PROVE  AccountInv'
<1> USE DEF AccountInv, Expire, Present
<1>1. TypeOK' /\ UNCHANGED <<clock, user, index, handle, request, history>>
  <2>1. UNCHANGED <<backend, clock, user, index, handle, forgotten, request, history>>
    BY DEF docs
  <2>2. ceremony' \in [Ids -> Ceremonies \union {Absent}]  BY DEF TypeOK, docs
  <2>3. codeIndex' \in [Codes -> CodeEntries \union {Absent}]  BY DEF TypeOK, docs
  <2>4. recovery' \in [Uids -> RecoveryCodes \union {Absent}]  BY DEF TypeOK, docs
  <2>5. marker' \in [Uids -> [expires : Later] \union {Absent}]  BY DEF TypeOK, docs
  <2> QED  BY <2>1, <2>2, <2>3, <2>4, <2>5 DEF TypeOK, history
<1>2. AccountsWhole'  BY <1>1 DEF AccountsWhole, ValidDocument
<1>3. /\ \A i \in Ids : ceremony'[i] \in {ceremony[i], Absent}
      /\ \A c \in Codes : codeIndex'[c] \in {codeIndex[c], Absent}
  BY DEF TypeOK, docs
<1>4. CodesWhole'
  <2>1. ASSUME NEW c \in Codes, codeIndex'[c] # Absent, codeIndex'[c].expires > clock'
        PROVE  LET u == codeIndex'[c].uid IN
               /\ recovery'[u] # Absent /\ recovery'[u].code = c
               /\ recovery'[u].expires = codeIndex'[c].expires
    <3>1. codeIndex'[c] = codeIndex[c] /\ clock' = clock  BY <2>1, <1>3, <1>1
    <3> DEFINE u == codeIndex[c].uid
    <3>2. /\ recovery[u] # Absent /\ recovery[u].code = c
          /\ recovery[u].expires = codeIndex[c].expires
      BY <2>1, <3>1 DEF CodesWhole
    <3>3. u \in Uids  BY <2>1, <3>1 DEF TypeOK, CodeEntries
    <3>4. codeIndex[c].expires > clock /\ codeIndex[c].expires \in Int /\ clock \in Int
      BY <2>1, <3>1, Kinds DEF TypeOK, CodeEntries, Later, Times
    <3>5. recovery'[u] = recovery[u]
      BY <3>2, <3>3, <3>4 DEF TypeOK, docs
    <3> QED  BY <3>1, <3>2, <3>5
  <2> QED  BY <2>1 DEF CodesWhole
<1>5. Read' /\ InOnePlace'
  BY <1>1, <1>3 DEF Read, InOnePlace, Held, Used, history
<1>6. CodesSpent' /\ VersionsPass' /\ WarrantOnce' /\ VersionOnce'
  <2>1. \A a \in added : a.code \in Codes \union {None}  BY DEF TypeOK
  <2> QED  BY <1>1, <1>3, <2>1 DEF CodesSpent, VersionsPass, WarrantOnce, VersionOnce, history
<1> QED  BY <1>1, <1>2, <1>4, <1>5, <1>6

(* A ceremony is consumed: its identifier passes to the request, or to     *)
(* nobody.                                                                 *)
LEMMA Consumes ==
  ASSUME AccountInv, NEW r \in Requests, NEW i \in Ids, NEW uses, NEW u,
         NEW next \in {"load", "find"}, Consume(r, i, uses, u, next),
         next = "load" => "authentication" \notin uses
  PROVE  AccountInv'
<1> USE DEF AccountInv
<1> DEFINE c == ceremony[i]
           l == [Idle EXCEPT !.pc = next, !.use = c.use, !.uid = c.uid, !.id = i,
                             !.code = c.code, !.since = clock]
<1>1. /\ ceremony[i] # Absent /\ request[r] = Idle /\ c \in Ceremonies
      /\ UNCHANGED <<backend, clock, docs, forgotten, history>>
      /\ request' = request \/ (request' = [request EXCEPT ![r] = l] /\ c.use \in uses)
  BY DEF Consume, TypeOK
<1>2. /\ ceremony' \in [Ids -> Ceremonies \union {Absent}] /\ ceremony'[i] = Absent
      /\ \A j \in Ids : j # i => ceremony'[j] = ceremony[j]
  BY DEF Consume, Without, TypeOK
<1>3. /\ c.use \in Uses /\ c.uid \in Uids \union {None} /\ c.code \in Codes \union {None}
      /\ c.use # "authentication" => c.uid \in Uids
  BY <1>1 DEF Ceremonies, Read
<1>4. l \in Locals /\ l.id = i /\ l.pc = next /\ l.uid = c.uid
  <2> DEFINE m == [Idle EXCEPT !.pc = next, !.use = c.use, !.uid = c.uid]
  <2>1. clock \in Times  BY DEF TypeOK
  <2> HIDE DEF AccountInv, c
  <2>2. m \in Locals /\ m.pc = next /\ m.uid = c.uid
    BY <1>3, IdleSound DEF Locals, Steps
  <2>3. l = [m EXCEPT !.id = i, !.code = c.code, !.since = clock]
    BY DEF Idle
  <2> HIDE DEF m, l
  <2> QED  BY <1>3, <2>1, <2>2, <2>3 DEF Locals
<1>5. c.use \in uses => Sound(l)  BY <1>3, <1>4 DEF Sound
<1>6. /\ request' \in [Requests -> Locals]
      /\ \A s \in Requests : s # r => request'[s] = request[s]
      /\ request'[r] = request[r] \/ (request'[r] = l /\ Sound(l))
  BY <1>1, <1>4, <1>5 DEF TypeOK
<1>7. TypeOK'  BY <1>1, <1>2, <1>6 DEF TypeOK, docs, history
<1>8. AccountsWhole' /\ CodesWhole'  BY <1>1, DocsRest
<1>9. Read'  BY <1>2, <1>6 DEF Read, Sound
<1>10. InOnePlace'
  <2>1. i \in drawn /\ ~Used(i) /\ \A s \in Requests : ~Held(s, i)
    BY <1>1 DEF InOnePlace
  <2>2. \A s \in Requests, j \in Ids : request'[s].id = j => (s = r /\ j = i) \/ Held(s, j)
    BY <1>4, <1>6 DEF Held
  <2> QED  BY <1>1, <1>2, <2>1, <2>2 DEF InOnePlace, Held, Used, history
<1>11. CodesSpent' /\ VersionsPass' /\ WarrantOnce' /\ VersionOnce'
  BY <1>1, HistoryRests DEF docs
<1> QED  BY <1>7, <1>8, <1>9, <1>10, <1>11

(* What validation gives, whichever store did it.                          *)
LEMMA Validated ==
  ASSUME AccountInv, NEW u \in Uids, user[u] # Absent, NEW at \in Times, Valid(u, at)
  PROVE  \A k \in user[u].keys : /\ k \in Keys /\ index[k] # Absent /\ index[k].uid = u
                                 /\ index[k].updated <= at
BY DEF AccountInv, TypeOK, Users, Valid, ValidFirestore, ValidMemory, ValidDocument

(* The credentials of an account, and the times of its documents.          *)
LEMMA AccountTimes ==
  ASSUME TypeOK
  PROVE  /\ \A u \in Uids : user[u] # Absent => user[u].keys \subseteq Keys /\ user[u].updated \in Times
         /\ \A k \in Keys : index[k] # Absent =>
              /\ index[k].uid \in Uids /\ index[k].version \in Nat \ {0} /\ index[k].updated \in Times
         /\ Times \subseteq Nat
BY Kinds DEF TypeOK, Users, Documents, Times

(* The account after a credential of it was made or moved forward.         *)
LEMMA AccountStored ==
  ASSUME AccountInv, NEW u \in Uids, NEW k \in Keys, NEW at \in Times, NEW doc \in Documents,
         NEW acc \in Users, doc.uid = u, doc.updated = at, acc.updated = at,
         acc.keys = {k} \union (IF user[u] = Absent THEN {} ELSE user[u].keys),
         index[k] # Absent => index[k].uid = u,
         user[u] # Absent => Valid(u, at),
         user' = [user EXCEPT ![u] = acc], index' = [index EXCEPT ![k] = doc],
         handle' = handle \union {u}
  PROVE  AccountsWhole'
<1> USE DEF AccountInv
<1>1. /\ user'[u] = acc /\ \A v \in Uids : v # u => user'[v] = user[v]
      /\ index'[k] = doc /\ \A j \in Keys : j # k => index'[j] = index[j]
  BY DEF TypeOK
<1>2. acc # Absent /\ doc # Absent  BY Documented
<1>3. user[u] # Absent =>
        \A j \in user[u].keys : j \in Keys /\ index[j] # Absent /\ index[j].uid = u /\ index[j].updated <= at
  BY Validated
<1>4. at <= at  BY AccountTimes
<1>5. ASSUME NEW v \in Uids, user'[v] # Absent
      PROVE  /\ user'[v].keys # {} /\ v \in handle'
             /\ \A j \in user'[v].keys : ValidDocument(v, j)'
  <2>1. CASE v = u
    <3>1. ASSUME NEW j \in user'[v].keys  PROVE ValidDocument(v, j)'
      <4>1. CASE j = k  BY <4>1, <2>1, <1>1, <1>2, <1>4 DEF ValidDocument
      <4>2. CASE j # k  BY <4>2, <3>1, <2>1, <1>1, <1>2, <1>3 DEF ValidDocument
      <4> QED  BY <4>1, <4>2
    <3> QED  BY <2>1, <1>1, <3>1
  <2>2. CASE v # u
    <3>1. user'[v] = user[v] /\ user[v].keys # {} /\ v \in handle  BY <2>2, <1>1, <1>5 DEF AccountsWhole
    <3>2. ASSUME NEW j \in user[v].keys  PROVE ValidDocument(v, j)'
      <4>1. j \in Keys  BY <3>1, <1>5, AccountTimes
      <4>2. ValidDocument(v, j)  BY <3>1, <1>5 DEF AccountsWhole
      <4>3. j # k  BY <4>2, <2>2 DEF ValidDocument
      <4> QED  BY <4>1, <4>2, <4>3, <3>1, <1>1 DEF ValidDocument
    <3> QED  BY <3>1, <3>2
  <2> QED  BY <2>1, <2>2
<1>6. ASSUME NEW j \in Keys, index'[j] # Absent
      PROVE  user'[index'[j].uid] # Absent /\ j \in user'[index'[j].uid].keys
  <2>1. CASE j = k  BY <2>1, <1>1, <1>2
  <2>2. CASE j # k
    <3>1. index'[j] = index[j] /\ index[j] # Absent /\ index[j].uid \in Uids
      BY <2>2, <1>1, <1>6, AccountTimes
    <3>2. user[index[j].uid] # Absent /\ j \in user[index[j].uid].keys
      BY <3>1 DEF AccountsWhole
    <3> QED  BY <3>1, <3>2, <1>1, <1>2
  <2> QED  BY <2>1, <2>2
<1> QED  BY <1>5, <1>6 DEF AccountsWhole

(* A code's document and the record of its account go together.            *)
LEMMA CodesDropped ==
  ASSUME AccountInv, NEW u \in Uids, UNCHANGED clock,
         recovery' = [recovery EXCEPT ![u] = Absent],
         \A c \in Codes : codeIndex'[c] \in {codeIndex[c], Absent},
         recovery[u] # Absent => codeIndex'[recovery[u].code] = Absent
  PROVE  CodesWhole'
<1> USE DEF AccountInv
<1>1. \A v \in Uids : v # u => recovery'[v] = recovery[v]  BY DEF TypeOK
<1>2. ASSUME NEW c \in Codes, codeIndex'[c] # Absent, codeIndex'[c].expires > clock'
      PROVE  LET v == codeIndex'[c].uid IN
             /\ recovery'[v] # Absent /\ recovery'[v].code = c
             /\ recovery'[v].expires = codeIndex'[c].expires
  <2>1. codeIndex'[c] = codeIndex[c] /\ clock' = clock  BY <1>2
  <2> DEFINE v == codeIndex[c].uid
  <2>2. recovery[v] # Absent /\ recovery[v].code = c /\ recovery[v].expires = codeIndex[c].expires
    BY <1>2, <2>1 DEF CodesWhole
  <2>3. v \in Uids  BY <1>2, <2>1 DEF TypeOK, CodeEntries
  <2>4. v # u  BY <1>2, <2>2
  <2> QED  BY <2>1, <2>2, <2>3, <2>4, <1>1
<1> QED  BY <1>2 DEF CodesWhole

(* The commit of a new credential.                                         *)
LEMMA CredentialCreated ==
  ASSUME AccountInv, NEW r \in Requests, NEW k \in Keys, NEW at \in Times,
         CreateCredential(r, k, at)
  PROVE  AccountInv'
<1> USE DEF AccountInv
<1> DEFINE u == request[r].uid
           c == request[r].code
           i == request[r].id
           acc == [keys |-> IF user[u] = Absent THEN {k} ELSE user[u].keys \union {k},
                   updated |-> at]
           doc == [uid |-> u, version |-> 1, updated |-> at]
           a == [id |-> i, uid |-> u, key |-> k, code |-> c, buried |-> marker[u] # Absent]
           p == [uid |-> u, key |-> None, version |-> 0, at |-> at]
<1>1. /\ u \in Uids /\ i \in Ids /\ c \in Codes \union {None} /\ request[r] \in Locals
      /\ k = Cardinality(added) + 1 /\ index[k] = Absent
      /\ user[u] # Absent => Valid(u, at)
      /\ UNCHANGED <<backend, clock, ceremony, marker, forgotten, drawn>>
      /\ request' = [request EXCEPT ![r] = Idle]
      /\ added' = added \union {a}
      /\ proved' = proved \/ proved' = proved \union {p}
  <2>1. request[r] \in Locals /\ request[r].pc = "create"
    BY DEF CreateCredential, TypeOK
  <2>2. u \in Uids /\ i \in Ids /\ c \in Codes \union {None}
    BY <2>1 DEF Read, Locals
  <2>3. user[u] # Absent => Valid(u, at)
    BY DEF CreateCredential, Creates, CreatesFirestore, CreatesMemory, Valid
  <2>4. index[k] = Absent
    BY DEF CreateCredential, Creates, CreatesFirestore, CreatesMemory
  <2> QED  BY <2>1, <2>2, <2>3, <2>4 DEF CreateCredential, Ends
<1>2. acc \in Users /\ doc \in Documents
  <2>1. user[u] # Absent => user[u].keys \subseteq Keys  BY <1>1, AccountTimes
  <2> QED  BY <1>1, <2>1 DEF Users, Documents
<1>3. /\ user' = [user EXCEPT ![u] = acc] /\ index' = [index EXCEPT ![k] = doc]
      /\ handle' = handle \union {u}
  BY DEF CreateCredential, Stored
<1>4. AccountsWhole'
  <2>1. /\ acc.keys = {k} \union (IF user[u] = Absent THEN {} ELSE user[u].keys)
        /\ doc.uid = u /\ doc.updated = at /\ acc.updated = at
    OBVIOUS
  <2> HIDE DEF acc, doc, u
  <2> QED  BY <1>1, <1>2, <1>3, <2>1, AccountStored
<1>5. \/ c = None /\ UNCHANGED <<recovery, codeIndex>>
      \/ /\ c \in Codes /\ codeIndex[c] # Absent /\ recovery[u] # Absent /\ recovery[u].code = c
         /\ recovery' = [recovery EXCEPT ![u] = Absent]
         /\ codeIndex' = [codeIndex EXCEPT ![c] = Absent]
  BY <1>1 DEF CreateCredential, Spends, SpendsFirestore, SpendsMemory, Dropped
<1>6. /\ recovery' \in [Uids -> RecoveryCodes \union {Absent}]
      /\ codeIndex' \in [Codes -> CodeEntries \union {Absent}]
      /\ \A d \in Codes : codeIndex'[d] \in {codeIndex[d], Absent}
      /\ c # None => codeIndex'[c] = Absent
  BY <1>1, <1>5 DEF TypeOK
<1>7. CodesWhole'
  <2>1. CASE c = None
    BY <2>1, <1>1, <1>5, Kinds DEF CodesWhole
  <2>2. CASE c # None
    BY <2>2, <1>1, <1>5, <1>6, CodesDropped
  <2> QED  BY <2>1, <2>2
<1>8. a.id = i /\ a.key = k /\ a.code = c /\ a.uid = u /\ p.key = None  OBVIOUS
<1>9. a \in [id : Ids, uid : Uids, key : Keys, code : Codes \union {None}, buried : BOOLEAN]
  BY <1>1
<1>10. ~Used(i) /\ i \in drawn /\ ceremony[i] = Absent /\ \A s \in Requests : Held(s, i) => s = r
  BY <1>1 DEF InOnePlace, Held
<1>11. TypeOK'
  <2>1. user' \in [Uids -> Users \union {Absent}] /\ index' \in [Keys -> Documents \union {Absent}]
        /\ handle' \subseteq Uids
    BY <1>1, <1>2, <1>3 DEF TypeOK
  <2>2. request' \in [Requests -> Locals]  BY <1>1, IdleSound DEF TypeOK
  <2>3. p \in [uid : Uids, key : Keys \union {None}, version : Nat, at : Times]  BY <1>1
  <2>4. proved' \subseteq [uid : Uids, key : Keys \union {None}, version : Nat, at : Times]
    BY <2>3, <1>1 DEF TypeOK
  <2>5. added' \subseteq [id : Ids, uid : Uids, key : Keys, code : Codes \union {None},
                          buried : BOOLEAN]
    BY <1>9, <1>1 DEF TypeOK
  <2> QED  BY <2>1, <2>2, <2>4, <2>5, <1>1, <1>6 DEF TypeOK
<1>12. /\ request'[r] = Idle /\ \A s \in Requests : s # r => request'[s] = request[s]
  BY <1>1 DEF TypeOK
<1>13. Read'  BY <1>1, <1>12, IdleSound DEF Read, Sound
<1>14. InOnePlace'
  <2>1. \A s \in Requests, j \in Ids : Held(s, j)' => Held(s, j) /\ s # r
    BY <1>12, IdleSound, Kinds DEF Held
  <2>2. \A j \in Ids : Used(j)' <=> Used(j) \/ j = i  BY <1>1, <1>8 DEF Used
  <2> QED  BY <2>1, <2>2, <1>1, <1>8, <1>10 DEF InOnePlace
<1>15. \A b \in added : b.id # i /\ (c # None => b.code # c)
  <2>1. \A b \in added : b.code \in Codes \union {None}  BY DEF TypeOK
  <2> QED  BY <1>10, <1>5, <2>1 DEF Used, CodesSpent
<1>16. CodesSpent'
  <2>1. c # None => c \in drawn  BY <1>5 DEF CodesSpent
  <2>2. \A b \in added : b.code \in Codes \union {None}  BY DEF TypeOK
  <2> QED  BY <1>1, <1>6, <1>8, <2>1, <2>2 DEF CodesSpent
<1>17. VersionsPass'
  <2>1. a \notin added  BY <1>8, <1>15
  <2>2. /\ IsFiniteSet(added') /\ Cardinality(added') = Cardinality(added) + 1
        /\ Cardinality(added) \in Nat
    BY <2>1, <1>1, FS_AddElement, FS_CardinalityType DEF VersionsPass
  <2>3. \A b \in added' : b.key <= Cardinality(added')
    <3>1. \A b \in added : b.key \in Nat  BY Kinds DEF TypeOK
    <3> QED  BY <2>2, <3>1, <1>1, <1>8 DEF VersionsPass
  <2>4. \A j \in Keys : index'[j] # Absent => j <= Cardinality(added')
    <3>1. \A j \in Keys : j \in Nat  BY Kinds
    <3>2. \A j \in Keys : j # k => index'[j] = index[j]  BY <1>3 DEF TypeOK
    <3> QED  BY <2>2, <3>1, <3>2, <1>1 DEF VersionsPass
  <2>5. ASSUME NEW q \in proved', q.key # None
        PROVE  /\ q.key <= Cardinality(added')
               /\ index'[q.key] # Absent => q.version < index'[q.key].version
    <3>1. q \in proved  BY <2>5, <1>1, <1>8
    <3>2. q.key \in Keys /\ q.key \in Nat  BY <3>1, <2>5, Kinds DEF TypeOK
    <3>3. q.key <= Cardinality(added)  BY <3>1, <2>5 DEF VersionsPass
    <3>4. index'[q.key] = index[q.key]  BY <3>2, <3>3, <2>2, <1>1, <1>3 DEF TypeOK
    <3> QED  BY <3>1, <3>2, <3>3, <3>4, <2>2, <2>5 DEF VersionsPass
  <2> QED  BY <2>2, <2>3, <2>4, <2>5 DEF VersionsPass
<1>18. WarrantOnce'
  BY <1>1, <1>8, <1>15 DEF WarrantOnce
<1>19. VersionOnce'
  BY <1>1, <1>8 DEF VersionOnce
<1> QED  BY <1>4, <1>7, <1>11, <1>13, <1>14, <1>16, <1>17, <1>18, <1>19

(* What a commit on the documents leaves to show, when it makes nothing    *)
(* and proves nothing.                                                     *)
LEMMA DocumentsChange ==
  ASSUME AccountInv, NEW r \in Requests, NEW l \in Locals, Sound(l),
         l.id \in {request[r].id, None}, request' = [request EXCEPT ![r] = l],
         UNCHANGED <<backend, clock, ceremony, forgotten, history>>,
         user' \in [Uids -> Users \union {Absent}], index' \in [Keys -> Documents \union {Absent}],
         handle' \subseteq Uids, recovery' \in [Uids -> RecoveryCodes \union {Absent}],
         codeIndex' \in [Codes -> CodeEntries \union {Absent}],
         marker' \in [Uids -> [expires : Later] \union {Absent}],
         \A k \in Keys : index'[k] \in {index[k], Absent},
         \A c \in Codes : codeIndex'[c] \in {codeIndex[c], Absent},
         AccountsWhole', CodesWhole'
  PROVE  AccountInv'
<1> USE DEF AccountInv
<1>1. request' \in [Requests -> Locals] /\ Read' /\ InOnePlace'
  BY RequestMoves DEF history
<1>2. TypeOK'  BY <1>1 DEF TypeOK, history
<1>3. CodesSpent'
  <2>1. \A a \in added : a.code \in Codes \union {None}  BY DEF TypeOK
  <2> QED  BY <2>1 DEF CodesSpent, history
<1>4. VersionsPass'
  <2>1. \A p \in proved : p.key \in Keys \union {None}  BY DEF TypeOK
  <2> QED  BY <2>1 DEF VersionsPass, history
<1>5. WarrantOnce' /\ VersionOnce'  BY DEF WarrantOnce, VersionOnce, history
<1> QED  BY <1>1, <1>2, <1>3, <1>4, <1>5

(* A credential's document whose version is raised.                        *)
LEMMA DocumentMoves ==
  ASSUME NEW x \in Documents, NEW at \in Times
  PROVE  LET y == [x EXCEPT !.version = @ + 1, !.updated = at] IN
         /\ y \in Documents /\ y.uid = x.uid /\ y.updated = at /\ y.version = x.version + 1
         /\ x.version \in Nat
<1>1. x.version \in Nat /\ x.version + 1 \in Nat \ {0} /\ x.uid \in Uids  BY DEF Documents
<1> QED  BY <1>1 DEF Documents

(* The counter of a credential, compared with what was read.               *)
LEMMA CredentialUpdated ==
  ASSUME AccountInv, NEW r \in Requests, NEW at \in Times, UpdateCredential(r, at)
  PROVE  AccountInv'
<1> USE DEF AccountInv
<1> DEFINE u == request[r].uid
           k == request[r].key
           n == request[r].version
           acc == [user[u] EXCEPT !.updated = at]
           doc == [index[k] EXCEPT !.version = @ + 1, !.updated = at]
           p == [uid |-> u, key |-> k, version |-> n, at |-> at]
<1>1. /\ request[r] \in Locals /\ u \in Uids /\ k \in Keys
      /\ user[u] # Absent /\ k \in user[u].keys /\ Valid(u, at)
      /\ index[k] # Absent /\ index[k].uid = u /\ index[k].version = n
      /\ UNCHANGED <<backend, clock, ceremony, handle, recovery, codeIndex, marker, forgotten,
                     drawn, added>>
      /\ request' = [request EXCEPT ![r] = Idle]
      /\ proved' = proved \union {p}
  <2>1. request[r] \in Locals /\ request[r].pc = "update"
    BY DEF UpdateCredential, TypeOK
  <2>2. u \in Uids /\ k \in Keys  BY <2>1 DEF Read
  <2>3. /\ user[u] # Absent /\ k \in user[u].keys /\ Valid(u, at)
        /\ index[k] # Absent /\ index[k].uid = u /\ index[k].version = n
    BY DEF UpdateCredential, Updates, UpdatesFirestore, UpdatesMemory, Valid
  <2> QED  BY <2>1, <2>2, <2>3 DEF UpdateCredential, Ends
<1>2. /\ user[u] \in Users /\ index[k] \in Documents  BY <1>1 DEF TypeOK
<1>3. /\ acc \in Users /\ acc.keys = user[u].keys /\ acc.updated = at  BY <1>2 DEF Users
<1>4. /\ doc \in Documents /\ doc.uid = u /\ doc.updated = at /\ doc.version = n + 1 /\ n \in Nat
  <2>1. /\ doc \in Documents /\ doc.uid = index[k].uid /\ doc.updated = at
        /\ doc.version = index[k].version + 1 /\ index[k].version \in Nat
    <3> HIDE DEF k
    <3> QED  BY <1>2, DocumentMoves
  <2> HIDE DEF doc, u, k, n
  <2> QED  BY <2>1, <1>1
<1>5. user' = [user EXCEPT ![u] = acc] /\ index' = [index EXCEPT ![k] = doc]
  BY <1>1 DEF UpdateCredential, TypeOK
<1>6. handle' = handle \union {u}  BY <1>1 DEF AccountsWhole
<1>7. AccountsWhole'
  <2>1. acc.keys = {k} \union (IF user[u] = Absent THEN {} ELSE user[u].keys)
    BY <1>1, <1>3
  <2> HIDE DEF acc, doc, u
  <2> QED  BY <1>1, <1>3, <1>4, <1>5, <1>6, <2>1, AccountStored
<1>8. CodesWhole'  BY <1>1 DEF CodesWhole
<1>9. request' \in [Requests -> Locals] /\ Read' /\ InOnePlace'
  BY <1>1, IdleSound, RequestMoves
<1>10. p.key = k /\ p.version = n  OBVIOUS
<1>11. p \in [uid : Uids, key : Keys \union {None}, version : Nat, at : Times]
  BY <1>1, <1>4
<1>12. TypeOK'
  <2>1. user' \in [Uids -> Users \union {Absent}] /\ index' \in [Keys -> Documents \union {Absent}]
    BY <1>1, <1>3, <1>4, <1>5 DEF TypeOK
  <2>2. proved' \subseteq [uid : Uids, key : Keys \union {None}, version : Nat, at : Times]
    BY <1>1, <1>11 DEF TypeOK
  <2> QED  BY <2>1, <2>2, <1>1, <1>9 DEF TypeOK
<1>13. CodesSpent' /\ WarrantOnce'  BY <1>1 DEF CodesSpent, WarrantOnce
<1>14. \A q \in proved : q.key = k => q.version < n
  BY <1>1, Kinds DEF VersionsPass
<1>15. /\ index'[k] = doc /\ \A j \in Keys : j # k => index'[j] = index[j]
  BY <1>1, <1>5 DEF TypeOK
<1>16. \A q \in proved : q.key \in Keys \union {None} /\ q.version \in Nat
  BY DEF TypeOK
<1>17. VersionsPass'
  <2>1. \A j \in Keys : index'[j] # Absent => j <= Cardinality(added')
    BY <1>1, <1>15 DEF VersionsPass
  <2>2. ASSUME NEW q \in proved', q.key # None
        PROVE  /\ q.key <= Cardinality(added')
               /\ index'[q.key] # Absent => q.version < index'[q.key].version
    <3>1. CASE q = p
      <4>1. q.key = k /\ q.version = n  BY <3>1, <1>10
      <4>2. k <= Cardinality(added)  BY <1>1 DEF VersionsPass
      <4>3. index'[k].version = n + 1  BY <1>4, <1>15
      <4> HIDE DEF k, n
      <4> QED  BY <4>1, <4>2, <4>3, <1>1, <1>4
    <3>2. CASE q # p
      <4>1. q \in proved  BY <3>2, <1>1
      <4>2. q.key \in Keys /\ q.version \in Nat  BY <4>1, <2>2, <1>16
      <4>3. q.key <= Cardinality(added)  BY <4>1, <2>2 DEF VersionsPass
      <4>4. CASE q.key = k  BY <4>1, <4>2, <4>3, <4>4, <1>1, <1>4, <1>14, <1>15
      <4>5. CASE q.key # k  BY <4>1, <4>2, <4>3, <4>5, <2>2, <1>1, <1>15 DEF VersionsPass
      <4> QED  BY <4>4, <4>5
    <3> QED  BY <3>1, <3>2
  <2> QED  BY <2>1, <2>2, <1>1 DEF VersionsPass
<1>18. VersionOnce'
  BY <1>1, <1>4, <1>10, <1>14, <1>16 DEF VersionOnce
<1> QED  BY <1>7, <1>8, <1>9, <1>12, <1>13, <1>17, <1>18

(* A revocation leaves the account at least one credential.                *)
LEMMA CredentialRevoked ==
  ASSUME AccountInv, NEW r \in Requests, RevokeCredential(r)
  PROVE  AccountInv'
<1> USE DEF AccountInv
<1> DEFINE u == request[r].uid
           k == request[r].key
           at == request[r].since
           acc == [keys |-> user[u].keys \ {k}, updated |-> at]
<1>1. /\ request[r] \in Locals /\ u \in Uids /\ k \in Keys /\ at \in Times
      /\ user[u] # Absent /\ k \in user[u].keys /\ Valid(u, at) /\ Cardinality(user[u].keys) > 1
      /\ UNCHANGED <<backend, clock, ceremony, handle, recovery, codeIndex, marker, forgotten,
                     history>>
      /\ request' = [request EXCEPT ![r] = Idle]
  <2>1. request[r] \in Locals /\ request[r].pc = "revoke"
    BY DEF RevokeCredential, TypeOK
  <2>2. u \in Uids /\ k \in Keys /\ at \in Times  BY <2>1 DEF Read, Locals
  <2>3. /\ user[u] # Absent /\ k \in user[u].keys /\ Valid(u, at)
        /\ Cardinality(user[u].keys) > 1
    BY DEF RevokeCredential, Revokes, RevokesFirestore, RevokesMemory, Valid
  <2> QED  BY <2>1, <2>2, <2>3 DEF RevokeCredential, Ends
<1>2. user[u].keys \subseteq Keys  BY <1>1, AccountTimes
<1>3. acc \in Users /\ acc # Absent /\ acc.keys = user[u].keys \ {k} /\ acc.updated = at
  BY <1>1, <1>2, Documented DEF Users
<1>4. acc.keys # {}
  <2>1. SUFFICES ASSUME user[u].keys = {k}  PROVE FALSE  BY <1>1, <1>3
  <2>2. Cardinality({k}) = 1  BY FS_Singleton
  <2> QED  BY <2>1, <2>2, <1>1
<1>5. user' = [user EXCEPT ![u] = acc] /\ index' = [index EXCEPT ![k] = Absent]
  BY <1>1 DEF RevokeCredential, TypeOK
<1>6. /\ user'[u] = acc /\ \A v \in Uids : v # u => user'[v] = user[v]
      /\ index'[k] = Absent /\ \A j \in Keys : j # k => index'[j] = index[j]
      /\ user' \in [Uids -> Users \union {Absent}] /\ index' \in [Keys -> Documents \union {Absent}]
  BY <1>1, <1>3, <1>5 DEF TypeOK
<1>7. \A j \in user[u].keys : j \in Keys /\ index[j] # Absent /\ index[j].uid = u /\ index[j].updated <= at
  BY <1>1, Validated
<1>8. AccountsWhole'
  <2> HIDE DEF acc, u, k, at
  <2>1. ASSUME NEW v \in Uids, user'[v] # Absent
        PROVE  /\ user'[v].keys # {} /\ v \in handle'
               /\ \A j \in user'[v].keys : ValidDocument(v, j)'
    <3>1. CASE v = u
      BY <3>1, <1>1, <1>3, <1>4, <1>6, <1>7 DEF AccountsWhole, ValidDocument
    <3>2. CASE v # u
      <4>1. user'[v] = user[v] /\ user[v].keys \subseteq Keys  BY <3>2, <2>1, <1>6, AccountTimes
      <4>2. \A j \in user[v].keys : ValidDocument(v, j) /\ j # k
        BY <4>1, <3>2, <2>1, <1>1 DEF AccountsWhole, ValidDocument
      <4> QED  BY <4>1, <4>2, <2>1, <1>1, <1>6 DEF AccountsWhole, ValidDocument
    <3> QED  BY <3>1, <3>2
  <2>2. ASSUME NEW j \in Keys, index'[j] # Absent
        PROVE  user'[index'[j].uid] # Absent /\ j \in user'[index'[j].uid].keys
    <3>1. j # k /\ index'[j] = index[j] /\ index[j].uid \in Uids
      BY <2>2, <1>6, AccountTimes
    <3>2. user[index[j].uid] # Absent /\ j \in user[index[j].uid].keys
      BY <3>1, <2>2 DEF AccountsWhole
    <3> QED  BY <3>1, <3>2, <1>3, <1>6
  <2> QED  BY <2>1, <2>2 DEF AccountsWhole
<1>9. CodesWhole'  BY <1>1 DEF CodesWhole
<1>10. /\ handle' \subseteq Uids /\ recovery' \in [Uids -> RecoveryCodes \union {Absent}]
       /\ codeIndex' \in [Codes -> CodeEntries \union {Absent}]
       /\ marker' \in [Uids -> [expires : Later] \union {Absent}]
  BY <1>1 DEF TypeOK
<1>11. /\ \A j \in Keys : index'[j] \in {index[j], Absent}
       /\ \A c \in Codes : codeIndex'[c] \in {codeIndex[c], Absent}
  BY <1>1, <1>6
<1> HIDE DEF acc, u, k, at, AccountInv
<1> QED  BY <1>1, <1>6, <1>8, <1>9, <1>10, <1>11, IdleSound, DocumentsChange

(* A new code takes the place of the old one, in both documents.           *)
LEMMA CodeReplaced ==
  ASSUME AccountInv, NEW r \in Requests, NEW c \in Codes, ReplaceRecoveryCode(r, c)
  PROVE  AccountInv'
<1> USE DEF AccountInv
<1> DEFINE u == request[r].uid
           at == request[r].since
           old == IF recovery[u] = Absent THEN None ELSE recovery[u].code
           rec == [code |-> c, issued |-> at, expires |-> at + RecoveryTTL]
           ent == [uid |-> u, issued |-> at, expires |-> at + RecoveryTTL]
<1>1. /\ request[r] \in Locals /\ u \in Uids /\ at \in Times
      /\ c = Cardinality(drawn \intersect Codes) + 1
      /\ UNCHANGED <<backend, clock, ceremony, user, index, handle, marker, forgotten, added, proved>>
      /\ recovery' = [recovery EXCEPT ![u] = rec]
      /\ codeIndex' = [k \in Codes |-> IF k = c THEN ent ELSE IF k = old THEN Absent ELSE codeIndex[k]]
      /\ drawn' = drawn \union {c} /\ request' = [request EXCEPT ![r] = Idle]
  <2>1. request[r] \in Locals /\ request[r].pc = "issue"
    BY DEF ReplaceRecoveryCode, TypeOK
  <2>2. u \in Uids /\ at \in Times  BY <2>1 DEF Read, Locals
  <2> QED  BY <2>1, <2>2 DEF ReplaceRecoveryCode, Ends
<1>2. c \notin drawn /\ \E n \in Nat : drawn' \intersect Codes = 1..n
  <2>1. PICK n \in Nat : drawn \intersect Codes = 1..n  BY DEF CodesSpent
  <2>2. Cardinality(1..n) = n  BY <2>1, FS_Interval
  <2>3. c = n + 1  BY <2>1, <2>2, <1>1
  <2>4. c \notin 1..n /\ 1..(n + 1) = 1..n \union {n + 1}  BY <2>1, <2>3
  <2>5. drawn' \intersect Codes = (drawn \intersect Codes) \union {c}  BY <1>1
  <2>6. drawn' \intersect Codes = 1..(n + 1)  BY <2>1, <2>3, <2>4, <2>5
  <2> QED  BY <2>1, <2>4, <2>6
<1>3. at + RecoveryTTL \in Later /\ rec \in RecoveryCodes /\ ent \in CodeEntries
  <2>1. at + RecoveryTTL \in Later  BY <1>1, Kinds DEF Times, Later
  <2> QED  BY <2>1, <1>1 DEF RecoveryCodes, CodeEntries
<1>4. rec # Absent /\ ent # Absent /\ rec.code = c /\ rec.expires = ent.expires /\ ent.uid = u
  BY <1>3, Documented
<1> HIDE DEF rec, ent
<1>5. /\ recovery'[u] = rec /\ \A v \in Uids : v # u => recovery'[v] = recovery[v]
      /\ codeIndex'[c] = ent
      /\ \A d \in Codes : d # c => codeIndex'[d] \in {codeIndex[d], Absent}
      /\ recovery[u] # Absent /\ recovery[u].code # c => codeIndex'[recovery[u].code] = Absent
      /\ recovery' \in [Uids -> RecoveryCodes \union {Absent}]
      /\ codeIndex' \in [Codes -> CodeEntries \union {Absent}]
  <2>1. recovery[u] # Absent => recovery[u].code \in Codes  BY <1>1 DEF TypeOK, RecoveryCodes
  <2>2. recovery' \in [Uids -> RecoveryCodes \union {Absent}]  BY <1>1, <1>3 DEF TypeOK
  <2>3. codeIndex' \in [Codes -> CodeEntries \union {Absent}]  BY <1>1, <1>3 DEF TypeOK
  <2> QED  BY <2>1, <2>2, <2>3, <1>1 DEF TypeOK
<1>6. AccountsWhole'  BY <1>1 DEF AccountsWhole, ValidDocument
<1>7. ASSUME NEW d \in Codes, codeIndex'[d] # Absent, codeIndex'[d].expires > clock'
      PROVE  LET v == codeIndex'[d].uid IN
             /\ recovery'[v] # Absent /\ recovery'[v].code = d
             /\ recovery'[v].expires = codeIndex'[d].expires
  <2> HIDE DEF u
  <2>1. CASE d = c  BY <2>1, <1>4, <1>5
  <2>2. CASE d # c
    <3>1. codeIndex'[d] = codeIndex[d] /\ clock' = clock  BY <2>2, <1>1, <1>5, <1>7
    <3> DEFINE v == codeIndex[d].uid
    <3>2. recovery[v] # Absent /\ recovery[v].code = d /\ recovery[v].expires = codeIndex[d].expires
      BY <1>7, <3>1 DEF CodesWhole
    <3>3. v \in Uids  BY <1>7, <3>1 DEF TypeOK, CodeEntries
    <3>4. v # u  BY <3>1, <3>2, <2>2, <1>5, <1>7
    <3> QED  BY <3>1, <3>2, <3>3, <3>4, <1>5
  <2> QED  BY <2>1, <2>2
<1>8. CodesWhole'  BY <1>7 DEF CodesWhole
<1>9. request' \in [Requests -> Locals] /\ Read' /\ (\A s \in Requests, j \in Ids : Held(s, j)' => Held(s, j))
  <2>1. /\ request'[r] = Idle /\ \A s \in Requests : s # r => request'[s] = request[s]
        /\ request' \in [Requests -> Locals]
    BY <1>1, IdleSound DEF TypeOK
  <2> QED  BY <2>1, <1>1, IdleSound, Kinds DEF Read, Sound, Held
<1>10. InOnePlace'  BY <1>1, <1>9 DEF InOnePlace, Used
<1>11. TypeOK'
  BY <1>1, <1>5, <1>9 DEF TypeOK
<1>12. CodesSpent'
  <2>1. \A a \in added : a.code \in Codes \union {None} /\ a.code # c
    BY <1>2, Kinds DEF TypeOK, CodesSpent
  <2> QED  BY <2>1, <1>1, <1>2, <1>5 DEF CodesSpent
<1>13. VersionsPass' /\ WarrantOnce' /\ VersionOnce'
  BY <1>1 DEF VersionsPass, WarrantOnce, VersionOnce
<1> QED  BY <1>6, <1>8, <1>9, <1>10, <1>11, <1>12, <1>13

(* The transaction of a deletion removes every document of the account.    *)
LEMMA DataDeleted ==
  ASSUME AccountInv, NEW r \in Requests, NEW at \in Times, DeleteAccountData(r, at)
  PROVE  AccountInv'
<1> DEFINE u == request[r].uid
           l == [request[r] EXCEPT !.pc = "auth"]
<1>1. /\ u \in Uids /\ l \in Locals /\ Sound(l) /\ l.id = request[r].id
      /\ request' = [request EXCEPT ![r] = l]
      /\ UNCHANGED <<backend, clock, ceremony, forgotten, history>>
  <2>1. request[r] \in Locals /\ request[r].pc = "data"
    BY DEF DeleteAccountData, AccountInv, TypeOK
  <2>2. u \in Uids  BY <2>1 DEF AccountInv, Read
  <2>3. l \in Locals /\ l.id = request[r].id /\ l.uid = u /\ l.pc = "auth"
    BY <2>1 DEF Locals, Steps
  <2>4. Sound(l)  BY <2>2, <2>3 DEF Sound
  <2> QED  BY <2>2, <2>3, <2>4 DEF DeleteAccountData, AccountInv, TypeOK
<1> HIDE DEF l
<1>2. CASE UNCHANGED docs
  BY <1>1, <1>2, RequestTurns DEF AccountInv, TypeOK
<1>3. CASE /\ Deletes(u, at)
           /\ codeIndex' = WithoutCodeOf(u) /\ recovery' = [recovery EXCEPT ![u] = Absent]
           /\ index' = [k \in Keys |-> IF k \in user[u].keys THEN Absent ELSE index[k]]
           /\ handle' = handle \ {u} /\ user' = [user EXCEPT ![u] = Absent]
           /\ marker' = [marker EXCEPT ![u] = [expires |-> at + MarkerTTL]]
  <2> USE DEF AccountInv
  <2>1. user[u] # Absent /\ Valid(u, at)
    BY <1>3 DEF Deletes, DeletesFirestore, DeletesMemory, Valid
  <2>2. \A j \in user[u].keys : j \in Keys /\ index[j] # Absent /\ index[j].uid = u
    BY <2>1, <1>1, Validated
  <2>3. /\ user'[u] = Absent /\ \A v \in Uids : v # u => user'[v] = user[v]
        /\ user' \in [Uids -> Users \union {Absent}]
        /\ index' \in [Keys -> Documents \union {Absent}]
        /\ \A j \in Keys : index'[j] \in {index[j], Absent}
        /\ \A j \in user[u].keys : index'[j] = Absent
        /\ \A j \in Keys : j \notin user[u].keys => index'[j] = index[j]
    BY <1>1, <1>3, <2>2 DEF TypeOK
  <2>4. /\ codeIndex' \in [Codes -> CodeEntries \union {Absent}]
        /\ \A c \in Codes : codeIndex'[c] \in {codeIndex[c], Absent}
        /\ recovery[u] # Absent => codeIndex'[recovery[u].code] = Absent
    <3>1. recovery[u] # Absent => recovery[u].code \in Codes  BY <1>1 DEF TypeOK, RecoveryCodes
    <3> QED  BY <3>1, <1>3 DEF TypeOK, WithoutCodeOf
  <2>5. /\ handle' \subseteq Uids /\ recovery' \in [Uids -> RecoveryCodes \union {Absent}]
        /\ marker' \in [Uids -> [expires : Later] \union {Absent}]
    <3>1. at + MarkerTTL \in Later  BY Kinds DEF Times, Later
    <3> QED  BY <3>1, <1>1, <1>3 DEF TypeOK
  <2>6. CodesWhole'
    BY <1>1, <1>3, <2>4, CodesDropped
  <2>7. AccountsWhole'
    <3> HIDE DEF u
    <3>1. ASSUME NEW v \in Uids, user'[v] # Absent
          PROVE  /\ user'[v].keys # {} /\ v \in handle'
                 /\ \A j \in user'[v].keys : ValidDocument(v, j)'
      <4>1. v # u /\ user'[v] = user[v] /\ user[v].keys \subseteq Keys
        BY <3>1, <2>3, AccountTimes
      <4>2. \A j \in user[v].keys : ValidDocument(v, j) /\ j \notin user[u].keys
        BY <4>1, <3>1, <2>2 DEF AccountsWhole, ValidDocument
      <4> QED  BY <4>1, <4>2, <3>1, <1>3, <2>3 DEF AccountsWhole, ValidDocument
    <3>2. ASSUME NEW j \in Keys, index'[j] # Absent
          PROVE  user'[index'[j].uid] # Absent /\ j \in user'[index'[j].uid].keys
      <4>1. j \notin user[u].keys /\ index'[j] = index[j] /\ index[j].uid \in Uids
        BY <3>2, <2>3, AccountTimes
      <4>2. user[index[j].uid] # Absent /\ j \in user[index[j].uid].keys
        BY <4>1, <3>2 DEF AccountsWhole
      <4> QED  BY <4>1, <4>2, <2>3
    <3> QED  BY <3>1, <3>2 DEF AccountsWhole
  <2> HIDE DEF u, AccountInv
  <2> QED  BY <1>1, <2>3, <2>4, <2>5, <2>6, <2>7, DocumentsChange
<1> QED  BY <1>2, <1>3 DEF DeleteAccountData

(* Without documents the invariant holds.                                  *)
LEMMA AccountStarts == Init => AccountInv
<1> SUFFICES ASSUME Init  PROVE AccountInv  OBVIOUS
<1> USE DEF Init
<1>1. TypeOK
  <2>1. 0 \in Times  BY Kinds DEF Times
  <2> QED  BY <2>1, IdleSound DEF TypeOK
<1>2. AccountsWhole /\ CodesWhole  BY DEF AccountsWhole, CodesWhole
<1>3. Read /\ InOnePlace
  BY IdleSound, Kinds DEF Read, InOnePlace, Sound, Held, Used
<1>4. CodesSpent
  <2>1. drawn \intersect Codes = 1..0  OBVIOUS
  <2> QED  BY <2>1 DEF CodesSpent
<1>5. VersionsPass /\ WarrantOnce /\ VersionOnce
  BY FS_EmptySet DEF VersionsPass, WarrantOnce, VersionOnce
<1> QED  BY <1>1, <1>2, <1>3, <1>4, <1>5 DEF AccountInv

(* The answers to the ceremonies.                                          *)
LEMMA RequestFinishes ==
  ASSUME AccountInv, NEW r \in Requests, Finishes(r)
  PROVE  AccountInv'
<1>1. ASSUME NEW i \in Ids, ConsumeRegistration(r, i) \/ ConsumeAuthentication(r, i)
      PROVE  AccountInv'
  BY <1>1, Consumes DEF ConsumeRegistration, ConsumeAuthentication
<1>2. ASSUME NEW i \in Ids, NEW u \in Uids, ConsumeAddition(r, i, u)  PROVE AccountInv'
  BY <1>2, Consumes DEF ConsumeAddition
<1> QED
  BY <1>1, <1>2, UserLoads, AssertionVerifies, CredentialFound, CredentialCreated,
     CredentialUpdated
  DEF Finishes

(* The requests of a signed-in user.                                       *)
LEMMA AccountManaged ==
  ASSUME AccountInv, NEW r \in Requests, Management(r)
  PROVE  AccountInv'
<1>1. ASSUME NEW u \in Uids, IssueRequest(r, u) \/ DeleteRequest(r, u)  PROVE AccountInv'
  BY <1>1, RequestManages DEF IssueRequest, DeleteRequest
<1>2. ASSUME NEW u \in Uids, NEW k \in {a.key : a \in added}, RevokeRequest(r, u, k)
      PROVE  AccountInv'
  <2>1. k \in Keys  BY DEF AccountInv, TypeOK
  <2> QED  BY <1>2, <2>1, RequestManages DEF RevokeRequest
<1> QED
  BY <1>1, <1>2, CredentialRevoked, CodeReplaced, MemoryCleans, RequestFails, DataDeleted
  DEF Management

(* The inductive invariant of the accounts.                                *)
LEMMA AccountHolds == AccountInv /\ [Next]_vars => AccountInv'
<1> SUFFICES ASSUME AccountInv, [Next]_vars  PROVE AccountInv'  OBVIOUS
<1>1. CASE UNCHANGED vars
  <2> USE <1>1 DEF AccountInv, vars, history
  <2>1. AccountsWhole' /\ CodesWhole'  BY DocsRest
  <2>2. CodesSpent' /\ VersionsPass' /\ WarrantOnce' /\ VersionOnce'  BY HistoryRests DEF docs
  <2>3. TypeOK' /\ Read' /\ InOnePlace'
    BY DEF TypeOK, Read, InOnePlace, Held, Used, docs
  <2> QED  BY <2>1, <2>2, <2>3
<1> QED
  BY <1>1, Ticks, DocumentsExpire, Beginnings, RequestFinishes, AccountManaged, RequestFails
  DEF Next

(* In every state of any number of requests: the relation between an       *)
(* account, its credentials, its recovery code and the ceremonies in       *)
(* progress, as the transactions leave it (internal/passkey).              *)
THEOREM AccountAlways == Spec => []AccountInv
BY AccountStarts, AccountHolds, PTL DEF Spec

(* An account, its credential documents and its recovery code stay one     *)
(* whole, however requests that read, verify and commit apart interleave   *)
(* with each other, with a deletion and with the policy that expires       *)
(* documents: for any number of requests, accounts and credentials.        *)
THEOREM RelationWholeAlways == Spec => []RelationWhole
<1>1. AccountInv => RelationWhole
  <2> SUFFICES ASSUME AccountInv  PROVE RelationWhole  OBVIOUS
  <2>1. /\ user \in [Uids -> Users \union {Absent}] /\ index \in [Keys -> Documents \union {Absent}]
        /\ codeIndex \in [Codes -> CodeEntries \union {Absent}]
    BY DEF AccountInv, TypeOK
  <2>2. Present(user) \subseteq Uids /\ Present(index) \subseteq Keys /\ Present(codeIndex) \subseteq Codes
    BY <2>1 DEF Present
  <2>3. /\ \A u \in Present(user) : user[u] # Absent
        /\ \A k \in Present(index) : index[k] # Absent
        /\ \A c \in Present(codeIndex) : codeIndex[c] # Absent
    BY DEF Present
  <2> QED  BY <2>2, <2>3 DEF AccountInv, AccountsWhole, CodesWhole, RelationWhole
<1> QED  BY <1>1, AccountAlways, PTL

(* A ceremony and a recovery code warrant one credential, and one version  *)
(* of a credential one assertion, whoever sends the answer again.          *)
THEOREM SpentOnceAlways == Spec => []SpentOnce
<1>1. AccountInv => SpentOnce  BY DEF AccountInv, SpentOnce
<1> QED  BY <1>1, AccountAlways, PTL
=============================================================================
