--------------------------- MODULE ExecutionLease ---------------------------
(***************************************************************************)
(* One-shot authority for an external lookup (internal/securityflow): a    *)
(* grant bound to a scope and a query is exchanged for a lease, the lease  *)
(* is consumed immediately before the lookup.  Callers run concurrently    *)
(* and sample the clock before they take the guard's mutex.  Signatures    *)
(* cannot be made by a caller: a grant or a lease that is presented is one *)
(* the guard gave out, with any scope and any proposal beside it.          *)
(***************************************************************************)
EXTENDS Integers, FiniteSets

CONSTANTS
  Callers, Scopes, Queries, Sources, Nonces,
  MaxTTL, IssuanceTTL, Capacity,
  LeaseTime            \* bound: the clock stops here

LeaseAssumption ==
  /\ IsFiniteSet(Scopes) /\ IsFiniteSet(Nonces) /\ Nonces \subseteq Nat \ {0}
  /\ MaxTTL \in Nat \ {0} /\ IssuanceTTL \in Nat \ {0}
  /\ Capacity \in Nat /\ LeaseTime \in Nat

VARIABLES
  time,
  issued,      \* Guard.issued: scope -> when its issuance is forgotten
  grants,      \* Guard.grants: nonces of grants that can be exchanged
  leases,      \* Guard.leases: nonces of leases that can be consumed
  given,       \* every grant and lease a caller was ever given
  pending,     \* what each caller is about to do under the mutex
  executed     \* history: the lookups that were made

leaseVars == <<time, issued, grants, leases, given, pending, executed>>

Moments == 0..LeaseTime
Expiries == 0..(LeaseTime + MaxTTL + IssuanceTTL)
Proposals == [query : Queries, sources : SUBSET Sources]
Grants == [kind : {"grant"}, nonce : Nonces, scope : Scopes, query : Queries,
           from : Moments, until : Expiries]
Leases == [kind : {"lease"}, nonce : Nonces, scope : Scopes, query : Queries,
           sources : SUBSET Sources, from : Moments, until : Expiries, of : Nonces]
NoCall == [at |-> 0]

(* What a model may propose: from the person's declared speech, never from *)
(* speech that was only overheard.                                         *)
ProposeCrossref(sources) ==
  {"model", "declared"} \subseteq sources /\ "ambient" \notin sources

LeaseInit ==
  /\ time = 0 /\ issued = [s \in Scopes |-> 0] /\ grants = [n \in Nonces |-> 0]
  /\ leases = [n \in Nonces |-> 0] /\ given = {} /\ executed = {}
  /\ pending = [c \in Callers |-> NoCall]

LeaseTick == /\ time < LeaseTime /\ time' = time + 1
             /\ UNCHANGED <<issued, grants, leases, given, pending, executed>>

(* 0 stands for an absent entry: no expiry is 0, a TTL is positive.        *)
Live(table) == {x \in DOMAIN table : table[x] # 0}
cleanup(table, now) == [x \in DOMAIN table |-> IF now >= table[x] THEN 0 ELSE table[x]]
Outstanding(i, g, l) == Cardinality(Live(i)) + Cardinality(Live(g)) + Cardinality(Live(l))

(* A random nonce is one that was never used: the next number.             *)
Fresh(n) == n = Cardinality(given) + 1

Waits(c, local) == /\ pending[c] = NoCall /\ pending' = [pending EXCEPT ![c] = local]
                   /\ UNCHANGED <<time, issued, grants, leases, given, executed>>
Returns(c) == pending' = [pending EXCEPT ![c] = NoCall]

(* BindDeclaredIntentionalAudioForCrossref: the clock, then the mutex.     *)
BindCall(c, s, q, ttl) == Waits(c, [op |-> "bind", at |-> time, scope |-> s, query |-> q, ttl |-> ttl])

Remembered(s, at) == [cleanup(issued, at) EXCEPT ![s] = at + IssuanceTTL]

Bind(c, n) ==
  LET p == pending[c]
      i == cleanup(issued, p.at)
      g == cleanup(grants, p.at)
      l == cleanup(leases, p.at)
      ok == i[p.scope] = 0 /\ Outstanding(i, g, l) + 2 <= Capacity
  IN /\ p # NoCall /\ p.op = "bind" /\ Fresh(n) /\ Returns(c)
     /\ leases' = l
     /\ IF ok
        THEN /\ issued' = Remembered(p.scope, p.at)
             /\ grants' = [g EXCEPT ![n] = p.at + p.ttl]
             /\ given' = given \union {[kind |-> "grant", nonce |-> n, scope |-> p.scope,
                                        query |-> p.query, from |-> p.at, until |-> p.at + p.ttl]}
        ELSE issued' = i /\ grants' = g /\ UNCHANGED given
     /\ UNCHANGED <<time, executed>>

(* MintCrossref: everything that needs no table is checked first.          *)
MintAccepts(t, s, q, src, at, ttl) ==
  /\ ProposeCrossref(src) /\ t.scope = s /\ t.query = q
  /\ t.from <= at /\ at < t.until /\ at + ttl <= t.until

MintCall(c, t, s, q, src, ttl) ==
  /\ t.kind = "grant" /\ MintAccepts(t, s, q, src, time, ttl)
  /\ Waits(c, [op |-> "mint", at |-> time, scope |-> s, query |-> q, sources |-> src,
               ttl |-> ttl, token |-> t])

(* Mutant: the grant is only looked at.                                    *)
KeepsGrant(g, n) == g

Exchanged(g, n) == [g EXCEPT ![n] = 0]

(* A grant is spent before the tables' limit and the random draw are known. *)
Mint(c, n, drawn) ==
  LET p == pending[c]
      i == cleanup(issued, p.at)
      g == cleanup(grants, p.at)
      l == cleanup(leases, p.at)
      spent == IF g[p.token.nonce] = 0 THEN g ELSE Exchanged(g, p.token.nonce)
      ok == g[p.token.nonce] # 0 /\ Outstanding(i, spent, l) + 1 <= Capacity /\ drawn
  IN /\ p # NoCall /\ p.op = "mint" /\ Fresh(n) /\ Returns(c)
     /\ issued' = i /\ grants' = spent
     /\ IF ok
        THEN /\ leases' = [l EXCEPT ![n] = p.at + p.ttl]
             /\ given' = given \union {[kind |-> "lease", nonce |-> n, scope |-> p.scope,
                  query |-> p.query, sources |-> p.sources, from |-> p.at,
                  until |-> p.at + p.ttl, of |-> p.token.nonce]}
        ELSE leases' = l /\ UNCHANGED given
     /\ UNCHANGED <<time, executed>>

(* CrossrefExecutor.Verify binds the query again; a mismatch costs nothing.*)
ConsumeAccepts(t, s, q, src, at) ==
  /\ ProposeCrossref(src) /\ t.scope = s /\ t.query = q /\ t.sources = src
  /\ t.from <= at /\ at < t.until

(* Mutant: the executor trusts the query that comes with the call.         *)
ConsumeAcceptsAnyQuery(t, s, q, src, at) ==
  /\ ProposeCrossref(src) /\ t.scope = s /\ t.sources = src /\ t.from <= at /\ at < t.until

ConsumeMatches(t, s, q, src, at) == ConsumeAccepts(t, s, q, src, at)

ConsumeCall(c, t, s, q, src) ==
  /\ t.kind = "lease" /\ ConsumeMatches(t, s, q, src, time)
  /\ Waits(c, [op |-> "consume", at |-> time, scope |-> s, query |-> q, sources |-> src, token |-> t])

(* The lookup itself follows at once; its failure is not retried here.     *)
ConsumeCrossref(c) ==
  LET p == pending[c]
      l == cleanup(leases, p.at)
  IN /\ p # NoCall /\ p.op = "consume" /\ Returns(c)
     /\ issued' = cleanup(issued, p.at) /\ grants' = cleanup(grants, p.at)
     /\ IF l[p.token.nonce] = 0
        THEN leases' = l /\ UNCHANGED executed
        ELSE /\ leases' = [l EXCEPT ![p.token.nonce] = 0]
             /\ executed' = executed \union
                  {[scope |-> p.scope, query |-> p.query, sources |-> p.sources,
                    grant |-> p.token.of, lease |-> p.token.nonce, by |-> c, at |-> p.at]}
     /\ UNCHANGED <<time, given>>

LeaseNext ==
  \/ LeaseTick
  \/ \E c \in Callers :
       \/ \E s \in Scopes, q \in Queries, ttl \in 1..MaxTTL : BindCall(c, s, q, ttl)
       \/ \E t \in given, s \in Scopes, q \in Queries, src \in SUBSET Sources :
            (\E ttl \in 1..MaxTTL : MintCall(c, t, s, q, src, ttl)) \/ ConsumeCall(c, t, s, q, src)
       \/ \E n \in Nonces : Bind(c, n) \/ \E drawn \in BOOLEAN : Mint(c, n, drawn)
       \/ ConsumeCrossref(c)

LeaseSpec == LeaseInit /\ [][LeaseNext]_leaseVars
-----------------------------------------------------------------------------
LeaseTypeOK ==
  /\ time \in Moments
  /\ issued \in [Scopes -> Expiries] /\ grants \in [Nonces -> Expiries]
  /\ leases \in [Nonces -> Expiries] /\ given \subseteq Grants \union Leases
  /\ Outstanding(issued, grants, leases) <= Capacity

(* However its holders race, a grant leads to at most one lookup, and the  *)
(* lookup is the one the grant was bound to, within its life as the caller *)
(* saw the clock.                                                          *)
OneLookupPerGrant ==
  /\ \A a, b \in executed : a.grant = b.grant => a = b
  /\ \A e \in executed : \E t \in given :
       /\ t.kind = "grant" /\ t.nonce = e.grant
       /\ t.scope = e.scope /\ t.query = e.query /\ t.from <= e.at /\ e.at < t.until
=============================================================================
