------------------------------ MODULE Shadowcut ------------------------------
(***************************************************************************)
(* internal/securityflow/shadowcut: the search for a set of enforcement    *)
(* points that cuts every attack trace and keeps as much of the normal     *)
(* traffic as it can, and its verification by a second traversal.          *)
(*                                                                         *)
(* A trace is [class, weight, nodes, edges, sources]: nodes is a sequence  *)
(* of [kind, integrity, authority, requires, bound, ref] indexed by their  *)
(* ordinals, edges a set of [from, to, kind, guarded].  "bound" is an      *)
(* exact binding, the only one validation lets through besides none.  An   *)
(* edge is guarded by the control of its kind or by none.  Limits on       *)
(* sizes, byte encodings and hashes are left out; two hashes agree when    *)
(* the encoded traces do.                                                  *)
(***************************************************************************)
EXTENDS Integers, Sequences, FiniteSets, FiniteSetsExt

Controls == 1..8   \* evidence, planner, memory, grant, tool, execution, speech, egress

Cost == <<1, 3, 2, 4, 2, 5, 4, 5>>

Evidence == {"ambient", "pdf", "web"}
Untrusted == Evidence \cup {"model", "tool", "memory"}

Integrities == <<"untrusted", "authenticated", "system">>
Level(i) == CHOOSE n \in DOMAIN Integrities: Integrities[n] = i

ControlOf(kind) ==
    CASE kind = "quote" -> 1 [] kind = "propose" -> 2 [] kind = "recall" -> 3
      [] kind = "issue_grant" -> 4 [] kind \in {"tool_call", "tool_result"} -> 5
      [] kind = "consume" -> 6 [] kind = "respond" -> 7 [] OTHER -> 8

\* Which kinds of edge may lead from one kind of node to another.
EdgeKinds(from, to) ==
    CASE from \in Evidence /\ to \in {"memory", "model"} -> {"quote"}
      [] from = "tool" /\ to = "model" -> {"tool_result"}
      [] from = "memory" /\ to = "model" -> {"recall"}
      [] from = "model" /\ to = "model" -> {"propose"}
      [] from = "intent" /\ to = "grant" -> {"issue_grant"}
      [] from = "grant" /\ to = "sink" -> {"consume"}
      [] from = "model" /\ to = "tool" -> {"tool_call"}
      [] from = "tool" /\ to = "sink" -> {"execute"}
      [] from = "model" /\ to = "sink" -> {"respond"}
      [] OTHER -> {}

-----------------------------------------------------------------------------
(* Validation. *)

ValidNode(n) ==
    LET plain == ~n.bound /\ n.ref = 0
        exact == n.bound /\ n.ref # 0
    IN  CASE n.kind = "intent" -> /\ n.integrity = "authenticated" /\ exact
                                  /\ n.authority # {} /\ n.requires = {}
          [] n.kind = "grant" -> /\ n.integrity = "system" /\ exact
                                 /\ n.authority # {} /\ n.requires = {}
          [] n.kind = "sink" -> \/ n.requires = {} /\ n.authority = {} /\ plain
                                \/ n.requires # {} /\ n.authority = n.requires /\ exact
          [] OTHER -> /\ n.kind \in Untrusted
                      /\ n.integrity = "untrusted" /\ plain
                      /\ n.authority = {} /\ n.requires = {}

Into(t, i) == {e \in t.edges: e.to = i}
OutOf(t, i) == {e \in t.edges: e.from = i}
IsSink(t, i) == t.nodes[i].kind = "sink"
Sink(t) == CHOOSE i \in DOMAIN t.nodes: IsSink(t, i)

ValidEdges(t) ==
    \A e \in t.edges:
        /\ e.from \in DOMAIN t.nodes /\ e.to \in DOMAIN t.nodes
        /\ e.from < e.to
        /\ e.kind \in EdgeKinds(t.nodes[e.from].kind, t.nodes[e.to].kind)

\* Roots are declared; only an attack may leave the person's intent undeclared.
ValidEndpoints(t) ==
    /\ t.sources # {} /\ t.sources \subseteq DOMAIN t.nodes
    /\ \A s \in t.sources:
           /\ Into(t, s) = {}
           /\ t.class = "attack" => t.nodes[s].authority = {}
    /\ Cardinality({i \in DOMAIN t.nodes: IsSink(t, i)}) = 1
    /\ Sink(t) \notin t.sources /\ OutOf(t, Sink(t)) = {}
    /\ \A i \in DOMAIN t.nodes \ t.sources:
           Into(t, i) = {} => t.class = "attack" /\ t.nodes[i].kind = "intent"

\* Slip: a node may fan out.
ShapeAllowsFanOut(t) ==
    \A i \in DOMAIN t.nodes:
        IF IsSink(t, i) THEN Into(t, i) # {} /\ OutOf(t, i) = {}
        ELSE Cardinality(Into(t, i)) <= 1 /\ OutOf(t, i) # {}

ValidCausalShape(t) ==
    \A i \in DOMAIN t.nodes:
        IF IsSink(t, i) THEN Into(t, i) # {} /\ OutOf(t, i) = {}
        ELSE Cardinality(Into(t, i)) <= 1 /\ Cardinality(OutOf(t, i)) = 1

\* Authority comes from the person's intent through one exact grant.
ValidAuthorityFlow(t) ==
    \A i \in DOMAIN t.nodes:
        LET n == t.nodes[i]
            parents == {t.nodes[e.from]: e \in Into(t, i)}
            grants == {e \in Into(t, i): e.kind = "consume"}
        IN  IF n.kind = "intent" THEN Into(t, i) = {}
            ELSE IF n.kind = "grant"
            THEN /\ Cardinality(Into(t, i)) = 1 /\ Cardinality(OutOf(t, i)) = 1
                 /\ \A e \in Into(t, i): e.kind = "issue_grant"
                 /\ \A p \in parents: n.authority = p.authority /\ n.ref = p.ref
                 /\ \A e \in OutOf(t, i): e.kind = "consume"
            ELSE IF Into(t, i) = {} THEN n.authority = {}
            ELSE /\ n.authority \subseteq UNION {p.authority: p \in parents}
                 /\ \A p \in parents: Level(n.integrity) <= Level(p.integrity)
                 /\ n.kind = "sink" /\ n.requires # {} =>
                       /\ Cardinality(grants) = 1
                       /\ \A e \in grants: /\ t.nodes[e.from].authority = n.requires
                                           /\ t.nodes[e.from].ref = n.ref
                 /\ n.kind = "sink" /\ n.requires = {} => grants = {}

-----------------------------------------------------------------------------
(* Reachability of the sink under a cut, three times.                      *)

Cuts(e, cut) == e.guarded /\ ControlOf(e.kind) \in cut

\* Slip: the consumption is looked at, the issue of its grant is not.
ConsumeExecutable(t, cut) ==
    \/ t.nodes[Sink(t)].requires = {}
    \/ \E e \in Into(t, Sink(t)): e.kind = "consume" /\ ~Cuts(e, cut)

\* sinkExecutable: a privileged sink also needs its grant and the grant's issue.
SinkExecutable(t, cut) ==
    LET consumes == {e \in Into(t, Sink(t)): e.kind = "consume"}
    IN  \/ t.nodes[Sink(t)].requires = {}
        \/ \E e \in consumes:
               /\ ~Cuts(e, cut)
               /\ \E p \in Into(t, e.from): p.kind = "issue_grant" /\ ~Cuts(p, cut)

\* sourceReachesSink, a search over every edge.
SourceReachesSink(t, source, cut) ==
    LET reaches[i \in DOMAIN t.nodes] ==
            IsSink(t, i) \/ \E e \in OutOf(t, i): ~Cuts(e, cut) /\ reaches[e.to]
    IN  reaches[source] /\ SinkExecutable(t, cut)

\* behaviorSourceReachesSink, which follows the only edge there is.
BehaviorReachesSink(t, source, cut) ==
    LET next(i) == CHOOSE e \in OutOf(t, i): \A f \in OutOf(t, i): e.to <= f.to
        walk[i \in DOMAIN t.nodes] ==
            IsSink(t, i) \/ (OutOf(t, i) # {} /\ ~Cuts(next(i), cut) /\ walk[next(i).to])
    IN  walk[source] /\ SinkExecutable(t, cut)

\* Slip: a cut grant stops the sink only when its consumption is cut as well.
GrantOutlivesCut(t, cut) ==
    LET consumes == {e \in Into(t, Sink(t)): e.kind = "consume"}
    IN  \/ t.nodes[Sink(t)].requires = {}
        \/ \E e \in consumes: \E p \in Into(t, e.from): ~Cuts(e, cut) \/ ~Cuts(p, cut)

\* verifySinkExecutable: every grant and every issue must be uncut.
VerifyExecutable(t, cut) ==
    LET consumes == {e \in Into(t, Sink(t)): e.kind = "consume"}
    IN  \/ t.nodes[Sink(t)].requires = {}
        \/ /\ Cardinality(consumes) = 1
           /\ \A e \in consumes:
                  LET issues == {p \in Into(t, e.from): p.kind = "issue_grant"}
                  IN  /\ ~Cuts(e, cut)
                      /\ Cardinality(issues) = 1 /\ \A p \in issues: ~Cuts(p, cut)

\* verifySourceReachesSink, whose search starts from the other end.
VerifyReachesSink(t, source, cut) ==
    LET from[i \in 0..Len(t.nodes)] ==
            IF i = 0 THEN {source}
            ELSE LET seen == from[i - 1]
                 IN  seen \cup {e.to: e \in {f \in t.edges: f.from \in seen /\ ~Cuts(f, cut)}}
    IN  Sink(t) \in from[Len(t.nodes)] /\ VerifyExecutable(t, cut)

Prepared(t) ==
    /\ t.weight > 0 /\ t.edges # {}
    /\ \A i \in DOMAIN t.nodes: ValidNode(t.nodes[i])
    /\ ValidEdges(t)
    /\ ValidEndpoints(t)
    /\ ValidCausalShape(t)
    /\ \A s \in t.sources: SourceReachesSink(t, s, {})
    /\ ValidAuthorityFlow(t)

\* The traversal "by" which an answer is found.
Reaches(by, t, source, cut) ==
    CASE by = "fingerprint" -> BehaviorReachesSink(t, source, cut)
      [] by = "search" -> SourceReachesSink(t, source, cut)
      [] by = "verifier" -> VerifyReachesSink(t, source, cut)

\* An attack is alive when one source gets through, a normal trace when all do.
Alive(t, cut, by) ==
    IF t.class = "attack" THEN \E s \in t.sources: Reaches(by, t, s, cut)
    ELSE \A s \in t.sources: Reaches(by, t, s, cut)

Fingerprint(t) == <<t.class, {cut \in SUBSET Controls: Alive(t, cut, "fingerprint")}>>

-----------------------------------------------------------------------------
(* The normal form: the chains from the roots to the sink, without labels. *)

Chain(t, root) ==
    LET node(i) == [t.nodes[i] EXCEPT !.ref = IF @ = 0 THEN 0 ELSE 1]
        next(i) == CHOOSE e \in OutOf(t, i): TRUE
        path[i \in DOMAIN t.nodes] ==
            IF OutOf(t, i) = {} THEN <<node(i)>>
            ELSE <<node(i), <<next(i).kind, next(i).guarded>> >> \o path[next(i).to]
    IN  <<root \in t.sources, path[root]>>

Canonical(t) ==
    LET roots == {i \in DOMAIN t.nodes: Into(t, i) = {}}
        chains == {Chain(t, r): r \in roots}
    IN  [class |-> t.class, weight |-> t.weight,
         chains |-> [c \in chains |-> Cardinality({r \in roots: Chain(t, r) = c})]]

-----------------------------------------------------------------------------
(* The search and its verification, over a set of traces.                  *)

Attacks(corpus) == {t \in corpus: t.class = "attack"}
Benign(corpus) == corpus \ Attacks(corpus)

ValidCorpus(corpus) ==
    /\ \A t \in corpus: Prepared(t)
    /\ Cardinality({Fingerprint(t): t \in corpus}) = Cardinality(corpus)
    /\ Attacks(corpus) # {} /\ Benign(corpus) # {}

Retained(corpus, cut, by) ==
    MapThenSumSet(LAMBDA t: t.weight, {t \in Benign(corpus): Alive(t, cut, by)})

CutCost(cut) == MapThenSumSet(LAMBDA c: Cost[c], cut)
Mask(cut) == MapThenSumSet(LAMBDA c: 2 ^ (c - 1), cut)

Objective(corpus, cut, by) ==
    [retained |-> Retained(corpus, cut, by), controlCount |-> Cardinality(cut),
     controlCost |-> CutCost(cut), mask |-> Mask(cut)]

\* Slip: the cheaper of two cuts wins, whatever it retains.
CheaperObjective(x, y) ==
    \/ x.controlCost < y.controlCost
    \/ x.controlCost = y.controlCost /\ x.mask < y.mask

BetterObjective(x, y) ==
    \/ x.retained > y.retained
    \/ x.retained = y.retained /\ x.controlCount < y.controlCount
    \/ /\ x.retained = y.retained /\ x.controlCount = y.controlCount
       /\ \/ x.controlCost < y.controlCost
          \/ x.controlCost = y.controlCost /\ x.mask < y.mask

Feasible(corpus, by) ==
    {cut \in SUBSET Controls: \A t \in Attacks(corpus): ~Alive(t, cut, by)}

Best(corpus, by) ==
    LET score == [cut \in Feasible(corpus, by) |-> Objective(corpus, cut, by)]
    IN  CHOOSE a \in DOMAIN score:
            \A b \in DOMAIN score \ {a}: BetterObjective(score[a], score[b])

Infeasible(corpus) == Feasible(corpus, "search") = {}

Certificate(corpus, cut, by) ==
    [traces |-> {Canonical(t): t \in corpus}, cut |-> cut,
     attacks |-> Cardinality(Attacks(corpus)),
     total |-> MapThenSumSet(LAMBDA t: t.weight, Benign(corpus)),
     retained |-> Retained(corpus, cut, by),
     controls |-> Cardinality(cut), cost |-> CutCost(cut)]

Synthesize(corpus) ==
    LET best == Best(corpus, "search")
    IN  [cut |-> best, certificate |-> Certificate(corpus, best, "search")]

Verify(corpus, cut, certificate) ==
    /\ Feasible(corpus, "verifier") # {}
    /\ cut = Best(corpus, "verifier")
    /\ certificate = Certificate(corpus, cut, "verifier")

-----------------------------------------------------------------------------
(* Properties. *)

(* On every trace that validation lets through the three traversals agree  *)
(* under every cut of its edges: the fingerprint that removes duplicates,  *)
(* the search and the verification mean the same behaviour.                *)
TraversalsAgree(t) ==
    Prepared(t) =>
        \A s \in t.sources: \A cut \in SUBSET {ControlOf(e.kind): e \in t.edges}:
            /\ SourceReachesSink(t, s, cut) = BehaviorReachesSink(t, s, cut)
            /\ SourceReachesSink(t, s, cut) = VerifyReachesSink(t, s, cut)

(* What the search returns, the verification accepts, and no other cut; a  *)
(* search fails only when an attack has a path no control guards; and no   *)
(* control of the result can be left out.                                  *)
CutIsEarned(corpus) ==
    ValidCorpus(corpus) =>
        IF Infeasible(corpus)
        THEN \E t \in Attacks(corpus): Alive(t, Controls, "search")
        ELSE LET found == Synthesize(corpus)
             IN  /\ Verify(corpus, found.cut, found.certificate)
                 /\ \A c \in found.cut:
                        \E t \in Attacks(corpus): Alive(t, found.cut \ {c}, "search")
                 /\ \A cut \in Feasible(corpus, "search"):
                        Retained(corpus, cut, "search") <= found.certificate.retained
=============================================================================
