----------------------------- MODULE MCDecisions -----------------------------
(* The decisions of a turn of the conversation agent for TLC.  Bounded     *)
(* inputs for the pure ones: the initial states are one seed for each      *)
(* family of inputs, a step completes a seed to an input (or, for a        *)
(* belief, observes one more attempt).  And the model calls of a turn, as  *)
(* a part of their own.                                                    *)
EXTENDS AnswerAudit, Qarc, AnswerVerifiers, TLC

SC == INSTANCE Shadowcut

VARIABLES part, input

vars == <<part, input, auditVars>>

Sep == "sep"
MaxObservations == 4   \* observations of one belief
MCDoubts == [w \in {"perhaps"} |-> 1]

ASSUME DecisionsAssumption == SupportAssumption /\ AuditAssumption

Words == {Sep, "er", "perhaps", "ten"}
Texts(n) == UNION {[1..k -> Words]: k \in 1..n}
Spans(text) == {SubSeq(text, i, j): i, j \in DOMAIN text}
Phrases == {<<"ten">>, <<"so">>, <<"perhaps", "so">>}
Joined(clauses) == FlattenSeq([i \in DOMAIN clauses |->
                       IF i = 1 THEN clauses[i] ELSE <<Sep>> \o clauses[i]])

-----------------------------------------------------------------------------
Turn(text, evidence, front, recon) ==
    [operator |-> "choice", required |-> {"choice"}, ambiguous |-> FALSE,
     evidence |-> [s \in {"choice"} |-> evidence], protected |-> {}, text |-> text,
     recon |-> recon, front |-> front]

Claim(first, position, issue, recon, faith, gain) ==
    [operator |-> "choice", required |-> {"choice"}, confidences |-> <<80>>, spread |-> FALSE,
     first |-> first, position |-> position, filled |-> {"choice"}, issue |-> issue,
     calibration |-> 0, minimal |-> first, recon |-> recon, faith |-> faith, gain |-> gain]

Attempts ==
    {[in |-> Turn(text, evidence, TRUE, recon), c |-> Claim(first, position, "none", text, 90, 0)]:
        text \in {input.text}, evidence \in Spans(input.text), first \in Spans(input.text),
        position \in {"first", "later"}, recon \in {<<>>, input.text}}

Repairs ==
    {[in |-> Turn(text, <<>>, TRUE, <<>>), c |-> Claim(first, "later", issue, recon, faith, 30)]:
        text \in {input.text}, first \in Spans(input.text), issue \in {"none", "background_first"},
        recon \in {Joined(p): p \in UNION {[1..k -> Phrases]: k \in 1..3}}, faith \in {80, 90}}

Observations ==
    [gate: {input.gate}, critic: Signals, phase: Phases, attempts: 0..MaxCoachAttempts,
     oneShot: BOOLEAN, hesitation: BOOLEAN, available: BOOLEAN]

Floors2 == [known: BOOLEAN, scoped: {TRUE}, endpoint: {input.endpoint}, protected: {FALSE},
            new: BOOLEAN, substantive: BOOLEAN, hesitation: BOOLEAN,
            attempts: 0..MaxCoachAttempts, cancelable: {TRUE}]

-----------------------------------------------------------------------------
\* A sink is plain, or privileged: its authority "m" needs the grant of that
\* authority, whatever the integrity of what the sink is given.
Postures == {"plain", "untrusted", "system"}

Node(kind, posture, m) ==
    LET sink == kind = "sink"
        holds == kind \in {"intent", "grant"} \/ (sink /\ posture # "plain")
    IN  [kind |-> kind,
         integrity |-> CASE kind = "intent" -> "authenticated"
                         [] kind = "grant" \/ (sink /\ posture = "system") -> "system"
                         [] OTHER -> "untrusted",
         authority |-> IF holds THEN {m} ELSE {},
         requires |-> IF sink /\ holds THEN {m} ELSE {},
         bound |-> holds,
         ref |-> IF holds THEN 1 ELSE 0]

Kinds == {"intent", "web", "model", "tool", "grant"}

\* Before the sink: up to three nodes, or a chain of two with its own grant.
Shapes == UNION {[1..k -> Kinds]: k \in 1..3} \cup
          {<<"intent", "grant", "web", "model">>, <<"web", "model", "intent", "grant">>,
           <<"web", "intent", "grant", "model">>, <<"intent", "grant", "model", "tool">>}

Trace(class, weight, nodes, edges) ==
    LET roots == {i \in DOMAIN nodes: ~\E e \in edges: e.to = i}
    IN  [class |-> class, weight |-> weight, nodes |-> nodes, edges |-> edges,
         sources |-> {i \in roots: class = "benign" \/ nodes[i].kind # "intent"}]

Traces ==
    LET kinds == Append(input.kinds, "sink")
        n == Len(kinds)
        nodes(p) == [i \in 1..n |-> Node(kinds[i], p, "read")]
        targets == {t \in [1..(n - 1) -> SUBSET (2..n)]:
                       \A i \in 1..(n - 1): /\ t[i] # {} /\ Cardinality(t[i]) <= 2
                                            /\ \A j \in t[i]: j > i}
        joints(t) == {<<i, j>> \in (1..n) \X (1..n): i < n /\ j \in t[i]}
        arcs(t, g) == {[from |-> p[1], to |-> p[2], guarded |-> p \in g,
                        kind |-> CHOOSE k \in SC!EdgeKinds(kinds[p[1]], kinds[p[2]]): TRUE]: p \in joints(t)}
        fits(t) == \A p \in joints(t): SC!EdgeKinds(kinds[p[1]], kinds[p[2]]) # {}
    IN  UNION {{Trace(class, 1, nodes(p), arcs(t, g)): class \in {"attack", "benign"},
                   p \in Postures, g \in SUBSET joints(t)}: t \in {u \in targets: fits(u)}}

\* A chain of kinds with one guard for each arc.
Line(class, weight, kinds, guards) ==
    LET n == Len(kinds)
    IN  Trace(class, weight, [i \in 1..n |-> Node(kinds[i], "plain", "read")],
              {[from |-> i, to |-> i + 1, guarded |-> guards[i],
                kind |-> CHOOSE k \in SC!EdgeKinds(kinds[i], kinds[i + 1]): TRUE]: i \in 1..(n - 1)})

\* The chain of an unprivileged sink beside the intent and the grant that its
\* sink needs as well; the guards of the grant's two arcs come first.
Granted(class, weight, chain, guards) ==
    LET kinds == <<"intent", "grant">> \o chain
        n == Len(kinds)
        after(i) == IF i = 2 THEN n ELSE i + 1
    IN  Trace(class, weight, [i \in 1..n |-> Node(kinds[i], "untrusted", "read")],
              {[from |-> i, to |-> after(i), guarded |-> guards[i],
                kind |-> CHOOSE k \in SC!EdgeKinds(kinds[i], kinds[after(i)]): TRUE]: i \in 1..(n - 1)})

Chains == {<<"web", "model", "sink">>, <<"memory", "model", "sink">>, <<"web", "model", "tool", "sink">>}
Lines(class, weight) ==
    UNION {{Line(class, weight, k, g): g \in [1..(Len(k) - 1) -> BOOLEAN]}: k \in Chains}
GrantedLines(class, weight) ==
    UNION {{Granted(class, weight, k, g): g \in [1..(Len(k) + 1) -> BOOLEAN]}: k \in Chains}

\* One attack; a normal trace that loses its memory boundary only, and one
\* that any cut of its chain, or of its grant when it has one, takes away.
Corpora ==
    {{input.attack, Line("benign", 1, <<"memory", "model", "sink">>, <<TRUE, out>>), normal}:
        out \in BOOLEAN,
        normal \in UNION {{Line("benign", heavy, k, [i \in 1..(Len(k) - 1) |-> TRUE]),
                           Granted("benign", heavy, k, [i \in 1..(Len(k) + 1) |-> TRUE])}:
                              heavy \in {1, 3}, k \in Chains}}

-----------------------------------------------------------------------------
Inputs ==
    \/ part = "own" /\ input \in [text: Texts(3)]
    \/ part = "repair" /\ input \in [text: {Joined(p): p \in [1..3 -> Phrases]}]
    \/ part = "plan" /\ input \in [gate: Signals]
    \/ part = "belief" /\ input \in [mass: {[i \in Latent |-> DefaultPrior[i] * (Scale \div 100)]}, left: {MaxObservations}]
    \/ part = "floor" /\ input \in [endpoint: BOOLEAN]
    \/ part = "trace" /\ input \in [kinds: Shapes]
    \/ part = "corpus" /\ input \in [attack: Lines("attack", 1) \cup GrantedLines("attack", 1)]

Init ==
    /\ Inputs \/ (part = "calls" /\ input = <<>>)
    /\ AuditInit
    /\ part # "calls" => turn = [mode |-> "foreground", deadline |-> Horizon]

Complete(p, inputs) ==
    /\ part = p
    /\ part' = p \o "!"
    /\ input' \in inputs
    /\ UNCHANGED auditVars

Observe ==
    /\ part = "belief" /\ input.left > 0
    /\ \E e \in Evidence: input' = [mass |-> Updated(input.mass, e), left |-> input.left - 1]
    /\ UNCHANGED <<part, auditVars>>

Next == \/ Complete("own", Attempts)
        \/ Complete("repair", Repairs)
        \/ Complete("plan", Observations)
        \/ Complete("floor", Floors2)
        \/ Complete("trace", Traces)
        \/ Complete("corpus", Corpora)
        \/ Observe
        \/ part = "calls" /\ AuditNext /\ UNCHANGED <<part, input>>

Spec == Init /\ [][Next]_vars

-----------------------------------------------------------------------------
(* Whatever the models claim, a scope completed as the person's own first  *)
(* answer began with their words (the gate, the critic and the coach), and *)
(* a released repair moves the commitment and nothing else.                *)
AnswerIsPersons ==
    /\ part = "own!" => OwnAnswerFirst(input.in, input.c)
    /\ part = "repair!" => RepairMovesOnly(input.in, input.c)

(* Prompts are bounded whatever the utilities prefer, no sequence of       *)
(* observations makes the stored belief unreadable, and QARC's greedy      *)
(* bounds are the optima they stand for.                                   *)
BoundsHold ==
    /\ part = "plan!" => NeverPressed(input)
    /\ part = "belief" => \A e \in Evidence: BeliefSurvives(input.mass, e)
    /\ part = "floor!" => BoundIsExact(input)

(* Search, verification and deduplication of traces agree, and what the    *)
(* search returns is feasible, minimal and accepted.                       *)
CutIsSound == /\ part = "trace!" => SC!TraversalsAgree(input)
              /\ part = "corpus!" => SC!CutIsEarned(input)
=============================================================================
