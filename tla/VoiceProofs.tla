----------------------------- MODULE VoiceProofs -----------------------------
(***************************************************************************)
(* Proofs about the voice of a turn, for every value of the constants: the *)
(* speculative audio of a reply implements AudioRelease, is spoken whole,  *)
(* and never begins twice; the native turn implements TurnVoice and falls  *)
(* back only in silence; the caption handoff publishes PCM only after its  *)
(* checkpoint, and none after it returned; a connection opened ahead has   *)
(* one owner, whose stream nobody else cancels; the cache of synthesized   *)
(* speech is sound and a put that finds no room loses nothing.             *)
(***************************************************************************)
EXTENDS MCVoice, FiniteSetTheorems, TLAPS

-----------------------------------------------------------------------------
(* The units of a reply, in order.                                         *)

Lists == Seq(Int)

(* q holds the units that follow unit a.                                   *)
Follows(q, a) == \A j \in 1..Len(q) : q[j] = a + j

(* The chunks cs hold the units after a, up to b: start[i] is the unit     *)
(* before the i-th chunk.                                                  *)
Starts(cs, a, b, start) ==
  /\ start \in [1..(Len(cs) + 1) -> 0..b] /\ start[1] = a /\ start[Len(cs) + 1] = b
  /\ \A i \in 1..Len(cs) : /\ start[i + 1] = start[i] + Len(cs[i])
                           /\ Follows(cs[i], start[i])
Joined(cs, a, b) == \E start \in [1..(Len(cs) + 1) -> 0..b] : Starts(cs, a, b, start)

Rows == Seq(Lists)
Runs == [at : {"stream", "write", "claimed", "sending", "failing", "ok", "err", "done"},
         rest : Lists]
Stops == {"idle", "boundary", "begin", "release", "deliver", "await",
          "spoken", "fallback", "failed", "cancelled"}
Turning == [at : Stops, completed : BOOLEAN]

Typed ==
  /\ state \in {"pending", "releasing", "live", "discarded"}
  /\ chunks \in Rows /\ rel \in Rows /\ buffered \in 0..Capacity
  /\ delivering \in BOOLEAN /\ peaked \in BOOLEAN /\ full \in BOOLEAN /\ asleep \in BOOLEAN
  /\ watching \in BOOLEAN /\ ctxDone \in BOOLEAN /\ cancelDue \in BOOLEAN
  /\ prepared \in BOOLEAN /\ turnCtxDone \in BOOLEAN
  /\ prov \in Runs /\ made \in Nat /\ result \in {"none", "ok", "err"}
  /\ turn \in Turning /\ out \in Lists

(* Where the turn, the buffer and the synthesis can be at the same time.   *)
Stages ==
  /\ turn.at \in {"idle", "boundary", "begin", "fallback", "cancelled"} =>
       out = << >> /\ state \in {"pending", "discarded"}
  /\ turn.at \in {"fallback", "cancelled", "failed"} => state = "discarded"
  /\ turn.at \in {"release", "deliver"} => state \in {"releasing", "discarded"}
  /\ turn.at \in {"await", "spoken"} => state \in {"live", "discarded"}
  /\ delivering <=> turn.at = "deliver"
  /\ prov.at \in {"claimed", "sending"} => turn.at \in {"await", "spoken", "failed"}
  /\ watching => state # "live"

(* What the result of the synthesis says.                                  *)
Results ==
  /\ result # "none" <=> prov.at = "done"
  /\ turn.completed => result = "ok"
  /\ prov.at = "err" \/ result = "err" => state = "discarded"
  /\ turn.at = "await" /\ state = "discarded" => prov.at \in {"failing", "err"} \/ result = "err"
  /\ turn.at = "spoken" => result = "ok" /\ Len(out) = made

(* Where the units of the reply are.                                       *)
Places ==
  /\ Follows(out, 0) /\ Len(out) <= made
  /\ prov.at \in {"stream", "ok"} \/ result = "ok" => prov.rest = << >>
  /\ prov.at = "write" => Follows(prov.rest, made - Len(prov.rest)) /\ Len(prov.rest) <= made
  /\ prov.at \in {"claimed", "sending"} =>
       Follows(prov.rest, Len(out)) /\ Len(out) + Len(prov.rest) = made
  /\ state = "pending" => /\ Joined(chunks, 0, made - Len(prov.rest))
                          /\ buffered = made - Len(prov.rest)
  /\ state = "releasing" => Joined(rel, Len(out), made - Len(prov.rest))
  /\ state = "live" /\ prov.at # "failing" => Len(out) + Len(prov.rest) = made
  /\ delivering => /\ rel # << >> /\ Follows(Head(rel), Len(out))
                   /\ Len(out) + Len(Head(rel)) <= made

SpeechInv == Typed /\ Stages /\ Results /\ Places

-----------------------------------------------------------------------------
(* Facts about chunks.                                                     *)

(* An empty list of chunks.                                                *)
LEMMA NoChunks == << >> \in Rows /\ << >> \in Lists /\ Len(<< >>) = 0
BY DEF Rows, Lists

(* No chunk holds no unit.                                                 *)
LEMMA JoinedNone ==
  ASSUME NEW a \in Nat
  PROVE  /\ Joined(<< >>, a, a)
         /\ \A b \in Nat : Joined(<< >>, a, b) => a = b
<1>1. Joined(<< >>, a, a)
  <2> DEFINE start == [i \in 1..1 |-> a]
  <2>1. start \in [1..(Len(<< >>) + 1) -> 0..a] /\ start[1] = a  OBVIOUS
  <2>2. Starts(<< >>, a, a, start)  BY <2>1 DEF Starts
  <2> QED  BY <2>1, <2>2 DEF Joined
<1>2. \A b \in Nat : Joined(<< >>, a, b) => a = b
  BY DEF Joined, Starts
<1> QED  BY <1>1, <1>2

(* A chunk that follows is joined to the list.                             *)
LEMMA JoinedAppend ==
  ASSUME NEW cs \in Rows, NEW c \in Lists, NEW a \in Nat, NEW b \in Nat,
         Joined(cs, a, b), Follows(c, b)
  PROVE  Joined(Append(cs, c), a, b + Len(c))
<1>1. PICK start \in [1..(Len(cs) + 1) -> 0..b] : Starts(cs, a, b, start)
  BY DEF Joined
<1>2. PICK l \in Nat : l = Len(cs)  BY DEF Rows
<1>3. PICK n \in Nat : n = Len(c)  BY DEF Lists
<1>4. PICK ds : ds = Append(cs, c)  OBVIOUS
<1>5. Len(ds) = l + 1 /\ ds[l + 1] = c /\ \A i \in 1..l : ds[i] = cs[i]
  BY <1>2, <1>4 DEF Rows
<1> DEFINE next == [i \in 1..(l + 2) |-> IF i = l + 2 THEN b + n ELSE start[i]]
<1>6. next \in [1..(Len(ds) + 1) -> 0..(b + n)]
  <2>1. \A i \in 1..(l + 1) : start[i] \in 0..b  BY <1>1, <1>2
  <2>2. \A i \in 1..(l + 2) : next[i] \in 0..(b + n)  BY <2>1
  <2> QED  BY <1>5, <2>2
<1>7. next[1] = a /\ next[Len(ds) + 1] = b + n /\ next[l + 1] = b
  BY <1>1, <1>2, <1>5 DEF Starts
<1>8. \A i \in 1..Len(ds) : /\ next[i + 1] = next[i] + Len(ds[i])
                            /\ Follows(ds[i], next[i])
  <2> SUFFICES ASSUME NEW i \in 1..(l + 1)
               PROVE  next[i + 1] = next[i] + Len(ds[i]) /\ Follows(ds[i], next[i])
    BY <1>5
  <2>1. CASE i = l + 1
    <3>1. next[i + 1] = b + n  BY <2>1
    <3> QED  BY <1>3, <1>5, <1>7, <2>1, <3>1
  <2>2. CASE i \in 1..l
    <3>1. next[i + 1] = start[i + 1] /\ next[i] = start[i]  BY <2>2
    <3> QED  BY <1>1, <1>2, <1>5, <2>2, <3>1 DEF Starts
  <2> QED  BY <2>1, <2>2
<1> HIDE DEF next
<1>9. Starts(ds, a, b + n, next)
  BY <1>6, <1>7, <1>8 DEF Starts
<1> QED  BY <1>3, <1>4, <1>6, <1>9 DEF Joined

(* Without its first chunk the list holds what follows that.               *)
LEMMA JoinedTail ==
  ASSUME NEW cs \in Rows, cs # << >>, NEW a \in Nat, NEW b \in Nat, Joined(cs, a, b)
  PROVE  /\ Follows(Head(cs), a) /\ a + Len(Head(cs)) \in Nat /\ a + Len(Head(cs)) <= b
         /\ Joined(Tail(cs), a + Len(Head(cs)), b)
<1>1. PICK start \in [1..(Len(cs) + 1) -> 0..b] : Starts(cs, a, b, start)
  BY DEF Joined
<1>2. PICK l \in Nat : l = Len(cs) /\ l > 0  BY DEF Rows
<1>3. PICK ds : ds = Tail(cs)  OBVIOUS
<1>4. Len(ds) = l - 1 /\ \A i \in 1..(l - 1) : ds[i] = cs[i + 1]
  BY <1>2, <1>3 DEF Rows
<1>5. Head(cs) = cs[1] /\ Head(cs) \in Lists  BY <1>2 DEF Rows
<1>6. start[2] = a + Len(Head(cs)) /\ Follows(Head(cs), a) /\ start[2] \in 0..b
  BY <1>1, <1>2, <1>5 DEF Starts
<1> DEFINE next == [i \in 1..l |-> start[i + 1]]
<1>7. next \in [1..(Len(ds) + 1) -> 0..b]
  <2>1. \A i \in 1..l : start[i + 1] \in 0..b  BY <1>1, <1>2
  <2> QED  BY <1>4, <2>1
<1>8. next[1] = start[2] /\ next[Len(ds) + 1] = b
  BY <1>1, <1>2, <1>4 DEF Starts
<1>9. \A i \in 1..Len(ds) : /\ next[i + 1] = next[i] + Len(ds[i])
                            /\ Follows(ds[i], next[i])
  <2> SUFFICES ASSUME NEW i \in 1..(l - 1)
               PROVE  next[i + 1] = next[i] + Len(ds[i]) /\ Follows(ds[i], next[i])
    BY <1>4
  <2>1. next[i + 1] = start[(i + 1) + 1] /\ next[i] = start[i + 1] /\ i + 1 \in 1..Len(cs)
    BY <1>2
  <2> QED  BY <1>1, <1>4, <2>1 DEF Starts
<1> HIDE DEF next
<1>10. Starts(ds, start[2], b, next)
  BY <1>7, <1>8, <1>9 DEF Starts
<1> QED  BY <1>3, <1>6, <1>7, <1>10 DEF Joined

(* A chunk is cut; what follows is heard.                                  *)
LEMMA Cut ==
  ASSUME NEW q \in Lists, NEW a \in Int, NEW n \in 0..Len(q), Follows(q, a)
  PROVE  /\ SubSeq(q, 1, n) \in Lists /\ Len(SubSeq(q, 1, n)) = n
         /\ Follows(SubSeq(q, 1, n), a)
         /\ SubSeq(q, n + 1, Len(q)) \in Lists /\ Len(SubSeq(q, n + 1, Len(q))) = Len(q) - n
         /\ Follows(SubSeq(q, n + 1, Len(q)), a + n)
BY DEF Lists, Follows

(* What is played after a prefix of the reply extends the prefix.          *)
LEMMA Heard ==
  ASSUME NEW p \in Lists, NEW q \in Lists, Follows(p, 0), Follows(q, Len(p))
  PROVE  /\ p \o q \in Lists /\ Len(p \o q) = Len(p) + Len(q) /\ Follows(p \o q, 0)
         /\ q = [i \in 1..Len(q) |-> Len(p) + i]
BY SMTT(30) DEF Lists, Follows

(* The units of a chunk as the stream makes them.                          *)
LEMMA Numbered ==
  ASSUME NEW m \in Nat, NEW n \in Nat
  PROVE  /\ [i \in 1..n |-> m + i] \in Lists /\ Len([i \in 1..n |-> m + i]) = n
         /\ Follows([i \in 1..n |-> m + i], m)
BY DEF Lists, Follows

(* What a discard leaves of the released chunks.                           *)
LEMMA WipedStays ==
  ASSUME Typed
  PROVE  /\ WipedRelease \in Rows /\ (rel # << >> => WipedRelease # << >>)
         /\ delivering /\ rel # << >> => Head(WipedRelease) = Head(rel)
<1>1. rel \in Seq(Lists)  BY DEF Typed, Rows
<1>2. \A i \in DOMAIN rel : rel[i] \in Seq(Int) /\ Wiped(rel[i]) \in Seq(Int)
  <2>1. \A c \in Seq(Int) : Wiped(c) \in Seq(Int)
    <3> SUFFICES ASSUME NEW c \in Seq(Int)  PROVE Wiped(c) \in Seq(Int)  OBVIOUS
    <3>1. Wiped(c) = [i \in 1..Len(c) |-> 0] /\ Len(c) \in Nat  BY DEF Wiped
    <3>2. [i \in 1..Len(c) |-> 0] \in Seq(Int)  BY <3>1
    <3> QED  BY <3>1, <3>2
  <2> QED  BY <1>1, <2>1 DEF Lists
<1>3. \A i \in 1..Len(rel) : WipedRelease[i] \in Lists
  BY <1>1, <1>2 DEF WipedRelease, Lists
<1>4. WipedRelease \in [1..Len(rel) -> Lists]
  <2>1. DOMAIN rel = 1..Len(rel)  BY <1>1
  <2>2. WipedRelease = [i \in 1..Len(rel) |-> WipedRelease[i]]  BY <2>1 DEF WipedRelease
  <2> QED  BY <1>3, <2>2
<1>5. WipedRelease \in Seq(Lists) /\ Len(WipedRelease) = Len(rel)
  BY <1>1, <1>4
<1>6. ASSUME rel # << >>  PROVE WipedRelease # << >> /\ (delivering => Head(WipedRelease) = Head(rel))
  <2>1. 1 \in DOMAIN rel  BY <1>1, <1>6
  <2>2. delivering => WipedRelease[1] = rel[1]  BY <2>1 DEF WipedRelease
  <2> QED  BY <1>1, <1>5, <1>6, <2>2
<1> QED  BY <1>5, <1>6 DEF Rows

(* A place of the turn, with or without the result.                        *)
LEMMA Moved ==
  /\ \A a \in Stops, c \in BOOLEAN : [at |-> a, completed |-> c] \in Turning
  /\ \A m \in Turning : m.at \in Stops /\ m.completed \in BOOLEAN
BY DEF Turning

(* Discarding forgets the chunks, but not the one that is being delivered. *)
LEMMA DiscardKeeps ==
  ASSUME SpeculativeAudioAssumption, Typed, Discarded
  PROVE  /\ state' = "discarded" /\ chunks' \in Rows /\ rel' \in Rows /\ buffered' \in 0..Capacity
         /\ watching' = FALSE /\ asleep' = FALSE
         /\ delivering /\ rel # << >> => rel' # << >> /\ Head(rel') = Head(rel)
BY NoChunks, WipedStays DEF Typed, Discarded, SpeculativeAudioAssumption

-----------------------------------------------------------------------------
(* One lemma per group of steps: the synthesis goroutine.                  *)

(* The stream has a chunk.                                                 *)
LEMMA ChunkStep ==
  ASSUME SpeculativeAudioAssumption, SpeechInv, Chunk
  PROVE  SpeechInv'
<1>1. PICK n \in 1..MaxChunk :
        /\ prov.at = "stream" /\ made' = made + n
        /\ prov' = [at |-> "write", rest |-> [i \in 1..n |-> made + i]]
        /\ UNCHANGED <<state, chunks, buffered, rel, delivering, peaked, full, asleep, watching,
                       ctxDone, cancelDue, prepared, result, turn, turnCtxDone, out>>
  BY DEF Chunk, bufferVars, turnVars
<1>2. n \in Nat /\ made \in Nat
  BY DEF SpeechInv, Typed, SpeculativeAudioAssumption
<1>3. PICK q \in Lists : /\ q = [i \in 1..n |-> made + i] /\ Len(q) = n /\ Follows(q, made)
  BY <1>2, Numbered
<1>4. prov' = [at |-> "write", rest |-> q]
  BY <1>1, <1>3
<1>5. Typed'
  BY <1>1, <1>2, <1>4 DEF SpeechInv, Typed, Runs
<1>6. Stages' /\ Results'
  BY <1>1, <1>4 DEF SpeechInv, Stages, Results
<1>7. Places'
  <2>1. prov.rest = << >>  BY <1>1 DEF SpeechInv, Places
  <2>2. made' - Len(q) = made /\ made - Len(prov.rest) = made /\ Len(q) \in Nat
    BY <1>1, <1>2, <1>3, <2>1, NoChunks
  <2>3. result = "none"  BY <1>1 DEF SpeechInv, Results, Typed
  <2>4. Len(out) \in Nat /\ (delivering => Len(Head(rel)) \in Int)
    BY DEF SpeechInv, Typed, Places, Lists, Rows
  <2>5. prov'.rest = q /\ prov'.at = "write" /\ made' = made + n  BY <1>1, <1>4
  <2> QED
    BY <1>1, <1>2, <1>3, <2>1, <2>2, <2>3, <2>4, <2>5 DEF SpeechInv, Places
<1> QED  BY <1>5, <1>6, <1>7 DEF SpeechInv

(* The synthesis is refused: a chunk too large, a failure, a context that  *)
(* is over.                                                                *)
LEMMA RefusedStep ==
  ASSUME SpeculativeAudioAssumption, SpeechInv, BadChunk \/ Fail \/ WatchContext
  PROVE  SpeechInv'
<1>1. /\ Discarded /\ UNCHANGED <<delivering, peaked, full, ctxDone, cancelDue, prepared, made,
                                  result, turn, turnCtxDone, out>>
      /\ \/ prov.at = "stream" /\ prov' = [prov EXCEPT !.at = "failing"]
         \/ prov.at = "failing" /\ prov' = [prov EXCEPT !.at = "err"]
         \/ prov' = prov /\ watching
  BY DEF BadChunk, Fail, WatchContext, provVars, turnVars
<1>2. /\ state' = "discarded" /\ chunks' \in Rows /\ rel' \in Rows /\ buffered' \in 0..Capacity
      /\ watching' = FALSE /\ asleep' = FALSE
      /\ delivering /\ rel # << >> => rel' # << >> /\ Head(rel') = Head(rel)
  BY <1>1, DiscardKeeps DEF SpeechInv
<1>3. prov' \in Runs /\ prov'.rest = prov.rest
      /\ \/ prov'.at = prov.at /\ watching
         \/ prov'.at \in {"failing", "err"} /\ prov.at \in {"stream", "failing"}
  <2>1. prov \in Runs  BY DEF SpeechInv, Typed
  <2>2. CASE prov.at = "stream" /\ prov' = [prov EXCEPT !.at = "failing"]
    BY <2>1, <2>2 DEF Runs
  <2>3. CASE prov.at = "failing" /\ prov' = [prov EXCEPT !.at = "err"]
    BY <2>1, <2>3 DEF Runs
  <2>4. CASE prov' = prov /\ watching
    <3>1. prov' = prov  BY <2>4
    <3>2. watching  BY <2>4
    <3>3. prov'.at = prov.at /\ prov'.rest = prov.rest  BY <3>1
    <3> QED  BY <2>1, <3>1, <3>2, <3>3
  <2> QED  BY <1>1, <2>2, <2>3, <2>4
<1>4. Typed'
  BY <1>1, <1>2, <1>3 DEF SpeechInv, Typed
<1>5. Stages'
  BY <1>1, <1>2, <1>3 DEF SpeechInv, Stages
<1>6. Results'
  BY <1>1, <1>2, <1>3 DEF SpeechInv, Results, Stages
<1>7. Places'
  BY <1>1, <1>2, <1>3 DEF SpeechInv, Results, Places
<1> QED  BY <1>4, <1>5, <1>6, <1>7 DEF SpeechInv

(* The buffer takes a chunk while the reply is held.                       *)
LEMMA WriteBufferedStep ==
  ASSUME SpeculativeAudioAssumption, SpeechInv, WriteBuffered
  PROVE  SpeechInv'
<1>1. PICK n : n = IF Len(prov.rest) < Room THEN Len(prov.rest) ELSE Room  OBVIOUS
<1>2. /\ prov.at = "write" /\ state = "pending" /\ Room # 0
      /\ chunks' = Append(chunks, SubSeq(prov.rest, 1, n)) /\ buffered' = buffered + n
      /\ full' = (full \/ Announced(buffered + n)) /\ peaked' = TRUE
      /\ prov' = IF n = Len(prov.rest) THEN [at |-> "stream", rest |-> << >>]
                 ELSE [prov EXCEPT !.rest = SubSeq(prov.rest, n + 1, Len(prov.rest))]
      /\ UNCHANGED <<state, rel, delivering, asleep, watching, ctxDone, cancelDue, prepared, made,
                     result, turn, turnCtxDone, out>>
  BY <1>1 DEF WriteBuffered, MustWait, turnVars
<1>3. /\ prov.rest \in Lists /\ Len(prov.rest) \in Nat /\ made \in Nat /\ chunks \in Rows
      /\ Follows(prov.rest, made - Len(prov.rest)) /\ Len(prov.rest) <= made
      /\ Joined(chunks, 0, made - Len(prov.rest)) /\ buffered = made - Len(prov.rest)
      /\ result = "none"
  BY <1>2 DEF SpeechInv, Typed, Places, Results, Runs, Lists
<1>4. n \in 0..Len(prov.rest) /\ buffered + n \in 0..Capacity
  <2>1. buffered \in 0..Capacity /\ Capacity \in Nat
    BY DEF SpeechInv, Typed, SpeculativeAudioAssumption
  <2>2. Room \in Nat /\ buffered + Room = Capacity  BY <2>1 DEF Room
  <2> QED  BY <1>1, <1>3, <2>1, <2>2
<1>5. PICK c \in Lists : c = SubSeq(prov.rest, 1, n) /\ Len(c) = n /\ Follows(c, made - Len(prov.rest))
  <2>1. made - Len(prov.rest) \in Int  BY <1>3
  <2> QED  BY <1>3, <1>4, <2>1, Cut
<1>6. PICK q \in Lists : /\ q = SubSeq(prov.rest, n + 1, Len(prov.rest))
                         /\ Len(q) = Len(prov.rest) - n
                         /\ Follows(q, made - Len(prov.rest) + n)
  <2>1. made - Len(prov.rest) \in Int  BY <1>3
  <2> QED  BY <1>3, <1>4, <2>1, Cut
<1>7. PICK cs : cs = Append(chunks, c)  OBVIOUS
<1>8. cs \in Rows /\ chunks' = cs
  BY <1>2, <1>3, <1>5, <1>7 DEF Rows
<1>9. Joined(cs, 0, made - Len(prov.rest) + n)
  <2>1. made - Len(prov.rest) \in Nat /\ 0 \in Nat  BY <1>3
  <2> QED  BY <1>3, <1>5, <1>7, <2>1, JoinedAppend
<1>10. /\ prov' \in Runs /\ Len(prov'.rest) = Len(prov.rest) - n
       /\ \/ prov'.at = "stream" /\ prov'.rest = << >>
          \/ prov'.at = "write" /\ Follows(prov'.rest, made - Len(prov.rest) + n)
  <2>1. CASE n = Len(prov.rest)
    <3>1. prov' = [at |-> "stream", rest |-> << >>]  BY <1>2, <2>1
    <3> QED  BY <1>3, <2>1, <3>1, NoChunks DEF Runs
  <2>2. CASE n # Len(prov.rest)
    <3>1. prov' = [prov EXCEPT !.rest = q]  BY <1>2, <1>6, <2>2
    <3> QED  BY <1>2, <1>6, <3>1 DEF SpeechInv, Typed, Runs
  <2> QED  BY <2>1, <2>2
<1>11. Typed'
  <2>1. full' \in BOOLEAN
    <3>1. PICK b \in BOOLEAN : b = (full \/ Announced(buffered + n))  BY DEF SpeechInv, Typed, Announced
    <3> QED  BY <1>2, <3>1
  <2> QED  BY <1>2, <1>4, <1>8, <1>10, <2>1 DEF SpeechInv, Typed
<1>12. Stages' /\ Results'
  BY <1>2, <1>10 DEF SpeechInv, Stages, Results
<1>13. Places'
  <2>1. made' - Len(prov'.rest) = made - Len(prov.rest) + n
    BY SMTT(30), <1>2, <1>3, <1>4, <1>10
  <2>2. Len(prov'.rest) <= made  BY <1>3, <1>4, <1>10
  <2>3. ~delivering  BY <1>2 DEF SpeechInv, Stages
  <2>4. UNCHANGED <<state, delivering, made, result, out>>  BY <1>2
  <2>5. Follows(out, 0) /\ Len(out) <= made  BY DEF SpeechInv, Places
  <2>6. buffered' = made - Len(prov.rest) + n  BY <1>2, <1>3
  <2>7. prov'.at = "write" => Follows(prov'.rest, made' - Len(prov'.rest))
    BY <1>10, <2>1
  <2>8. Joined(chunks', 0, made' - Len(prov'.rest)) /\ buffered' = made' - Len(prov'.rest)
    BY <1>8, <1>9, <2>1, <2>6
  <2>9. state = "pending" /\ result = "none"  BY <1>2, <1>3
  <2> QED
    BY <1>10, <2>2, <2>3, <2>4, <2>5, <2>7, <2>8, <2>9 DEF Places
<1> QED  BY <1>11, <1>12, <1>13 DEF SpeechInv

(* The steps of a stream that is, or waits to be, live.                    *)
LEMMA LiveStep ==
  ASSUME SpeechInv, Sleep \/ ClaimLive \/ SendLive \/ WriteRefused \/ StreamEnds \/ CloseDone
  PROVE  SpeechInv'
<1>1. /\ UNCHANGED <<state, chunks, buffered, rel, delivering, peaked, full, watching,
                     ctxDone, cancelDue, prepared, made, turn, turnCtxDone, out>>
      /\ asleep' \in BOOLEAN
      /\ \/ UNCHANGED <<prov, result>>
         \/ /\ prov.at = "write" /\ state = "live" /\ prov' = [prov EXCEPT !.at = "claimed"]
            /\ UNCHANGED result
         \/ /\ prov.at = "claimed" /\ prov' = [prov EXCEPT !.at = "failing"] /\ UNCHANGED result
         \/ /\ prov.at = "claimed" /\ prov' = [prov EXCEPT !.at = "sending"] /\ UNCHANGED result
         \/ /\ prov.at = "write" /\ state = "discarded" /\ prov' = [prov EXCEPT !.at = "failing"]
            /\ UNCHANGED result
         \/ /\ prov.at = "stream" /\ prov' = [prov EXCEPT !.at = "ok"] /\ UNCHANGED result
         \/ /\ prov.at \in {"ok", "err"} /\ result' = prov.at /\ prov' = [prov EXCEPT !.at = "done"]
  BY DEF SpeechInv, Typed, Sleep, ClaimLive, SendLive, WriteRefused, StreamEnds, CloseDone,
     bufferVars, provVars, turnVars
<1>2. prov' \in Runs /\ prov'.rest = prov.rest /\ result' \in {"none", "ok", "err"}
  BY <1>1 DEF SpeechInv, Typed, Runs
<1>3. Typed'
  BY <1>1, <1>2 DEF SpeechInv, Typed
<1>4. Stages'
  <2>1. ASSUME prov.at = "write", state = "live"  PROVE turn.at \in {"await", "spoken"}
    BY <2>1 DEF SpeechInv, Stages, Typed, Turning, Stops
  <2> QED  BY <1>1, <1>2, <2>1 DEF SpeechInv, Typed, Runs, Stages
<1>5. Results'
  BY <1>1 DEF SpeechInv, Results, Typed, Runs, Stages
<1>6. Places'
  BY <1>1 DEF SpeechInv, Places, Results, Typed, Runs, Stages
<1> QED  BY <1>3, <1>4, <1>5, <1>6 DEF SpeechInv

(* A chunk was sent live: it continues what was heard.                     *)
LEMMA SentLiveStep ==
  ASSUME SpeechInv, SentLive
  PROVE  SpeechInv'
<1>1. /\ prov.at = "sending"
      /\ \/ prov' = [at |-> "stream", rest |-> << >>] /\ out' = out \o prov.rest
         \/ prov' = [prov EXCEPT !.at = "failing"] /\ out' \in {out, out \o prov.rest}
      /\ UNCHANGED <<state, chunks, buffered, rel, delivering, peaked, full, asleep, watching,
                     ctxDone, cancelDue, prepared, made, result, turn, turnCtxDone>>
  BY DEF SentLive, bufferVars, turnVars
<1>2. /\ out \in Lists /\ prov.rest \in Lists /\ Follows(out, 0) /\ Follows(prov.rest, Len(out))
      /\ Len(out) + Len(prov.rest) = made /\ Len(out) \in Nat /\ Len(prov.rest) \in Nat
  BY <1>1 DEF SpeechInv, Typed, Places, Runs, Lists
<1>3. PICK more \in Lists : /\ more = out \o prov.rest /\ Len(more) = made /\ Follows(more, 0)
  BY <1>2, Heard
<1>4. /\ out' \in {out, more} /\ prov' \in Runs
      /\ \/ prov'.at = "stream" /\ prov'.rest = << >> /\ out' = more
         \/ prov'.at = "failing" /\ prov'.rest = prov.rest
  BY <1>1, <1>3, NoChunks DEF SpeechInv, Typed, Runs
<1>5. turn.at \in {"await", "spoken", "failed"} /\ result = "none" /\ state \in {"live", "discarded"}
      /\ ~delivering
  BY <1>1 DEF SpeechInv, Stages, Results
<1>6. Typed'
  BY <1>1, <1>2, <1>4 DEF SpeechInv, Typed
<1>7. Stages' /\ Results'
  BY <1>1, <1>4, <1>5 DEF SpeechInv, Stages, Results
<1>8. Places'
  <2>1. UNCHANGED <<state, delivering, made, result>> /\ made \in Nat  BY <1>1 DEF SpeechInv, Typed
  <2>2. Follows(out', 0) /\ Len(out') <= made
    <3>1. CASE out' = out  BY <1>2, <3>1
    <3>2. CASE out' = more  BY <1>2, <1>3, <3>2
    <3> QED  BY <1>4, <3>1, <3>2
  <2> QED  BY <1>3, <1>4, <1>5, <2>1, <2>2, NoChunks DEF Places
<1> QED  BY <1>6, <1>7, <1>8 DEF SpeechInv

(* The stream fails.                                                       *)
LEMMA StreamFailsStep ==
  ASSUME SpeechInv, StreamFails
  PROVE  SpeechInv'
<1>1. /\ prov.at = "stream"
      /\ \/ /\ state = "pending" /\ buffered = 0 /\ prepared' = FALSE /\ made' = 0 /\ prov' = prov
         \/ /\ prov' = [prov EXCEPT !.at = "failing"] /\ UNCHANGED <<prepared, made>>
      /\ UNCHANGED <<state, chunks, buffered, rel, delivering, peaked, full, asleep, watching,
                     ctxDone, cancelDue, result, turn, turnCtxDone, out>>
  BY DEF StreamFails, CanRetryBeforeAudio, bufferVars, turnVars
<1>2. prov.rest = << >> /\ made \in Nat
  BY <1>1 DEF SpeechInv, Places, Typed
<1>3. state = "pending" /\ buffered = 0 => made = 0
  BY <1>2, NoChunks DEF SpeechInv, Places
<1>4. prov' \in Runs /\ prov'.rest = prov.rest /\ prov'.at \in {"stream", "failing"} /\ made' = made
      /\ prepared' \in BOOLEAN
  BY <1>1, <1>3 DEF SpeechInv, Typed, Runs
<1>5. Typed'
  BY <1>1, <1>4 DEF SpeechInv, Typed
<1>6. Stages' /\ Results'
  BY <1>1, <1>4 DEF SpeechInv, Stages, Results
<1>7. Places'
  BY <1>1, <1>2, <1>4 DEF SpeechInv, Places, Results
<1> QED  BY <1>5, <1>6, <1>7 DEF SpeechInv

-----------------------------------------------------------------------------
(* The turn and the contexts.                                              *)

(* The steps of the turn that leave the buffer alone.                      *)
LEMMA QuietTurnStep ==
  ASSUME SpeechInv,
         Adopt \/ BoundaryCompleted \/ BoundaryFull \/ DeliverChunk \/ CancelSynthesis \/ EndTurnContext
  PROVE  SpeechInv'
<1>1. /\ UNCHANGED <<state, chunks, buffered, rel, peaked, full, asleep, watching,
                     prepared, prov, made, result, out>>
      /\ ctxDone' \in BOOLEAN /\ cancelDue' \in BOOLEAN /\ turnCtxDone' \in BOOLEAN
      /\ \/ turn.at = "idle" /\ turn' = [at |-> "boundary", completed |-> FALSE] /\ UNCHANGED delivering
         \/ /\ turn.at = "boundary" /\ result = "ok" /\ UNCHANGED delivering
            /\ turn' = [at |-> "begin", completed |-> TRUE]
         \/ turn.at = "boundary" /\ turn' = [at |-> "begin", completed |-> FALSE] /\ UNCHANGED delivering
         \/ /\ turn.at = "release" /\ state # "discarded" /\ rel # << >> /\ delivering' = TRUE
            /\ turn' = [at |-> "deliver", completed |-> turn.completed]
         \/ UNCHANGED <<turn, delivering>>
  BY DEF SpeechInv, Typed, Adopt, BoundaryCompleted, BoundaryFull, DeliverChunk, CancelSynthesis,
     EndTurnContext, Move, bufferVars, provVars, turnVars
<1>2. turn' \in Turning /\ delivering' \in BOOLEAN
  <2>1. turn.completed \in BOOLEAN /\ turn \in Turning /\ delivering \in BOOLEAN
    BY Moved DEF SpeechInv, Typed
  <2>2. \A at \in {"boundary", "begin", "deliver"}, c \in BOOLEAN :
          [at |-> at, completed |-> c] \in Turning
    BY DEF Turning, Stops
  <2> QED  BY <1>1, <2>1, <2>2
<1>3. Typed'
  BY <1>1, <1>2 DEF SpeechInv, Typed
<1>4. Stages'
  BY <1>1 DEF SpeechInv, Stages
<1>5. Results'
  BY <1>1 DEF SpeechInv, Results, Stages
<1>6. Places'
  <2>1. CASE delivering' = delivering
    BY <1>1, <2>1 DEF SpeechInv, Places
  <2>2. CASE turn.at = "release" /\ state # "discarded" /\ rel # << >> /\ delivering' = TRUE
    <3>1. state = "releasing"  BY <2>2 DEF SpeechInv, Stages
    <3>2. /\ Joined(rel, Len(out), made - Len(prov.rest)) /\ rel \in Rows /\ made \in Nat
          /\ Len(out) \in Nat /\ Len(prov.rest) \in Nat
      BY <3>1 DEF SpeechInv, Places, Typed, Lists, Runs
    <3>3. made - Len(prov.rest) \in Nat
      BY <3>2 DEF Joined, Starts, Rows
    <3>4. Follows(Head(rel), Len(out)) /\ Len(out) + Len(Head(rel)) <= made - Len(prov.rest)
          /\ Len(out) + Len(Head(rel)) \in Nat
      BY <2>2, <3>2, <3>3, JoinedTail
    <3>5. Len(out) + Len(Head(rel)) <= made
      <4>1. \A i, j, k \in Nat : i <= j - k => i <= j  OBVIOUS
      <4>2. Len(out) + Len(Head(rel)) \in Nat /\ made \in Nat /\ Len(prov.rest) \in Nat
        BY <3>2, <3>4
      <4> QED  BY <3>4, <4>1, <4>2
    <3> QED  BY <1>1, <2>2, <3>4, <3>5 DEF SpeechInv, Places
  <2> QED  BY <1>1, <2>1, <2>2
<1> QED  BY <1>3, <1>4, <1>5, <1>6 DEF SpeechInv

(* The turn gives the buffer up.                                           *)
LEMMA GivenUpStep ==
  ASSUME SpeculativeAudioAssumption, SpeechInv,
         DropSpeculation \/ BoundaryRefused \/ ReleaseStops \/ (BeginRelease /\ state # "pending")
         \/ (Await /\ turn'.at = "failed")
  PROVE  SpeechInv'
<1>1. /\ Discarded
      /\ UNCHANGED <<delivering, peaked, full, ctxDone, prov, prepared, made, result, turnCtxDone, out>>
      /\ cancelDue' = TRUE
      /\ \/ turn.at = "idle" /\ turn' = [at |-> "cancelled", completed |-> FALSE]
         \/ turn.at = "spoken" /\ turn' = turn
         \/ turn.at \in {"boundary", "begin"} /\ turn' = [at |-> "fallback", completed |-> FALSE]
         \/ turn.at \in {"begin", "release", "await"} /\ turn' = [at |-> "failed", completed |-> FALSE]
  BY DEF DropSpeculation, BoundaryRefused, ReleaseStops, BeginRelease, Await, ReleaseFailed, Aborted,
     Move, provVars
<1>2. /\ state' = "discarded" /\ chunks' \in Rows /\ rel' \in Rows /\ buffered' \in 0..Capacity
      /\ watching' = FALSE /\ asleep' = FALSE
      /\ delivering /\ rel # << >> => rel' # << >> /\ Head(rel') = Head(rel)
  BY <1>1, DiscardKeeps DEF SpeechInv
<1>3. /\ turn' \in Turning /\ turn'.at \notin {"await", "deliver"}
      /\ turn'.at \in {"cancelled", "fallback"} =>
           turn.at \in {"idle", "boundary", "begin"}
      /\ turn'.at = "spoken" => turn.at = "spoken"
      /\ turn'.completed => turn.completed
      /\ turn.at \in {"idle", "boundary", "begin", "release", "await", "spoken"}
      /\ turn'.at \in {"cancelled", "fallback", "spoken", "failed"}
      /\ turn.at \in {"await", "spoken"} => turn'.at \in {"failed", "spoken"}
  <2>1. turn \in Turning /\ turn.at \in Stops  BY Moved DEF SpeechInv, Typed
  <2>2. turn' \in Turning  BY <1>1, <2>1, Moved DEF Stops
  <2> QED  BY <1>1, <2>1, <2>2 DEF Stops
<1>4. Typed'
  BY <1>1, <1>2, <1>3 DEF SpeechInv, Typed
<1>5. Stages'
  BY <1>1, <1>2, <1>3 DEF SpeechInv, Stages
<1>6. Results'
  BY <1>1, <1>2, <1>3 DEF SpeechInv, Results
<1>7. Places'
  BY <1>1, <1>2 DEF SpeechInv, Places
<1> QED  BY <1>4, <1>5, <1>6, <1>7 DEF SpeechInv

(* The turn begins the release: what was buffered is what it will play.    *)
LEMMA BeginStep ==
  ASSUME SpeculativeAudioAssumption, SpeechInv, BeginRelease, state = "pending"
  PROVE  SpeechInv'
<1>1. /\ turn.at = "begin" /\ state' = "releasing" /\ rel' = chunks /\ chunks' = << >> /\ buffered' = 0
      /\ turn' = [at |-> "release", completed |-> turn.completed]
      /\ UNCHANGED <<delivering, peaked, full, asleep, watching, ctxDone, cancelDue, prov, prepared,
                     made, result, turnCtxDone, out>>
  BY DEF BeginRelease, Move, provVars
<1>2. turn' \in Turning /\ 0 \in 0..Capacity
  <2>1. turn.completed \in BOOLEAN  BY Moved DEF SpeechInv, Typed
  <2>2. 0 \in 0..Capacity  BY DEF SpeculativeAudioAssumption
  <2> QED  BY <1>1, <2>1, <2>2, Moved DEF Stops
<1>3. Typed'
  BY <1>1, <1>2, NoChunks DEF SpeechInv, Typed
<1>4. Stages'
  BY <1>1 DEF SpeechInv, Stages
<1>5. Results'
  BY <1>1 DEF SpeechInv, Results, Typed
<1>6. Places'
  <2>1. out = << >> /\ ~delivering  BY <1>1 DEF SpeechInv, Stages
  <2>2. Len(out) = 0  BY <2>1, NoChunks
  <2> QED  BY <1>1, <2>1, <2>2 DEF SpeechInv, Places
<1> QED  BY <1>3, <1>4, <1>5, <1>6 DEF SpeechInv

(* A buffered chunk was delivered, or its delivery failed.                 *)
LEMMA DeliveredStep ==
  ASSUME SpeculativeAudioAssumption, SpeechInv, Delivered \/ DeliveryFails
  PROVE  SpeechInv'
<1>1. /\ turn.at = "deliver" /\ delivering' = FALSE
      /\ \/ /\ rel' = Tail(rel) /\ out' = out \o Head(rel)
            /\ turn' = [at |-> "release", completed |-> turn.completed]
            /\ UNCHANGED <<state, chunks, buffered, asleep, watching, cancelDue>>
         \/ /\ rel' = << >> /\ out' \in {out, out \o Head(rel)}
            /\ turn' = [at |-> "failed", completed |-> FALSE]
            /\ state' = "discarded" /\ chunks' = << >> /\ buffered' = 0 /\ asleep' = FALSE
            /\ watching' = FALSE /\ cancelDue' = TRUE
      /\ UNCHANGED <<peaked, full, ctxDone, prov, prepared, made, result, turnCtxDone>>
  BY DEF Delivered, DeliveryFails, Move, provVars
<1>2. /\ delivering /\ rel # << >> /\ Follows(Head(rel), Len(out)) /\ Len(out) + Len(Head(rel)) <= made
      /\ Follows(out, 0) /\ Len(out) <= made
  BY <1>1 DEF SpeechInv, Stages, Places
<1>3. rel \in Rows /\ out \in Lists /\ made \in Nat /\ Len(out) \in Nat
  BY DEF SpeechInv, Typed, Lists
<1>4. Head(rel) \in Lists /\ Tail(rel) \in Rows /\ Len(Head(rel)) \in Nat
  BY <1>2, <1>3 DEF Rows, Lists
<1>5. PICK more \in Lists : more = out \o Head(rel) /\ Len(more) = Len(out) + Len(Head(rel))
                            /\ Follows(more, 0)
  BY <1>2, <1>3, <1>4, Heard
<1>6. /\ out' \in {out, more} /\ (turn'.at = "release" => out' = more) /\ turn' \in Turning
      /\ turn'.at \in {"release", "failed"}
      /\ turn'.at = "release" => UNCHANGED <<state, chunks, buffered, watching>> /\ rel' = Tail(rel)
      /\ turn'.at = "failed" => state' = "discarded" /\ ~watching'
      /\ turn'.completed => turn.completed
  <2>1. turn.completed \in BOOLEAN  BY Moved DEF SpeechInv, Typed
  <2>2. turn' \in Turning  BY <1>1, <2>1, Moved DEF Stops
  <2> QED  BY <1>1, <1>5, <2>2
<1>7. Typed'
  <2>1. rel' \in Rows /\ chunks' \in Rows /\ out' \in Lists
    BY <1>1, <1>3, <1>4, <1>5, <1>6, NoChunks DEF SpeechInv, Typed
  <2>2. buffered' \in 0..Capacity /\ asleep' \in BOOLEAN /\ watching' \in BOOLEAN
        /\ cancelDue' \in BOOLEAN /\ state' \in {"pending", "releasing", "live", "discarded"}
    <3>1. 0 \in 0..Capacity /\ buffered \in 0..Capacity
      BY DEF SpeechInv, Typed, SpeculativeAudioAssumption
    <3>2. buffered' \in 0..Capacity  BY <1>1, <3>1
    <3> QED  BY <1>1, <3>2 DEF SpeechInv, Typed
  <2> QED  BY <1>1, <1>6, <2>1, <2>2 DEF SpeechInv, Typed
<1>8. prov.at \notin {"claimed", "sending"} /\ state \in {"releasing", "discarded"}
  BY <1>1 DEF SpeechInv, Stages
<1>9. Stages'
  BY <1>1, <1>6, <1>8 DEF SpeechInv, Stages
<1>10. Results'
  BY <1>1, <1>6 DEF SpeechInv, Results
<1>11. Places'
  <2>1. Follows(out', 0) /\ Len(out') <= made
    <3>1. CASE out' = out  BY <1>2, <3>1
    <3>2. CASE out' = more  BY <1>2, <1>5, <3>2
    <3> QED  BY <1>6, <3>1, <3>2
  <2>2. state' = "releasing" => Joined(rel', Len(out'), made - Len(prov.rest))
    <3> SUFFICES ASSUME state' = "releasing"
                 PROVE  Joined(rel', Len(out'), made - Len(prov.rest))
      OBVIOUS
    <3>1. turn'.at = "release" /\ state = "releasing"  BY <1>6
    <3>2. Joined(rel, Len(out), made - Len(prov.rest)) /\ Len(prov.rest) \in Nat
      BY <3>1 DEF SpeechInv, Places, Typed, Lists, Runs
    <3>3. made - Len(prov.rest) \in Nat
      BY <1>3, <3>2 DEF Joined, Starts, Rows
    <3>4. Joined(Tail(rel), Len(out) + Len(Head(rel)), made - Len(prov.rest))
      BY <1>2, <1>3, <3>2, <3>3, JoinedTail
    <3>5. rel' = Tail(rel) /\ Len(out') = Len(out) + Len(Head(rel))  BY <1>5, <1>6, <3>1
    <3> QED  BY <3>4, <3>5
  <2>3. state' \notin {"pending", "live"}  BY <1>6, <1>8
  <2>4. UNCHANGED <<prov, made, result>> /\ delivering' = FALSE  BY <1>1
  <2> QED  BY <1>8, <2>1, <2>2, <2>3, <2>4 DEF SpeechInv, Places
<1> QED  BY <1>7, <1>9, <1>10, <1>11 DEF SpeechInv

(* Everything buffered was played: the stream goes live behind it.         *)
LEMMA GoLiveStep ==
  ASSUME SpeechInv, GoLive
  PROVE  SpeechInv'
<1>1. /\ turn.at = "release" /\ state # "discarded" /\ rel = << >>
      /\ state' = "live" /\ asleep' = FALSE /\ watching' = FALSE
      /\ turn' = [at |-> IF turn.completed THEN "spoken" ELSE "await", completed |-> FALSE]
      /\ UNCHANGED <<chunks, buffered, rel, delivering, peaked, full, ctxDone, cancelDue, prov,
                     prepared, made, result, turnCtxDone, out>>
  BY DEF GoLive, Move, provVars
<1>2. state = "releasing" /\ ~delivering
  BY <1>1 DEF SpeechInv, Stages
<1>3. /\ turn' \in Turning /\ turn'.at \in {"spoken", "await"}
      /\ turn'.at = "spoken" => turn.completed
      /\ ~turn'.completed
  BY <1>1 DEF SpeechInv, Typed, Turning, Stops
<1>4. Len(out) + Len(prov.rest) = made
  <2>1. Len(out) \in Nat /\ Len(prov.rest) \in Nat /\ made \in Nat
    BY DEF SpeechInv, Typed, Runs, Lists
  <2>2. Joined(<< >>, Len(out), made - Len(prov.rest))
    BY <1>1, <1>2 DEF SpeechInv, Places
  <2>3. made - Len(prov.rest) \in Nat
    BY <2>1, <2>2 DEF Joined, Starts
  <2>4. Len(out) = made - Len(prov.rest)  BY <2>1, <2>2, <2>3, JoinedNone
  <2> QED  BY <2>1, <2>4
<1>5. Typed'
  BY <1>1, <1>3 DEF SpeechInv, Typed
<1>6. Stages'
  BY <1>1, <1>2, <1>3 DEF SpeechInv, Stages
<1>7. Results'
  <2>1. turn'.at = "spoken" => result = "ok" /\ Len(out) = made
    <3>1. result = "ok" => prov.rest = << >>  BY DEF SpeechInv, Places
    <3>2. Len(out) \in Nat  BY DEF SpeechInv, Typed, Lists
    <3> QED  BY <1>3, <1>4, <3>1, <3>2, NoChunks DEF SpeechInv, Results
  <2> QED  BY <1>1, <1>2, <1>3, <2>1 DEF SpeechInv, Results
<1>8. Places'
  BY <1>1, <1>2, <1>4 DEF SpeechInv, Places
<1> QED  BY <1>5, <1>6, <1>7, <1>8 DEF SpeechInv

(* The turn has the result of the synthesis.                               *)
LEMMA AwaitStep ==
  ASSUME SpeechInv, Await, turn'.at # "failed"
  PROVE  SpeechInv'
<1>1. /\ turn.at = "await" /\ result = "ok" /\ turn' = [at |-> "spoken", completed |-> FALSE]
      /\ UNCHANGED <<state, chunks, buffered, rel, delivering, peaked, full, asleep, watching,
                     ctxDone, cancelDue, prov, prepared, made, result, turnCtxDone, out>>
  BY DEF Await, ReleaseFailed, Move, bufferVars, provVars
<1>2. turn' \in Turning
  BY <1>1 DEF Turning, Stops
<1>3. Len(out) = made
  <2>1. prov.at = "done" /\ state = "live" /\ prov.rest = << >>
    BY <1>1 DEF SpeechInv, Results, Stages, Places
  <2>2. Len(out) \in Nat  BY DEF SpeechInv, Typed, Lists
  <2> QED  BY <2>1, <2>2, NoChunks DEF SpeechInv, Places
<1>4. Typed'
  BY <1>1, <1>2 DEF SpeechInv, Typed
<1>5. Stages' /\ Results'
  BY <1>1, <1>3 DEF SpeechInv, Stages, Results
<1>6. Places'
  BY <1>1 DEF SpeechInv, Places
<1> QED  BY <1>4, <1>5, <1>6 DEF SpeechInv

(* SpeechInv is inductive.                                                 *)
LEMMA SpeechStarts ==
  ASSUME SpeculativeAudioAssumption, Init
  PROVE  SpeechInv
<1>0. 0 \in 0..Capacity /\ prov \in Runs /\ turn \in Turning
  <2>1. 0 \in 0..Capacity  BY DEF SpeculativeAudioAssumption
  <2>2. prov = [at |-> "stream", rest |-> << >>]  BY DEF Init
  <2>3. prov \in Runs  BY <2>2, NoChunks DEF Runs
  <2>4. turn \in Turning  BY Moved DEF Init, Stops, At
  <2> QED  BY <2>1, <2>3, <2>4
<1>1. Typed
  BY <1>0, NoChunks DEF Init, Typed
<1>2. Stages /\ Results
  BY DEF Init, Stages, Results, At
<1>3. Places
  <2>1. chunks = << >> /\ made - Len(prov.rest) = 0
    <3>1. chunks = << >> /\ made = 0 /\ prov.rest = << >>  BY DEF Init
    <3>2. Len(prov.rest) = 0  BY <3>1, NoChunks
    <3>3. 0 - 0 = 0  OBVIOUS
    <3> QED  BY <3>1, <3>2, <3>3, Zenon
  <2>2. Joined(<< >>, 0, 0)
    <3>1. 0 \in Nat  OBVIOUS
    <3> QED  BY <3>1, JoinedNone
  <2>3. Follows(<< >>, 0)  BY NoChunks DEF Follows
  <2>4. /\ state = "pending" /\ out = << >> /\ prov.rest = << >> /\ prov.at = "stream"
        /\ ~delivering /\ made = 0 /\ buffered = 0
    BY DEF Init
  <2> QED  BY <2>1, <2>2, <2>3, <2>4, NoChunks DEF Places
<1> QED  BY <1>1, <1>2, <1>3 DEF SpeechInv

(* The inductive invariant of the speculative audio.                       *)
LEMMA SpeechHolds ==
  ASSUME SpeculativeAudioAssumption, SpeechInv, [Next]_vars
  PROVE  SpeechInv'
<1>1. CASE Next
  BY <1>1, ChunkStep, RefusedStep, WriteBufferedStep, LiveStep, SentLiveStep, StreamFailsStep,
     QuietTurnStep, GivenUpStep, BeginStep, DeliveredStep, GoLiveStep, AwaitStep
     DEF Next, Write, Turn
<1>2. CASE UNCHANGED vars
  BY <1>2 DEF vars, bufferVars, provVars, turnVars, SpeechInv, Typed, Stages, Results, Places
<1> QED  BY <1>1, <1>2

-----------------------------------------------------------------------------
(* The buffer implements AudioRelease.                                     *)

Gate == CASE state = "pending" -> "sealed" [] state = "discarded" -> "dead" [] OTHER -> "open"
Claimed == delivering \/ prov.at \in {"claimed", "sending"}

(* The steps of the promise, over the buffer's variables.                  *)
LEMMA PromiseSteps ==
  /\ Promise!Produce <=> made' > made /\ UNCHANGED <<Gate, out, Claimed>>
  /\ Promise!Unseal <=> Gate = "sealed" /\ Gate' = "open" /\ UNCHANGED <<made, out, Claimed>>
  /\ Promise!Claim <=> Gate = "open" /\ ~Claimed /\ Claimed' = TRUE /\ UNCHANGED <<Gate, made, out>>
  /\ Promise!Deliver <=>
       /\ Claimed /\ Claimed' = FALSE
       /\ \E n \in 0..(made - Len(out)) : out' = out \o [i \in 1..n |-> Len(out) + i]
       /\ Gate' \in {Gate, "dead"} /\ UNCHANGED made
  /\ Promise!Kill <=> Gate' = "dead" /\ UNCHANGED <<made, out, Claimed>>
  /\ UNCHANGED Promise!vars <=> UNCHANGED <<Gate, made, out, Claimed>>
BY DEF Promise!Produce, Promise!Unseal, Promise!Claim, Promise!Deliver, Promise!Kill, Promise!vars,
   Gate, Claimed

(* The gate and the claim, by what they are in the code.                   *)
LEMMA Gates ==
  /\ Typed => /\ Gate = "sealed" <=> state = "pending"
              /\ Gate = "dead" <=> state = "discarded"
              /\ Gate = "open" <=> state \in {"releasing", "live"}
              /\ Claimed \in BOOLEAN
  /\ UNCHANGED state => UNCHANGED Gate
  /\ UNCHANGED <<delivering, prov>> => UNCHANGED Claimed
BY DEF Gate, Claimed, Typed

(* A discard kills the gate; a delivery is of what comes next, or of none. *)
LEMMA KillStep ==
  ASSUME state' = "discarded", UNCHANGED <<made, out, Claimed>>
  PROVE  Promise!Kill
BY PromiseSteps DEF Gate

(* A delivery is a step of AudioRelease.                                   *)
LEMMA DeliverStep ==
  ASSUME Typed, Typed', NEW q \in Lists, Follows(q, Len(out)), Len(out) + Len(q) <= made,
         out' \in {out, out \o q}, Claimed, ~Claimed', UNCHANGED made,
         Gate' = Gate \/ Gate' = "dead"
  PROVE  Promise!Deliver
<1>1. Len(out) \in Nat /\ Len(q) \in Nat /\ made \in Nat /\ out \in Seq(Int)
  BY DEF Typed, Lists
<1>2. \E n \in 0..(made - Len(out)) : out' = out \o [i \in 1..n |-> Len(out) + i]
  <2>1. CASE out' = out \o q
    <3>1. q = [i \in 1..Len(q) |-> Len(out) + i]  BY <1>1 DEF Lists, Follows
    <3>2. Len(q) \in 0..(made - Len(out))  BY <1>1
    <3> QED  BY <2>1, <3>1, <3>2
  <2>2. CASE out' = out
    <3>1. 0 \in 0..(made - Len(out))
      <4>1. Len(q) >= 0 /\ Len(out) + Len(q) <= made  BY <1>1
      <4> QED  BY <1>1, <4>1
    <3>2. [i \in 1..0 |-> Len(out) + i] = << >>  OBVIOUS
    <3>3. out \o << >> = out  BY <1>1
    <3>4. out' = out \o [i \in 1..0 |-> Len(out) + i]  BY <2>2, <3>2, <3>3
    <3> QED  BY <3>1, <3>4
  <2> QED  BY <2>1, <2>2
<1>3. Claimed' = FALSE  BY Gates
<1> QED  BY <1>2, <1>3, PromiseSteps

(* Every step of the goroutines is a step of the promise, or none.         *)
LEMMA KeptStep ==
  ASSUME SpeculativeAudioAssumption, SpeechInv, SpeechInv', [Next]_vars
  PROVE  [Promise!Next]_(Promise!vars)
<1>0. Typed /\ Typed'
  BY DEF SpeechInv
<1>1. CASE Chunk
  <2>1. PICK n \in 1..MaxChunk : made' = made + n
    BY <1>1 DEF Chunk
  <2>2. made' > made
    <3>1. n \in Nat \ {0} /\ made \in Nat  BY <1>0 DEF Typed, SpeculativeAudioAssumption
    <3> QED  BY <2>1, <3>1
  <2>3. UNCHANGED <<state, delivering, out>> /\ prov.at = "stream" /\ prov'.at = "write"
    BY <1>1 DEF Chunk, bufferVars
  <2>4. UNCHANGED <<Gate, Claimed>>  BY <2>3 DEF Gate, Claimed
  <2> QED  BY <2>2, <2>3, <2>4, PromiseSteps DEF Promise!Next
<1>2. CASE BadChunk \/ Fail \/ WatchContext
  <2>1. state' = "discarded" /\ UNCHANGED <<delivering, made, out>>
        /\ (prov' = prov \/ (prov.at \in {"stream", "failing"} /\ prov'.at \in {"failing", "err"}))
    BY <1>0, <1>2 DEF BadChunk, Fail, WatchContext, Discarded, provVars, Typed, Runs
  <2>2. UNCHANGED Claimed  BY <2>1 DEF Claimed
  <2> QED  BY <2>1, <2>2, KillStep DEF Promise!Next
<1>3. CASE \/ DropSpeculation \/ BoundaryRefused \/ ReleaseStops \/ (BeginRelease /\ state # "pending")
           \/ (Await /\ turn'.at = "failed")
  <2>1. state' = "discarded" /\ UNCHANGED <<delivering, prov, made, out>>
    BY <1>3 DEF DropSpeculation, BoundaryRefused, ReleaseStops, BeginRelease, Await, ReleaseFailed,
       Aborted, Discarded, Move, provVars
  <2>2. UNCHANGED Claimed  BY <2>1, Gates
  <2> QED  BY <2>1, <2>2, KillStep DEF Promise!Next
<1>4. CASE \/ Sleep \/ WriteBuffered \/ WriteRefused \/ StreamEnds \/ CloseDone \/ Adopt
           \/ BoundaryCompleted \/ BoundaryFull \/ CancelSynthesis \/ EndTurnContext
           \/ (Await /\ turn'.at # "failed")
  <2>1. UNCHANGED <<state, delivering, made, out>>
        /\ (prov' = prov \/ /\ prov.at \notin {"claimed", "sending"}
                            /\ prov'.at \notin {"claimed", "sending"})
    BY <1>0, <1>4 DEF Sleep, WriteBuffered, WriteRefused, StreamEnds, CloseDone, Adopt, BoundaryCompleted,
       BoundaryFull, CancelSynthesis, EndTurnContext, Await, ReleaseFailed, Move, bufferVars,
       provVars, turnVars, Typed, Runs
  <2>2. UNCHANGED <<Gate, Claimed>>  BY <2>1 DEF Gate, Claimed
  <2> QED  BY <2>1, <2>2, PromiseSteps
<1>5. CASE StreamFails
  <2>1. UNCHANGED <<state, delivering, out>> /\ prov.at = "stream" /\ prov'.at \in {"stream", "failing"}
    BY <1>0, <1>5 DEF StreamFails, bufferVars, Typed, Runs
  <2>2. made' = made
    <3>1. prov.rest = << >> /\ made \in Nat  BY <1>0, <2>1 DEF SpeechInv, Places, Typed
    <3>2. state = "pending" /\ buffered = 0 => made = 0  BY <3>1, NoChunks DEF SpeechInv, Places
    <3> QED  BY <1>5, <3>2 DEF StreamFails, CanRetryBeforeAudio
  <2>3. UNCHANGED <<Gate, Claimed>>  BY <2>1 DEF Gate, Claimed
  <2> QED  BY <2>1, <2>2, <2>3, PromiseSteps
<1>6. CASE ClaimLive
  <2>1. prov.at = "write" /\ state = "live" /\ prov'.at = "claimed"
        /\ UNCHANGED <<state, delivering, made, out>>
    BY <1>0, <1>6 DEF ClaimLive, bufferVars, Typed, Runs
  <2>2. ~delivering
    <3>1. turn.at = "deliver" => state # "live"  BY <2>1 DEF SpeechInv, Stages
    <3> QED  BY <2>1, <3>1 DEF SpeechInv, Stages
  <2>3. ~Claimed /\ Claimed' = TRUE /\ Gate = "open" /\ UNCHANGED Gate
    BY <2>1, <2>2 DEF Claimed, Gate
  <2> QED  BY <2>1, <2>3, PromiseSteps DEF Promise!Next
<1>7. CASE SendLive
  <2>1. prov.at = "claimed" /\ prov'.at \in {"failing", "sending"}
        /\ UNCHANGED <<state, delivering, made, out>>
    BY <1>0, <1>7 DEF SendLive, bufferVars, Typed, Runs
  <2>2. UNCHANGED Gate  BY <2>1, Gates
  <2>3. CASE prov'.at = "sending"
    <3>1. UNCHANGED Claimed  BY <2>1, <2>3 DEF Claimed
    <3> QED  BY <2>1, <2>2, <3>1, PromiseSteps
  <2>4. CASE prov'.at = "failing"
    <3>1. ~delivering  BY <2>1 DEF SpeechInv, Stages
    <3>2. Claimed /\ ~Claimed'  BY <2>1, <2>4, <3>1 DEF Claimed
    <3>3. prov.rest \in Lists /\ Follows(prov.rest, Len(out)) /\ Len(out) + Len(prov.rest) = made
          /\ made \in Nat
      BY <1>0, <2>1 DEF SpeechInv, Places, Typed, Runs
    <3>4. Promise!Deliver  BY <1>0, <2>1, <2>2, <3>2, <3>3, DeliverStep
    <3> QED  BY <3>4 DEF Promise!Next
  <2> QED  BY <2>1, <2>3, <2>4
<1>8. CASE SentLive
  <2>1. prov.at = "sending" /\ prov'.at \in {"failing", "stream"} /\ out' \in {out, out \o prov.rest}
        /\ UNCHANGED <<state, delivering, made>>
    BY <1>0, <1>8 DEF SentLive, bufferVars, Typed, Runs
  <2>2. UNCHANGED Gate  BY <2>1, Gates
  <2>3. ~delivering  BY <2>1 DEF SpeechInv, Stages
  <2>4. Claimed /\ ~Claimed'  BY <2>1, <2>3 DEF Claimed
  <2>5. prov.rest \in Lists /\ Follows(prov.rest, Len(out)) /\ Len(out) + Len(prov.rest) = made
        /\ made \in Nat
    BY <1>0, <2>1 DEF SpeechInv, Places, Typed, Runs
  <2>6. Promise!Deliver  BY <1>0, <2>1, <2>2, <2>4, <2>5, DeliverStep
  <2> QED  BY <2>6 DEF Promise!Next
<1>9. CASE BeginRelease /\ state = "pending"
  <2>1. state' = "releasing" /\ UNCHANGED <<delivering, prov, made, out>>
    BY <1>9 DEF BeginRelease, provVars
  <2>2. Gate = "sealed" /\ Gate' = "open" /\ UNCHANGED Claimed
    BY <1>9, <2>1, Gates DEF Gate
  <2> QED  BY <2>1, <2>2, PromiseSteps DEF Promise!Next
<1>10. CASE DeliverChunk
  <2>1. turn.at = "release" /\ state # "discarded" /\ delivering' = TRUE
        /\ UNCHANGED <<state, prov, made, out>>
    BY <1>10 DEF DeliverChunk, provVars
  <2>2. state = "releasing" /\ ~delivering /\ prov.at \notin {"claimed", "sending"}
    BY <2>1 DEF SpeechInv, Stages
  <2>3. ~Claimed /\ Claimed' = TRUE /\ Gate = "open" /\ UNCHANGED Gate
    BY <2>1, <2>2 DEF Claimed, Gate
  <2> QED  BY <2>1, <2>3, PromiseSteps DEF Promise!Next
<1>11. CASE Delivered \/ DeliveryFails
  <2>1. turn.at = "deliver" /\ delivering' = FALSE /\ out' \in {out, out \o Head(rel)}
        /\ (state' = state \/ state' = "discarded") /\ UNCHANGED <<prov, made>>
    BY <1>11 DEF Delivered, DeliveryFails, provVars
  <2>2. delivering /\ prov.at \notin {"claimed", "sending"}
    BY <2>1 DEF SpeechInv, Stages
  <2>3. Claimed /\ ~Claimed'  BY <2>1, <2>2 DEF Claimed
  <2>4. Gate' = Gate \/ Gate' = "dead"  BY <2>1 DEF Gate
  <2>5. rel # << >> /\ Follows(Head(rel), Len(out)) /\ Len(out) + Len(Head(rel)) <= made
    BY <2>2 DEF SpeechInv, Places
  <2>6. Head(rel) \in Lists  BY <1>0, <2>5 DEF Typed, Rows
  <2>7. Promise!Deliver  BY <1>0, <2>1, <2>3, <2>4, <2>5, <2>6, DeliverStep
  <2> QED  BY <2>7 DEF Promise!Next
<1>12. CASE GoLive
  <2>1. turn.at = "release" /\ state # "discarded" /\ state' = "live"
        /\ UNCHANGED <<delivering, prov, made, out>>
    BY <1>12 DEF GoLive, provVars
  <2>2. state = "releasing"  BY <2>1 DEF SpeechInv, Stages
  <2>3. UNCHANGED <<Gate, Claimed>>  BY <2>1, <2>2, Gates DEF Gate
  <2> QED  BY <2>1, <2>3, PromiseSteps
<1>13. CASE UNCHANGED vars
  <2>1. UNCHANGED <<state, delivering, prov, made, out>>
    BY <1>13 DEF vars, bufferVars, provVars
  <2>2. UNCHANGED <<Gate, Claimed>>  BY <2>1, Gates
  <2> QED  BY <2>1, <2>2, PromiseSteps
<1> QED
  BY <1>1, <1>2, <1>3, <1>4, <1>5, <1>6, <1>7, <1>8, <1>9, <1>10, <1>11, <1>12, <1>13
     DEF Next, Write, Turn

(* Whoever discards the buffer, and whenever: nothing is heard before the  *)
(* release, units are heard in order and once, and no chunk is wiped under *)
(* its reader.  Every behaviour of the buffer, its writer and its turn     *)
(* (speculativeAudioCommitBuffer, voiceflow.go) is one of AudioRelease.    *)
THEOREM ReleaseAlwaysKept ==
  ASSUME SpeculativeAudioAssumption
  PROVE  Spec => ReleaseKept
<1>1. Init => SpeechInv
  BY SpeechStarts
<1>2. SpeechInv /\ [Next]_vars => SpeechInv'
  BY SpeechHolds
<1>3. Init => Promise!Init
  <2> SUFFICES ASSUME Init  PROVE Promise!Init  OBVIOUS
  <2>1. state = "pending" /\ made = 0 /\ out = << >> /\ delivering = FALSE /\ prov.at = "stream"
    BY DEF Init
  <2>2. Gate = "sealed" /\ Claimed = FALSE  BY <2>1 DEF Gate, Claimed
  <2> QED  BY <2>1, <2>2 DEF Promise!Init, Gate, Claimed
<1>4. SpeechInv /\ SpeechInv' /\ [Next]_vars => [Promise!Next]_(Promise!vars)
  BY KeptStep
<1> QED  BY <1>1, <1>2, <1>3, <1>4, PTL DEF Spec, ReleaseKept, Promise!Spec

(* A turn that reports its reply as spoken has played all of it, from one  *)
(* synthesis; a reply that was dropped, or that will be synthesised again, *)
(* was never begun and never will be (Pipeline.processLive, voiceflow.go). *)
THEOREM HeardOnceAlways ==
  ASSUME SpeculativeAudioAssumption
  PROVE  Spec => []HeardOnce
<1>1. Init => SpeechInv
  BY SpeechStarts
<1>2. SpeechInv /\ [Next]_vars => SpeechInv'
  BY SpeechHolds
<1>3. SpeechInv => HeardOnce
  <2> SUFFICES ASSUME SpeechInv  PROVE HeardOnce  OBVIOUS
  <2>1. SpokenWhole
    <3> SUFFICES ASSUME turn.at = "spoken"  PROVE result = "ok" /\ out = [i \in 1..made |-> i]
      BY DEF SpokenWhole
    <3>1. result = "ok" /\ Len(out) = made /\ Follows(out, 0) /\ out \in Seq(Int)
      BY DEF SpeechInv, Results, Places, Typed, Lists
    <3>2. \A i \in 1..made : out[i] = i  BY <3>1 DEF Follows
    <3> QED  BY <3>1, <3>2
  <2>2. NoSecondVoice
    BY DEF SpeechInv, Stages, NoSecondVoice
  <2> QED  BY <2>1, <2>2 DEF HeardOnce
<1> QED  BY <1>1, <1>2, <1>3, PTL DEF Spec
-----------------------------------------------------------------------------
(* The native turn (NativeTurn).                                           *)

NativeTyped ==
  /\ nt_turn \in [staged : BOOLEAN, control : BOOLEAN, bridge : BOOLEAN]
  /\ nt_pc \in {"prepare", "drain", "acquire", "start", "receive", "await", "handoff",
                "finish", "returned"}
  /\ nt_input \in {"open", "closed"} /\ nt_sender \in {"off", "sending", "done", "failed"}
  /\ nt_caption \in [coach : BOOLEAN, optOut : BOOLEAN, eligible : BOOLEAN]
  /\ nt_handoff \in {"none", "open", "committed", "finished", "cancelled"}
  /\ nt_captioned \in BOOLEAN /\ nt_gate \in BOOLEAN /\ nt_authorized \in BOOLEAN /\ nt_checkpoint \in BOOLEAN
  /\ nt_ctxOver \in BOOLEAN

(* Who is heard follows the decision, and the decision is one of two.      *)
HeardAsDecided ==
  \A v \in nt_heard : \/ v = "native" /\ nt_gate
                      \/ v = "staged" /\ nt_handoff \in {"committed", "finished"}

(* Where the turn is once it decided.                                      *)
DecidedPlaces ==
  /\ nt_gate => /\ nt_pc \in {"receive", "finish", "returned"}
                /\ nt_handoff \in {"none", "open", "cancelled"}
                /\ nt_result # "fallback"
  /\ nt_handoff = "committed" <=> nt_pc = "handoff"
  /\ nt_handoff = "finished" => nt_pc = "returned" /\ nt_result # "fallback"
  /\ nt_pc = "finish" => nt_gate
  /\ nt_result # "none" <=> nt_pc = "returned"

(* What the turn knows of the person's input, and says with its authority. *)
InputFirst ==
  /\ nt_sender = "done" => nt_input = "closed"
  /\ nt_result = "fallback" => nt_input = "closed"
  /\ nt_checkpoint => nt_authorized
  /\ nt_authorized => /\ nt_pc \in {"handoff", "returned"} /\ nt_input = "closed"
                      /\ ~nt_caption.optOut /\ (nt_turn.staged \/ nt_caption.coach)

NativeInv == NativeTyped /\ HeardAsDecided /\ DecidedPlaces /\ InputFirst

(* The invariant of the native turn holds in the beginning.                *)
LEMMA NativeStarts == Native!Init => NativeInv
<1> SUFFICES ASSUME Native!Init  PROVE NativeInv  OBVIOUS
<1>1. NativeTyped  BY DEF Native!Init, Native!Unread, NativeTyped
<1>2. HeardAsDecided /\ DecidedPlaces /\ InputFirst
  BY DEF Native!Init, HeardAsDecided, DecidedPlaces, InputFirst
<1> QED  BY <1>1, <1>2 DEF NativeInv

(* A return, from anywhere before it: the handoff is settled.              *)
LEMMA NativeReturn ==
  ASSUME NativeInv, nt_pc \notin {"returned", "handoff"}, NEW r, r # "none",
         r = "fallback" => nt_input = "closed" /\ ~nt_gate, Native!Return(r)
  PROVE  NativeInv'
BY DEF NativeInv, NativeTyped, HeardAsDecided, DecidedPlaces, InputFirst,
       Native!Return, Native!Cleaned, Native!envVars, Native!gateVars

(* The turn fails before it returned or handed over.                       *)
LEMMA NativeFails ==
  ASSUME NativeInv, nt_pc \notin {"returned", "handoff"},
         Native!Fail \/ Native!FailDiscarding
  PROVE  NativeInv'
BY NativeReturn DEF Native!Fail, Native!FailDiscarding

(* Until the capture starts, and the end of the sender.                    *)
LEMMA NativeEarly ==
  ASSUME NativeInv,
         \/ Native!PrepareState \/ Native!Drain \/ Native!Acquire \/ Native!StartActivity
         \/ Native!SenderEnds \/ Native!SenderFails
  PROVE  NativeInv'
<1>1. CASE Native!PrepareState
  BY <1>1, NativeFails
     DEF Native!PrepareState, NativeInv, NativeTyped, HeardAsDecided, DecidedPlaces, InputFirst,
         Native!envVars, Native!gateVars, Native!stagedVars
<1>2. CASE Native!Drain
  <2>1. CASE nt_input = "closed" /\ Native!Return("fallback")
    <3>1. nt_pc = "drain" /\ ~nt_gate  BY <1>2 DEF Native!Drain, NativeInv, DecidedPlaces
    <3> QED  BY <2>1, <3>1, NativeReturn
  <2> QED  BY <1>2, <2>1, NativeFails DEF Native!Drain
<1>3. CASE Native!Acquire
  BY <1>3, NativeFails
     DEF Native!Acquire, NativeInv, NativeTyped, HeardAsDecided, DecidedPlaces, InputFirst,
         Native!envVars, Native!gateVars
<1>4. CASE Native!StartActivity
  BY <1>4, NativeFails
     DEF Native!StartActivity, NativeInv, NativeTyped, HeardAsDecided, DecidedPlaces, InputFirst,
         Native!envVars, Native!gateVars, Native!stagedVars
<1>5. CASE Native!SenderEnds
  BY <1>5 DEF Native!SenderEnds, NativeInv, NativeTyped, HeardAsDecided, DecidedPlaces,
              InputFirst, Native!envVars, Native!gateVars, Native!stagedVars
<1>6. CASE Native!SenderFails
  BY <1>6 DEF Native!SenderFails, NativeInv, NativeTyped, HeardAsDecided, DecidedPlaces,
              InputFirst, Native!envVars, Native!gateVars, Native!stagedVars
<1> QED  BY <1>1, <1>2, <1>3, <1>4, <1>5, <1>6

(* The receive loop.                                                       *)
LEMMA NativeCaption ==
  ASSUME NativeInv, NEW c \in Native!Captions, NEW final \in BOOLEAN,
         Native!InputCaption(c, final)
  PROVE  NativeInv'
BY DEF Native!InputCaption, Native!Captions, Native!Taint, Native!Donating, Native!CanDonate,
       Native!Decisive, Native!Cleaned, Native!envVars, NativeInv, NativeTyped, HeardAsDecided,
       DecidedPlaces, InputFirst

(* What the provider sends, and the end of its answer.                     *)
LEMMA NativeOutput ==
  ASSUME NativeInv,
         \/ Native!BadCaption \/ Native!ReceiveFails \/ Native!OutputCaption \/ Native!AudioPCM
         \/ Native!TurnComplete \/ Native!Interrupted \/ Native!Finish
  PROVE  NativeInv'
<1>1. CASE Native!BadCaption \/ Native!ReceiveFails \/ Native!Interrupted
  BY <1>1, NativeFails DEF Native!BadCaption, Native!ReceiveFails, Native!Interrupted
<1>2. CASE Native!OutputCaption
  BY <1>2, NativeFails
     DEF Native!OutputCaption, Native!Readable, NativeInv, NativeTyped, HeardAsDecided,
         DecidedPlaces, InputFirst, Native!envVars, Native!gateVars, Native!stagedVars
<1>3. CASE Native!AudioPCM
  BY <1>3, NativeFails
     DEF Native!AudioPCM, Native!Readable, NativeInv, NativeTyped, HeardAsDecided,
         DecidedPlaces, InputFirst, Native!envVars, Native!gateVars, Native!stagedVars
<1>4. CASE Native!TurnComplete
  BY <1>4 DEF Native!TurnComplete, Native!Readable, NativeInv, NativeTyped, HeardAsDecided,
              DecidedPlaces, InputFirst, Native!envVars, Native!gateVars, Native!stagedVars
<1>5. CASE Native!Finish
  BY <1>5, NativeFails, NativeReturn DEF Native!Finish
<1> QED  BY <1>1, <1>2, <1>3, <1>4, <1>5

(* The gate, the staged path and the environment.                          *)
LEMMA NativeGate ==
  ASSUME NativeInv,
         Native!AwaitFails \/ Native!Reject \/ Native!Donate \/ Native!Approve
  PROVE  NativeInv'
<1>1. nt_pc = "await" /\ ~nt_gate /\ nt_handoff \notin {"committed", "finished"}
  BY DEF Native!AwaitFails, Native!Reject, Native!Donate, Native!Approve, NativeInv, DecidedPlaces
<1>2. nt_sender = "done" => nt_input = "closed"
  BY DEF NativeInv, InputFirst
<1>3. CASE Native!Fail \/ Native!FailDiscarding
  BY <1>1, <1>3, NativeFails
<1>4. CASE Native!Return("fallback") /\ nt_sender = "done"
  BY <1>1, <1>2, <1>4, NativeReturn
<1>5. CASE Native!Donate /\ nt_pc' = "handoff"
  BY <1>1, <1>5
     DEF Native!Donate, Native!Fail, Native!FailDiscarding, Native!Return, Native!Authorizes,
         NativeInv, NativeTyped, HeardAsDecided, DecidedPlaces, InputFirst, Native!envVars,
         Native!gateVars
<1>6. CASE Native!Approve /\ nt_gate'
  <2>1. /\ nt_gate' = TRUE /\ nt_pc' = "receive" /\ nt_handoff' = Native!Cleaned
        /\ UNCHANGED <<nt_turn, nt_input, nt_ctxOver, nt_result, nt_sender, nt_caption,
                       nt_authorized, nt_checkpoint, nt_heard, nt_captioned>>
    BY <1>1, <1>6 DEF Native!Approve, Native!Fail, Native!Return, Native!gateVars, Native!envVars
  <2> QED
    BY <1>1, <2>1 DEF NativeInv, NativeTyped, HeardAsDecided, DecidedPlaces, InputFirst,
                      Native!Cleaned
<1> QED
  BY <1>3, <1>4, <1>5, <1>6
     DEF Native!AwaitFails, Native!Reject, Native!Donate, Native!Approve

(* The steps of the staged voice and of its caller.                        *)
LEMMA NativeStaged ==
  ASSUME NativeInv,
         \/ Native!PublishCheckpoint \/ Native!StagedAudio \/ Native!HandoffReturns
         \/ Native!CommitFrame \/ Native!CallerLeaves \/ Native!SessionEnds
  PROVE  NativeInv'
<1> USE DEF NativeInv, NativeTyped, HeardAsDecided, DecidedPlaces, InputFirst, Native!envVars,
            Native!gateVars, Native!stagedVars
<1>1. CASE Native!PublishCheckpoint  BY <1>1 DEF Native!PublishCheckpoint
<1>2. CASE Native!StagedAudio  BY <1>2 DEF Native!StagedAudio
<1>3. CASE Native!HandoffReturns  BY <1>3 DEF Native!HandoffReturns
<1>4. CASE Native!CommitFrame  BY <1>4 DEF Native!CommitFrame
<1>5. CASE Native!CallerLeaves  BY <1>5 DEF Native!CallerLeaves
<1>6. CASE Native!SessionEnds  BY <1>6 DEF Native!SessionEnds
<1> QED  BY <1>1, <1>2, <1>3, <1>4, <1>5, <1>6

(* Nothing happens to the turn.                                            *)
LEMMA NativeStutters == NativeInv /\ UNCHANGED Native!vars => NativeInv'
BY DEF Native!vars, Native!envVars, Native!sessionVars, Native!gateVars, Native!stagedVars,
       NativeInv, NativeTyped, HeardAsDecided, DecidedPlaces, InputFirst

(* The inductive invariant of the native turn.                             *)
LEMMA NativeHolds == NativeInv /\ [Native!Next]_(Native!vars) => NativeInv'
BY NativeEarly, NativeCaption, NativeOutput, NativeGate, NativeStaged, NativeStutters
   DEF Native!Next, Native!TurnStep

-----------------------------------------------------------------------------
(* The native turn implements TurnVoice.                                   *)

Over == nt_pc = "returned"

(* The steps of TurnVoice, in the terms of the turn.                       *)
Stays == UNCHANGED <<Native!Verdict, nt_heard, Over>>
Decides ==
  /\ Native!Verdict = "pending" /\ ~Over /\ Native!Verdict' \in {"native", "staged"}
  /\ UNCHANGED <<nt_heard, Over>>
Speaks ==
  /\ Native!Verdict \in {"native", "staged"} /\ ~Over
  /\ nt_heard' = nt_heard \union {Native!Verdict}
  /\ UNCHANGED <<Native!Verdict, Over>>
Ends ==
  /\ ~Over /\ Over'
  /\ Native!Verdict' = (IF Native!Verdict = "pending" THEN "silent" ELSE Native!Verdict)
  /\ UNCHANGED nt_heard

(* The four effects are the steps of TurnVoice.                            *)
LEMMA TurnVoiceSteps ==
  Stays \/ Decides \/ Speaks \/ Ends => [Native!Voice!Next]_(Native!Voice!vars)
BY DEF Stays, Decides, Speaks, Ends, Over, Native!Voice!Next, Native!Voice!vars,
       Native!Voice!Decide, Native!Voice!Speak, Native!Voice!End

(* What the verdict depends on.                                            *)
LEMMA VerdictKept ==
  ASSUME UNCHANGED <<nt_gate, nt_handoff, nt_pc, nt_heard>>
  PROVE  Stays
BY DEF Stays, Over, Native!Verdict

(* A return ends the turn with a verdict on what was heard.                *)
LEMMA ReturnEnds ==
  ASSUME NativeInv, nt_pc \notin {"returned", "handoff"}, NEW r, Native!Return(r)
  PROVE  Ends
BY DEF NativeInv, NativeTyped, DecidedPlaces, Native!Return, Native!Cleaned, Native!gateVars,
       Ends, Over, Native!Verdict

(* So does a failure.                                                      *)
LEMMA FailEnds ==
  ASSUME NativeInv, nt_pc \notin {"returned", "handoff"},
         Native!Fail \/ Native!FailDiscarding
  PROVE  Ends
BY ReturnEnds DEF Native!Fail, Native!FailDiscarding

(* Before the provider answers nothing is heard.                           *)
LEMMA EarlySpeaks ==
  ASSUME NativeInv,
         \/ Native!PrepareState \/ Native!Drain \/ Native!Acquire \/ Native!StartActivity
         \/ Native!SenderEnds \/ Native!SenderFails
  PROVE  Stays \/ Ends
<1> USE DEF NativeInv, NativeTyped, DecidedPlaces, Native!envVars, Native!gateVars,
            Native!stagedVars, Stays, Over, Native!Verdict
<1>1. CASE Native!PrepareState  BY <1>1, FailEnds DEF Native!PrepareState
<1>2. CASE Native!Drain  BY <1>2, ReturnEnds, FailEnds DEF Native!Drain
<1>3. CASE Native!Acquire  BY <1>3, FailEnds DEF Native!Acquire
<1>4. CASE Native!StartActivity  BY <1>4, FailEnds DEF Native!StartActivity
<1>5. CASE Native!SenderEnds  BY <1>5 DEF Native!SenderEnds
<1>6. CASE Native!SenderFails  BY <1>6 DEF Native!SenderFails
<1> QED  BY <1>1, <1>2, <1>3, <1>4, <1>5, <1>6

(* A caption of the input is not heard.                                    *)
LEMMA CaptionSpeaks ==
  ASSUME NativeInv, NEW c \in Native!Captions, NEW final \in BOOLEAN,
         Native!InputCaption(c, final)
  PROVE  Stays \/ Ends
BY DEF Native!InputCaption, Native!Decisive, Native!Cleaned, NativeInv, NativeTyped,
       DecidedPlaces, Stays, Ends, Over, Native!Verdict

(* Only the audio of a turn that was approved is heard.                    *)
LEMMA OutputSpeaks ==
  ASSUME NativeInv,
         \/ Native!BadCaption \/ Native!ReceiveFails \/ Native!OutputCaption \/ Native!AudioPCM
         \/ Native!TurnComplete \/ Native!Interrupted \/ Native!Finish
  PROVE  Stays \/ Speaks \/ Ends
<1> USE DEF Native!envVars, Native!gateVars, Native!stagedVars
<1>1. CASE Native!BadCaption \/ Native!ReceiveFails \/ Native!Interrupted
  BY <1>1, FailEnds DEF Native!BadCaption, Native!ReceiveFails, Native!Interrupted
<1>2. CASE Native!OutputCaption
  BY <1>2, FailEnds, VerdictKept DEF Native!OutputCaption, Native!Readable
<1>3. CASE Native!AudioPCM
  BY <1>3, FailEnds DEF Native!AudioPCM, Native!Readable, Speaks, Over, Native!Verdict
<1>4. CASE Native!TurnComplete
  BY <1>4 DEF Native!TurnComplete, Native!Readable, Stays, Over, Native!Verdict
<1>5. CASE Native!Finish
  BY <1>5, FailEnds, ReturnEnds DEF Native!Finish
<1> QED  BY <1>1, <1>2, <1>3, <1>4, <1>5

(* The gate decides who speaks, once.                                      *)
LEMMA GateSpeaks ==
  ASSUME NativeInv,
         Native!AwaitFails \/ Native!Reject \/ Native!Donate \/ Native!Approve
  PROVE  Decides \/ Ends
<1>1. nt_pc = "await" /\ Native!Verdict = "pending"
  BY DEF Native!AwaitFails, Native!Reject, Native!Donate, Native!Approve, NativeInv,
         DecidedPlaces, Native!Verdict
<1>2. CASE Native!Fail \/ Native!FailDiscarding
  BY <1>1, <1>2, FailEnds
<1>3. CASE Native!Return("fallback")
  BY <1>1, <1>3, ReturnEnds
<1>4. CASE Native!Donate /\ nt_pc' = "handoff"
  BY <1>1, <1>4
     DEF Native!Donate, Native!Fail, Native!FailDiscarding, Native!Return, Native!gateVars,
         Decides, Over, Native!Verdict
<1>5. CASE Native!Approve /\ nt_gate'
  BY <1>1, <1>5
     DEF Native!Approve, Native!Fail, Native!Return, Native!gateVars, NativeInv, DecidedPlaces,
         Decides, Over, Native!Verdict
<1> QED
  BY <1>2, <1>3, <1>4, <1>5
     DEF Native!AwaitFails, Native!Reject, Native!Donate, Native!Approve

(* The staged voice is heard only after the handoff committed.             *)
LEMMA StagedSpeaks ==
  ASSUME NativeInv,
         \/ Native!PublishCheckpoint \/ Native!StagedAudio \/ Native!HandoffReturns
         \/ Native!CommitFrame \/ Native!CallerLeaves \/ Native!SessionEnds
  PROVE  Stays \/ Speaks \/ Ends
<1> USE DEF Native!envVars, Native!gateVars, Native!stagedVars, NativeInv, DecidedPlaces,
            Over, Native!Verdict
<1>1. CASE Native!PublishCheckpoint  BY <1>1, VerdictKept DEF Native!PublishCheckpoint
<1>2. CASE Native!StagedAudio  BY <1>2 DEF Native!StagedAudio, Speaks
<1>3. CASE Native!HandoffReturns  BY <1>3 DEF Native!HandoffReturns, Ends
<1>4. CASE Native!CommitFrame  BY <1>4, VerdictKept DEF Native!CommitFrame
<1>5. CASE Native!CallerLeaves  BY <1>5, VerdictKept DEF Native!CallerLeaves
<1>6. CASE Native!SessionEnds  BY <1>6, VerdictKept DEF Native!SessionEnds
<1> QED  BY <1>1, <1>2, <1>3, <1>4, <1>5, <1>6

(* Every step of the native turn is one of TurnVoice, or none.             *)
LEMMA NativeSpeaksAs ==
  NativeInv /\ [Native!Next]_(Native!vars) => [Native!Voice!Next]_(Native!Voice!vars)
<1>1. UNCHANGED Native!vars => Stays
  BY VerdictKept DEF Native!vars, Native!gateVars, Native!stagedVars
<1> QED
  BY <1>1, EarlySpeaks, CaptionSpeaks, OutputSpeaks, GateSpeaks, StagedSpeaks, TurnVoiceSteps
     DEF Native!Next, Native!TurnStep

(* A native turn decides once between the provider's voice and the staged  *)
(* path; only the voice it decided for is heard, and none after it         *)
(* returned (Service.processLive, nativeflow.go).                          *)
THEOREM TurnVoiceRefined == Native!Spec => RefinesTurnVoice
<1>1. Native!Init => NativeInv
  BY NativeStarts
<1>2. NativeInv /\ [Native!Next]_(Native!vars) => NativeInv'
  BY NativeHolds
<1>3. Native!Init => Native!Voice!Init
  BY DEF Native!Init, Native!Voice!Init, Native!Verdict
<1>4. NativeInv /\ [Native!Next]_(Native!vars) => [Native!Voice!Next]_(Native!Voice!vars)
  BY NativeSpeaksAs
<1> QED
  BY <1>1, <1>2, <1>3, <1>4, PTL DEF Native!Spec, RefinesTurnVoice, Native!RefinesTurnVoice, Native!Voice!Spec

(* The browser is asked to replay its recording only when it has committed *)
(* it and nothing was heard, and a turn in which the person refused proxy  *)
(* answers publishes no respondent checkpoint (nativeflow.go).             *)
THEOREM FallbackIsReplayableAlways == Native!Spec => []FallbackIsReplayable
<1>1. Native!Init => NativeInv
  BY NativeStarts
<1>2. NativeInv /\ [Native!Next]_(Native!vars) => NativeInv'
  BY NativeHolds
<1>3. NativeInv => FallbackIsReplayable
  BY DEF NativeInv, NativeTyped, HeardAsDecided, DecidedPlaces, InputFirst,
         FallbackIsReplayable, Native!FallbackIsReplayable, Native!ReplayIsSilent, Native!RefusalGivesNoCheckpoint
<1> QED  BY <1>1, <1>2, <1>3, PTL DEF Native!Spec
-----------------------------------------------------------------------------
(* The caption handoff (CaptionHandoff).                                   *)

ChVoices == {"spec", "candidate", "direct"}
Openings == [ChVoices -> {"absent", "sealed", "open", "dead"}]
Calls == [ChVoices -> {"out", "wait", "in", "call"}]
Choices == [respondent : BOOLEAN, speaks : BOOLEAN]
Specs == [at : {"none", "thinking", "decided", "failed"}, text : Texts \union {None},
          decision : Choices, authority : {"none", "prepared"}]
Cancels == [Cancellers -> {"idle", "revoke", "drain", "returned"}]

HandoffTyped ==
  /\ ch_gate \in Openings /\ ch_deliver \in Calls /\ ch_cancel \in Cancels
  /\ ch_pc \in {"idle", "match", "infer", "authorize", "commitInitiative", "grant", "release",
                "speak", "finish", "drain", "returned"}
  /\ ch_voice \in ChVoices \union {None}
  /\ ch_caption \in Texts \union {None} /\ ch_spec \in Specs /\ ch_decision \in Choices
  /\ ch_checkpoint \in BOOLEAN /\ ch_canceled \in BOOLEAN /\ ch_finished \in BOOLEAN
  /\ ch_committed \in BOOLEAN /\ ch_audioAuthorized \in BOOLEAN /\ ch_ctxOver \in BOOLEAN

(* What Commit knows, step by step, before it lets anything be heard.      *)
Cleared == ch_decision.respondent => ch_checkpoint /\ ch_authority = "committed"
Granting ==
  /\ ch_pc = "idle" => ~ch_committed /\ ~ch_finished
  /\ ch_pc \in {"authorize", "commitInitiative", "grant"} =>
       (ch_voice # None <=> ch_decision.speaks)
  /\ ch_pc = "commitInitiative" => ch_checkpoint
  /\ ch_pc = "grant" /\ ch_decision.respondent =>
       ch_checkpoint /\ (ch_decision.speaks => ch_authority = "committed")
  /\ ch_pc \in {"release", "speak"} => Cleared /\ ch_voice # None

(* A voice that is open, or was, is one Commit cleared.                    *)
OpenedCleared ==
  \A v \in ChVoices : ch_gate[v] = "open" \/ ch_deliver[v] # "out" =>
    Cleared /\ ch_pc \in {"release", "speak", "finish", "drain", "returned"}

(* Who holds the two locks, and what the flags mean while they are held.   *)
Locks ==
  /\ \A v \in ChVoices : ch_pub = v <=> ch_deliver[v] \in {"in", "call"}
  /\ ch_pc = "drain" => ch_finished
  /\ \A c \in Cancellers : ch_cancel[c] # "idle" => ch_canceled \/ ch_finished
  /\ ch_canceled \/ ch_finished => ~ch_audioAuthorized

Silent == (ch_pc = "returned" /\ ch_finished) \/ (\E c \in Cancellers : ch_cancel[c] = "returned")
            => \A v \in ChVoices : ch_deliver[v] # "call"

HandoffInv == HandoffTyped /\ Granting /\ OpenedCleared /\ Locks /\ Silent

(* A gate that is killed opens none.                                       *)
LEMMA KillTyped ==
  ASSUME ch_gate \in Openings, NEW v \in ChVoices, Handoff!Kill(v)
  PROVE  ch_gate' \in Openings /\ \A w \in ChVoices : ch_gate'[w] = "open" => ch_gate[w] = "open"
BY DEF Openings, Handoff!Kill

(* The speculations that the handoff makes.                                *)
LEMMA SpecTyped ==
  /\ Handoff!NoSpec \in Specs
  /\ \A c \in Texts : [Handoff!NoSpec EXCEPT !.at = "thinking", !.text = c] \in Specs
  /\ \A s \in Specs : [s EXCEPT !.at = "failed"] \in Specs
  /\ \A s \in Specs, d \in Choices, a \in {"none", "prepared"} :
       [s EXCEPT !.at = "decided", !.decision = d, !.authority = a] \in Specs
BY DEF Handoff!NoSpec, Handoff!Undecided, Specs, Choices

(* The openings that the handoff makes.                                    *)
LEMMA GateTyped ==
  /\ [v \in Handoff!Voices |-> IF ch_gate[v] = "absent" THEN "absent" ELSE "dead"] \in Openings
  /\ ch_gate \in Openings =>
       \A v \in ChVoices, to \in {"sealed", "open"} : [ch_gate EXCEPT ![v] = to] \in Openings
BY DEF Openings, Handoff!Voices, ChVoices

(* The states of a cancellation.                                           *)
LEMMA CancelTyped ==
  ASSUME ch_cancel \in Cancels, NEW c \in Cancellers
  PROVE  \A to \in {"revoke", "drain", "returned"} : [ch_cancel EXCEPT ![c] = to] \in Cancels
BY DEF Cancels

(* The steps of Commit, and of its request, that touch neither a gate nor  *)
(* a lock.                                                                 *)
LEMMA CommitMoves ==
  ASSUME Handoff!HandoffAssumption, HandoffInv,
         \/ Handoff!CommitStarts \/ Handoff!CommitRefused \/ Handoff!Adopt \/ Handoff!InferFails
         \/ Handoff!AcceptCheckpoint \/ Handoff!CommitInitiative \/ Handoff!Grant
         \/ Handoff!ReleaseDone \/ Handoff!SpeakEnds \/ Handoff!CommitFrame
         \/ Handoff!RequestEnds
  PROVE  HandoffInv'
<1> USE DEF HandoffInv, HandoffTyped, Granting, OpenedCleared, Locks, Silent, Cleared, Choices,
            Handoff!captionVars, Handoff!flagVars, Handoff!commitVars, Handoff!publishVars
<1>1. CASE Handoff!CommitStarts  BY <1>1 DEF Handoff!CommitStarts
<1>2. CASE Handoff!CommitRefused  BY <1>2 DEF Handoff!CommitRefused
<1>3. CASE Handoff!Adopt  BY <1>3 DEF Handoff!Adopt, Specs, ChVoices,
                                      Handoff!HandoffAssumption, Handoff!Voices
<1>4. CASE Handoff!InferFails  BY <1>4 DEF Handoff!InferFails
<1>5. CASE Handoff!AcceptCheckpoint  BY <1>5 DEF Handoff!AcceptCheckpoint
<1>6. CASE Handoff!CommitInitiative  BY <1>6 DEF Handoff!CommitInitiative
<1>7. CASE Handoff!Grant  BY <1>7 DEF Handoff!Grant, Handoff!MayGrant, Handoff!After
<1>8. CASE Handoff!ReleaseDone  BY <1>8 DEF Handoff!ReleaseDone
<1>9. CASE Handoff!SpeakEnds  BY <1>9 DEF Handoff!SpeakEnds
<1>10. CASE Handoff!CommitFrame  BY <1>10 DEF Handoff!CommitFrame
<1>11. CASE Handoff!RequestEnds  BY <1>11 DEF Handoff!RequestEnds
<1> QED  BY <1>1, <1>2, <1>3, <1>4, <1>5, <1>6, <1>7, <1>8, <1>9, <1>10, <1>11

(* The steps of Commit that seal, open or kill a gate.                     *)
LEMMA CommitGates ==
  ASSUME Handoff!HandoffAssumption, HandoffInv,
         \/ Handoff!DropSpec \/ Handoff!Unauthorized \/ Handoff!Release
         \/ Handoff!ReleaseFails \/ Handoff!StartDirect
         \/ Handoff!FinishMark \/ Handoff!FinishDrain
         \/ \E d \in Handoff!Decisions : Handoff!Infer(d)
  PROVE  HandoffInv'
<1> USE DEF Handoff!captionVars, Handoff!flagVars, Handoff!commitVars, Handoff!publishVars
<1>1. CASE Handoff!DropSpec
  <2>1. HandoffTyped'
    BY <1>1, KillTyped, SpecTyped DEF HandoffInv, HandoffTyped, Handoff!DropSpec, ChVoices
  <2>2. Granting' /\ OpenedCleared' /\ Locks' /\ Silent'
    BY <1>1 DEF HandoffInv, HandoffTyped, Granting, OpenedCleared, Locks, Silent, Cleared,
                Handoff!DropSpec, Handoff!Kill, Openings, ChVoices, Calls, Handoff!Voices
  <2> QED  BY <2>1, <2>2 DEF HandoffInv
<1>2. CASE Handoff!Unauthorized
  <2>1. HandoffTyped'
    BY <1>2, GateTyped DEF HandoffInv, HandoffTyped, Handoff!Unauthorized
  <2>2. Granting' /\ OpenedCleared' /\ Locks' /\ Silent'
    BY <1>2 DEF HandoffInv, HandoffTyped, Granting, OpenedCleared, Locks, Silent, Cleared,
                Handoff!Unauthorized, Handoff!Kill, Openings, ChVoices, Calls, Handoff!Voices
  <2> QED  BY <2>1, <2>2 DEF HandoffInv
<1>3. CASE Handoff!Release
  <2>1. HandoffTyped'
    BY <1>3, GateTyped DEF HandoffInv, HandoffTyped, Handoff!Release, Granting,
                           Handoff!HandoffAssumption
  <2>2. Granting' /\ OpenedCleared' /\ Locks' /\ Silent'
    BY <1>3 DEF HandoffInv, HandoffTyped, Granting, OpenedCleared, Locks, Silent, Cleared,
                Handoff!Release, Handoff!Kill, Openings, ChVoices, Calls, Handoff!Voices
  <2> QED  BY <2>1, <2>2 DEF HandoffInv
<1>4. CASE Handoff!ReleaseFails
  <2>1. ch_voice \in ChVoices  BY <1>4 DEF Handoff!ReleaseFails, HandoffInv, HandoffTyped,
                                           Granting
  <2>2. ch_gate' \in Openings /\ ch_voice' \in ChVoices
    BY <1>4, <2>1, KillTyped DEF Handoff!ReleaseFails, HandoffInv, HandoffTyped, ChVoices
  <2>3. HandoffTyped'
    BY <1>4, <2>2 DEF Handoff!ReleaseFails, HandoffInv, HandoffTyped
  <2>4. Granting' /\ OpenedCleared' /\ Locks' /\ Silent'
    BY <1>4 DEF HandoffInv, HandoffTyped, Granting, OpenedCleared, Locks, Silent, Cleared,
                Handoff!ReleaseFails, Handoff!Kill, Openings, ChVoices, Calls, Handoff!Voices,
                     Handoff!HandoffAssumption
  <2> QED  BY <2>3, <2>4 DEF HandoffInv
<1>5. CASE Handoff!StartDirect
  <2>1. HandoffTyped'
    BY <1>5, GateTyped DEF HandoffInv, HandoffTyped, Handoff!StartDirect, ChVoices
  <2>2. Granting' /\ OpenedCleared' /\ Locks' /\ Silent'
    BY <1>5 DEF HandoffInv, HandoffTyped, Granting, OpenedCleared, Locks, Silent, Cleared,
                Handoff!StartDirect, Handoff!Kill, Openings, ChVoices, Calls, Handoff!Voices
  <2> QED  BY <2>1, <2>2 DEF HandoffInv
<1>6. CASE Handoff!FinishMark
  <2>1. HandoffTyped'
    BY <1>6, GateTyped DEF HandoffInv, HandoffTyped, Handoff!FinishMark
  <2>2. Granting' /\ OpenedCleared' /\ Locks' /\ Silent'
    BY <1>6 DEF HandoffInv, HandoffTyped, Granting, OpenedCleared, Locks, Silent, Cleared,
                Handoff!FinishMark, Handoff!Kill, Openings, ChVoices, Calls, Handoff!Voices
  <2> QED  BY <2>1, <2>2 DEF HandoffInv
<1>7. CASE Handoff!FinishDrain
  <2>1. HandoffTyped'
    BY <1>7 DEF HandoffInv, HandoffTyped, Handoff!FinishDrain, Handoff!Drained
  <2>2. Granting' /\ OpenedCleared' /\ Locks' /\ Silent'
    BY <1>7 DEF HandoffInv, HandoffTyped, Granting, OpenedCleared, Locks, Silent, Cleared,
                Handoff!FinishDrain, Handoff!Drained, Handoff!Kill, Openings, ChVoices, Calls,
                     Handoff!Voices, Handoff!HandoffAssumption
  <2> QED  BY <2>1, <2>2 DEF HandoffInv
<1>8. ASSUME NEW d \in Handoff!Decisions, Handoff!Infer(d)  PROVE HandoffInv'
  <2>1. HandoffTyped'
    BY ZenonT(30), <1>8, GateTyped DEF HandoffInv, HandoffTyped, Handoff!Infer, Handoff!Decisions, Choices,
                           ChVoices
  <2>2. Granting' /\ OpenedCleared' /\ Locks' /\ Silent'
    BY <1>8 DEF HandoffInv, HandoffTyped, Granting, OpenedCleared, Locks, Silent, Cleared,
                Handoff!Infer, Handoff!HandoffAssumption, Handoff!Decisions, Handoff!Kill,
                     Openings, ChVoices, Calls, Handoff!Voices
  <2> QED  BY <2>1, <2>2 DEF HandoffInv
<1> QED  BY <1>1, <1>2, <1>3, <1>4, <1>5, <1>6, <1>7, <1>8

(* The captions and the speculation.                                       *)
LEMMA CaptionMoves ==
  ASSUME HandoffInv, NEW c \in Texts, NEW final \in BOOLEAN, Handoff!Observe(c, final)
  PROVE  HandoffInv'
<1> USE DEF Handoff!captionVars, Handoff!flagVars, Handoff!commitVars, Handoff!publishVars
<1>1. HandoffTyped'
  BY KillTyped, SpecTyped DEF HandoffInv, HandoffTyped, Handoff!Observe, Handoff!Revise,
                              ChVoices
<1>2. Granting' /\ OpenedCleared' /\ Locks' /\ Silent'
  BY DEF HandoffInv, HandoffTyped, Granting, OpenedCleared, Locks, Silent, Cleared,
         Handoff!Observe, Handoff!Revise, Handoff!Kill, Openings, ChVoices, Calls,
              Handoff!Voices
<1> QED  BY <1>1, <1>2 DEF HandoffInv

(* The speculation has its decision.                                       *)
LEMMA SpeculationMoves ==
  ASSUME HandoffInv, NEW d \in Handoff!Decisions, Handoff!SpecDecides(d)
  PROVE  HandoffInv'
<1>1. d \in Choices  BY DEF Handoff!Decisions, Choices
<1>2. UNCHANGED <<ch_caption, ch_deliver, ch_cancel, ch_pub, ch_pc, ch_voice, ch_decision,
                  ch_checkpoint, ch_authority, ch_canceled, ch_finished, ch_committed,
                  ch_audioAuthorized, ch_ctxOver>>
  BY DEF Handoff!SpecDecides, Handoff!captionVars, Handoff!flagVars, Handoff!commitVars,
         Handoff!publishVars
<1>3. ch_gate' = ch_gate \/ ch_gate' = [ch_gate EXCEPT !["spec"] = "sealed"]
  BY DEF Handoff!SpecDecides
<1>4. /\ ch_gate' \in Openings
      /\ \A w \in ChVoices : ch_gate'[w] = "open" => ch_gate[w] = "open"
  BY <1>3 DEF HandoffInv, HandoffTyped, Openings, ChVoices
<1>5. ch_spec' \in Specs
  <2>1. ch_spec \in Specs  BY DEF HandoffInv, HandoffTyped
  <2>2. CASE ch_spec' = [ch_spec EXCEPT !.at = "failed"]
    BY <2>1, <2>2, SpecTyped
  <2>3. ASSUME NEW a \in {"none", "prepared"},
               ch_spec' = [ch_spec EXCEPT !.at = "decided", !.decision = d, !.authority = a]
        PROVE  ch_spec' \in Specs
    BY <1>1, <2>1, <2>3, SpecTyped
  <2> QED  BY <2>2, <2>3 DEF Handoff!SpecDecides
<1>6. HandoffTyped'  BY <1>2, <1>4, <1>5 DEF HandoffInv, HandoffTyped
<1> QED  BY <1>2, <1>4, <1>6 DEF HandoffInv, Granting, OpenedCleared, Locks, Silent, Cleared

(* The delivery of PCM, one callback at a time.                            *)
LEMMA DeliverMoves ==
  ASSUME Handoff!HandoffAssumption, HandoffInv, NEW v \in ChVoices, Handoff!DeliverStep(v)
  PROVE  HandoffInv'
<1> USE DEF Handoff!captionVars, Handoff!flagVars, Handoff!commitVars, Handoff!publishVars
<1>1. CASE Handoff!DeliverStart(v)
  <2>1. HandoffTyped'
    BY <1>1 DEF HandoffInv, HandoffTyped, Handoff!DeliverStart, Handoff!Kill, Openings,
                ChVoices, Calls, Handoff!Voices
  <2>2. Granting' /\ OpenedCleared' /\ Locks' /\ Silent'
    BY <1>1 DEF HandoffInv, HandoffTyped, Granting, OpenedCleared, Locks, Silent, Cleared,
                Handoff!DeliverStart, Handoff!HandoffAssumption, Handoff!Kill, Openings,
                     ChVoices, Calls, Handoff!Voices
  <2> QED  BY <2>1, <2>2 DEF HandoffInv
<1>2. CASE Handoff!DeliverEnter(v)
  <2>1. HandoffTyped'
    BY <1>2 DEF HandoffInv, HandoffTyped, Handoff!DeliverEnter, Handoff!Kill, Openings,
                ChVoices, Calls, Handoff!Voices
  <2>2. Granting' /\ OpenedCleared' /\ Locks' /\ Silent'
    BY <1>2 DEF HandoffInv, HandoffTyped, Granting, OpenedCleared, Locks, Silent, Cleared,
                Handoff!DeliverEnter, Handoff!HandoffAssumption, Handoff!Kill, Openings,
                     ChVoices, Calls, Handoff!Voices
  <2> QED  BY <2>1, <2>2 DEF HandoffInv
<1>3. CASE Handoff!DeliverCheck(v)
  <2>1. HandoffTyped'
    BY <1>3 DEF HandoffInv, HandoffTyped, Handoff!DeliverCheck, Handoff!Kill, Openings,
                ChVoices, Calls, Handoff!Voices
  <2>2. Granting' /\ OpenedCleared' /\ Locks' /\ Silent'
    BY <1>3 DEF HandoffInv, HandoffTyped, Granting, OpenedCleared, Locks, Silent, Cleared,
                Handoff!DeliverCheck, Handoff!HandoffAssumption, Handoff!MayPublish,
                     Handoff!Kill, Openings, ChVoices, Calls, Handoff!Voices
  <2> QED  BY <2>1, <2>2 DEF HandoffInv
<1>4. CASE Handoff!DeliverReturns(v)
  <2>1. HandoffTyped'
    BY <1>4 DEF HandoffInv, HandoffTyped, Handoff!DeliverReturns, Handoff!Kill, Openings,
                ChVoices, Calls, Handoff!Voices
  <2>2. Granting' /\ OpenedCleared' /\ Locks' /\ Silent'
    BY <1>4 DEF HandoffInv, HandoffTyped, Granting, OpenedCleared, Locks, Silent, Cleared,
                Handoff!DeliverReturns, Handoff!HandoffAssumption, Handoff!Kill, Openings,
                     ChVoices, Calls, Handoff!Voices
  <2> QED  BY <2>1, <2>2 DEF HandoffInv
<1> QED  BY <1>1, <1>2, <1>3, <1>4 DEF Handoff!DeliverStep

(* Cancel, from any goroutine.                                             *)
LEMMA CancelMoves ==
  ASSUME Handoff!HandoffAssumption, HandoffInv, NEW c \in Cancellers,
         Handoff!CancelMark(c) \/ Handoff!CancelRevoke(c) \/ Handoff!CancelDrain(c)
  PROVE  HandoffInv'
<1> USE DEF Handoff!captionVars, Handoff!flagVars, Handoff!commitVars, Handoff!publishVars
<1>1. CASE Handoff!CancelMark(c)
  <2>1. UNCHANGED <<ch_caption, ch_spec, ch_gate, ch_deliver, ch_pub, ch_pc, ch_voice,
                    ch_decision, ch_checkpoint, ch_authority, ch_finished, ch_committed,
                    ch_ctxOver>>
    BY <1>1 DEF Handoff!CancelMark
  <2>2. ch_cancel' \in Cancels
    BY <1>1, CancelTyped DEF Handoff!CancelMark, HandoffInv, HandoffTyped
  <2>3. ch_canceled' \in BOOLEAN /\ ch_audioAuthorized' \in BOOLEAN
    BY <1>1 DEF Handoff!CancelMark, HandoffInv, HandoffTyped
  <2>4. HandoffTyped'  BY <2>1, <2>2, <2>3 DEF HandoffInv, HandoffTyped
  <2>5. Granting' /\ OpenedCleared' /\ Locks' /\ Silent'
    BY <1>1 DEF HandoffInv, HandoffTyped, Granting, OpenedCleared, Locks, Silent, Cleared,
                Handoff!CancelMark, Cancels
  <2> QED  BY <2>4, <2>5 DEF HandoffInv
<1>2. CASE Handoff!CancelRevoke(c)
  <2>1. UNCHANGED <<ch_caption, ch_deliver, ch_pub, ch_pc, ch_voice, ch_decision,
                    ch_checkpoint, ch_authority, ch_canceled, ch_finished, ch_committed,
                    ch_audioAuthorized>>
    BY <1>2 DEF Handoff!CancelRevoke
  <2>2. ch_cancel' \in Cancels
    BY <1>2, CancelTyped DEF Handoff!CancelRevoke, HandoffInv, HandoffTyped
  <2>3. ch_spec' \in Specs /\ ch_gate' \in Openings
    BY <1>2, KillTyped, SpecTyped DEF Handoff!CancelRevoke, HandoffInv, HandoffTyped, ChVoices
  <2>4. ch_ctxOver' \in BOOLEAN  BY <1>2 DEF Handoff!CancelRevoke
  <2>5. HandoffTyped'  BY <2>1, <2>2, <2>3, <2>4 DEF HandoffInv, HandoffTyped
  <2>6. Granting' /\ OpenedCleared' /\ Locks' /\ Silent'
    BY <1>2 DEF HandoffInv, HandoffTyped, Granting, OpenedCleared, Locks, Silent, Cleared,
                Handoff!CancelRevoke, Cancels, Handoff!Kill, Openings, ChVoices
  <2> QED  BY <2>5, <2>6 DEF HandoffInv
<1>3. CASE Handoff!CancelDrain(c)
  <2>1. HandoffTyped'
    BY ZenonT(30), <1>3, CancelTyped DEF HandoffInv, HandoffTyped, Handoff!CancelDrain
  <2>2. Granting' /\ OpenedCleared' /\ Locks' /\ Silent'
    BY <1>3 DEF HandoffInv, HandoffTyped, Granting, OpenedCleared, Locks, Silent, Cleared,
                Handoff!CancelDrain, Handoff!HandoffAssumption, Handoff!Drained, Cancels,
                     Handoff!Kill, Openings, ChVoices, Calls, Handoff!Voices
  <2> QED  BY <2>1, <2>2 DEF HandoffInv
<1> QED  BY <1>1, <1>2, <1>3

(* The invariant of the handoff holds in the beginning.                    *)
LEMMA HandoffStarts ==
  ASSUME Handoff!HandoffAssumption, Handoff!Init
  PROVE  HandoffInv
<1>1. HandoffTyped
  BY SpecTyped DEF Handoff!Init, Handoff!Undecided, HandoffTyped, Openings, Calls, Cancels,
                   Choices,
                   Handoff!Voices, ChVoices
<1>2. Granting /\ OpenedCleared /\ Locks /\ Silent
  BY DEF Handoff!Init, Handoff!HandoffAssumption, Handoff!Voices, ChVoices, Granting,
         OpenedCleared, Locks, Silent
<1> QED  BY <1>1, <1>2 DEF HandoffInv

(* The inductive invariant of the handoff.                                 *)
LEMMA HandoffHolds ==
  ASSUME Handoff!HandoffAssumption, HandoffInv, [Handoff!Next]_(Handoff!vars)
  PROVE  HandoffInv'
<1>1. CASE UNCHANGED Handoff!vars
  BY <1>1 DEF Handoff!vars, Handoff!captionVars, Handoff!flagVars, Handoff!commitVars,
              Handoff!publishVars, HandoffInv, HandoffTyped, Granting, OpenedCleared, Locks,
              Silent, Cleared
<1>2. CASE Handoff!CommitStep
  BY <1>2, CommitMoves, CommitGates DEF Handoff!CommitStep
<1>3. CASE \E v \in Handoff!Voices : Handoff!DeliverStep(v)
  BY <1>3, DeliverMoves DEF Handoff!Voices, ChVoices
<1>4. CASE Handoff!CommitFrame \/ Handoff!RequestEnds
  BY <1>4, CommitMoves
<1> QED
  BY <1>1, <1>2, <1>3, <1>4, CaptionMoves, SpeculationMoves, CancelMoves DEF Handoff!Next

(* PCM of a respondent's reply is published only after the transport took  *)
(* its checkpoint and the authority was used, and none once Cancel, or a   *)
(* Commit that started, has returned (captionHandoff, voiceflow).          *)
THEOREM CheckpointFirstAlways ==
  ASSUME Handoff!HandoffAssumption
  PROVE  Handoff!Spec => []CheckpointFirst
<1>1. Handoff!Init => HandoffInv
  BY HandoffStarts
<1>2. HandoffInv /\ [Handoff!Next]_(Handoff!vars) => HandoffInv'
  BY HandoffHolds
<1>3. HandoffInv => CheckpointFirst
  BY DEF HandoffInv, OpenedCleared, Cleared, Silent, Handoff!Voices, ChVoices,
         CheckpointFirst, Handoff!CheckpointFirst, Handoff!AuthorizedBeforeSpeech, Handoff!SilentAfterReturn,
         Handoff!Ended
<1> QED  BY <1>1, <1>2, <1>3, PTL DEF Handoff!Spec
-----------------------------------------------------------------------------
(* The ownership of a prepared connection, for any set of syntheses: its   *)
(* Inv is inductive as it stands, for the transfer ends the preparation's  *)
(* right to cancel, and only the owner streams.                            *)
CONSTANTS Users, NoUser

VARIABLES ps_conn, ps_owner, ps_closed, ps_cancelHeld, ps_cancelled, ps_user

Prepared == INSTANCE PreparedStream WITH
    conn <- ps_conn, owner <- ps_owner, closed <- ps_closed, cancelHeld <- ps_cancelHeld,
    cancelled <- ps_cancelled, user <- ps_user

PreparedStreamAssumption == NoUser \notin Users

(* close keeps nothing and cancels nothing that was transferred.           *)
LEMMA PreparedCloses ==
  ASSUME PreparedStreamAssumption, Prepared!Inv, Prepared!Closed, UNCHANGED <<ps_owner, ps_cancelHeld>>,
         ps_user' \in [Users -> {"idle", "streaming", "ordinary", "done"}],
         \A u \in Users : ps_user'[u] = "streaming" => ps_user[u] = "streaming"
  PROVE  Prepared!Inv'
<1> USE DEF Prepared!Inv, Prepared!Closed, Prepared!Transfer
<1>1. /\ ps_closed' = TRUE /\ ps_owner' = ps_owner /\ ps_cancelHeld' = ps_cancelHeld
      /\ ps_conn' = ps_conn \/ (ps_conn = "stored" /\ ps_conn' = "closed")
      /\ ps_owner # NoUser => ps_cancelled' = ps_cancelled
      /\ ps_conn = "owned" => ps_conn' = "owned"
      /\ ps_conn' # "stored" \/ ps_closed
      /\ ps_owner # NoUser => ps_conn' \in {"owned", "closed"}
  <2>1. ps_cancelled \in BOOLEAN /\ ps_cancelHeld \in BOOLEAN  BY DEF Prepared!TypeOK
  <2>2. ps_owner # NoUser => ps_cancelled' = ps_cancelled  BY <2>1
  <2> QED  BY <2>2
<1>2. Prepared!TypeOK'
  <2>1. ps_cancelled' \in BOOLEAN /\ ps_closed' \in BOOLEAN /\ ps_cancelHeld' \in BOOLEAN
    BY DEF Prepared!TypeOK
  <2>2. ps_conn' \in {"opening", "opened", "stored", "owned", "closed", "none"}
    BY <1>1 DEF Prepared!TypeOK
  <2> QED  BY <2>1, <2>2, <1>1 DEF Prepared!TypeOK
<1>3. Prepared!NothingKept'  BY <1>1 DEF Prepared!NothingKept
<1>4. Prepared!StreamUndisturbed'
  BY <1>1, PreparedStreamAssumption DEF PreparedStreamAssumption, Prepared!StreamUndisturbed
<1>5. Prepared!Transfer'
  BY <1>1 DEF Prepared!Transfer
<1> QED  BY <1>2, <1>3, <1>4, <1>5

(* Every step of the handshake, the syntheses and the turn keeps Inv.      *)
LEMMA PreparedHolds ==
  ASSUME PreparedStreamAssumption PROVE Prepared!Inv /\ [Prepared!Next]_(Prepared!vars) => Prepared!Inv'
<1> SUFFICES ASSUME Prepared!Inv, [Prepared!Next]_(Prepared!vars) PROVE Prepared!Inv'  OBVIOUS
<1> USE DEF Prepared!Inv, Prepared!TypeOK, Prepared!NothingKept, Prepared!StreamUndisturbed,
   Prepared!Transfer, PreparedStreamAssumption
<1>1. CASE UNCHANGED Prepared!vars  BY <1>1 DEF Prepared!vars
<1>2. CASE Prepared!OpenReturns  BY <1>2 DEF Prepared!OpenReturns
<1>3. CASE Prepared!Store
  <2>1. CASE ps_closed  BY <1>3, <2>1 DEF Prepared!Store
  <2>2. CASE ~ps_closed  BY <1>3, <2>2 DEF Prepared!Store
  <2> QED  BY <2>1, <2>2
<1>4. CASE Prepared!TurnReturns  BY <1>4, PreparedCloses DEF Prepared!TurnReturns
<1>5. ASSUME NEW u \in Users, Prepared!TakeReady(u) PROVE Prepared!Inv'
  <2> USE DEF Prepared!TakeReady, Prepared!CancelAfterTake
  <2>1. Prepared!TypeOK'  BY <1>5
  <2>2. ~ps_closed' /\ ps_conn' = "owned" /\ ps_owner' = u /\ ps_owner' # NoUser /\ ps_cancelHeld' = FALSE
    BY <1>5, PreparedStreamAssumption
  <2>3. ps_owner = NoUser  BY <1>5
  <2>4. ps_cancelHeld = TRUE  BY <1>5, <2>3
  <2>5. \A v \in Users : ps_user'[v] = "streaming" => v = u
    BY <1>5, <2>3, PreparedStreamAssumption
  <2>6. ~ps_cancelled  BY <1>5, <2>3
  <2> QED  BY <2>1, <2>2, <2>5, <2>6, <1>5
<1>6. ASSUME NEW u \in Users, Prepared!TakeNothing(u) PROVE Prepared!Inv'
  <2>1. /\ ps_user' \in [Users -> {"idle", "streaming", "ordinary", "done"}]
        /\ \A v \in Users : ps_user'[v] = "streaming" => ps_user[v] = "streaming"
    BY <1>6 DEF Prepared!TakeNothing
  <2>2. CASE Prepared!Closed  BY <1>6, <2>1, <2>2, PreparedCloses DEF Prepared!TakeNothing
  <2>3. CASE UNCHANGED <<ps_closed, ps_conn, ps_cancelled>>
    BY <1>6, <2>1, <2>3 DEF Prepared!TakeNothing
  <2> QED  BY <1>6, <2>2, <2>3 DEF Prepared!TakeNothing
<1>7. ASSUME NEW u \in Users, Prepared!Finish(u) PROVE Prepared!Inv'
  <2>1. CASE ps_owner = u  BY <1>7, <2>1, PreparedStreamAssumption DEF Prepared!Finish
  <2>2. CASE ps_owner # u  BY <1>7, <2>2 DEF Prepared!Finish
  <2> QED  BY <2>1, <2>2
<1>8. ASSUME NEW u \in Users, Prepared!Skip(u) PROVE Prepared!Inv'  BY <1>8 DEF Prepared!Skip
<1> QED  BY <1>1, <1>2, <1>3, <1>4, <1>5, <1>6, <1>7, <1>8 DEF Prepared!Next

(* One owner at a time, whose stream nobody else cancels, and nothing kept *)
(* by a closed preparation: startSpeculativeSynthesisPreparation,          *)
(* takeReady and close, for any number of syntheses.                       *)
THEOREM Ownership ==
  ASSUME PreparedStreamAssumption PROVE Prepared!Spec => []Prepared!Inv
<1>1. Prepared!Init => Prepared!Inv
  BY DEF PreparedStreamAssumption, Prepared!Init, Prepared!Inv, Prepared!TypeOK,
     Prepared!NothingKept, Prepared!StreamUndisturbed, Prepared!Transfer
<1>2. Prepared!Inv /\ [Prepared!Next]_(Prepared!vars) => Prepared!Inv'  BY PreparedHolds
<1> QED  BY <1>1, <1>2, PTL DEF Prepared!Spec

(* Reclaiming the preparation never disturbs a stream that is being heard. *)
THEOREM UndisturbedAlways ==
  ASSUME PreparedStreamAssumption PROVE Prepared!Spec => []Prepared!StreamUndisturbed
<1>1. Prepared!Inv => Prepared!StreamUndisturbed  BY DEF Prepared!Inv
<1>2. Prepared!Spec => []Prepared!Inv  BY Ownership
<1> QED  BY <1>1, <1>2, PTL

-----------------------------------------------------------------------------
(* The cache of synthesized speech.                                        *)

(* The bytes that are kept for the texts ts in the map es, with no state   *)
(* in between: Cache!BytesOf is this of the map.                           *)
Bytes(es, ts) == {b \in ts \X (1 .. MaxEntry) : b[2] <= es[b[1]].size}

CacheCalls ==
  [pc : {"idle", "lookup", "owner", "open", "direct", "stream", "put"},
   text : Cache!Phrases \union {"none"}, prepared : BOOLEAN, size : 0 .. Longest,
   whole : BOOLEAN]

CacheTyped ==
  /\ pc_phase \in {"new", "warming", "ready", "down"}
  /\ pc_protected \in {{}, Cues} /\ pc_asked \subseteq Cues /\ pc_warmed \subseteq pc_asked
  /\ pc_circuit \in [probing : BOOLEAN, disabled : BOOLEAN]
  /\ pc_call \in [Callers -> CacheCalls]

(* What the list and the map hold: whole renderings of a size, and a list  *)
(* of nothing but its keys.                                                *)
CacheKept ==
  /\ IsFiniteSet(DOMAIN pc_entries) /\ DOMAIN pc_entries \subseteq Cache!Phrases
  /\ pc_entries \in [DOMAIN pc_entries -> [size : 1 .. MaxEntry, whole : {TRUE}]]
  /\ pc_order \subseteq (DOMAIN pc_entries) \X (DOMAIN pc_entries)
  /\ Cache!Accounted

(* Who is served when: nobody before the cues are protected, only cues     *)
(* that were asked for while they are warmed; what is put was heard whole. *)
Served(k) ==
  /\ k.pc # "idle" => k.text \in Cache!Phrases /\ pc_phase \in {"warming", "ready"}
  /\ k.pc # "idle" /\ pc_phase = "warming" => k.text \in pc_asked
  /\ k.pc = "put" => k.whole /\ k.size \in 1 .. Longest

CacheServed ==
  /\ pc_phase = "new" => pc_protected = {}
  /\ pc_phase \in {"warming", "ready"} => pc_protected = Cues
  /\ \A c \in Callers : Served(pc_call[c])
  /\ Cache!CuesResident

(* The circuit is on probe for one call, and then it is not closed.        *)
CacheProbes ==
  /\ pc_circuit.probing <=> \E c \in Callers : pc_call[c].pc = "direct"
  /\ \A c, d \in Callers : pc_call[c].pc = "direct" /\ pc_call[d].pc = "direct" => c = d
  /\ ~(pc_circuit.probing /\ pc_circuit.disabled)

CacheInv == CacheTyped /\ CacheKept /\ CacheServed /\ CacheProbes

(* The bytes of finitely many texts, of texts apart, of one text, and of   *)
(* texts that a change of the map leaves alone.                            *)
LEMMA BytesFinite ==
  ASSUME MaxEntry \in Nat, NEW es, NEW ts, IsFiniteSet(ts)
  PROVE  IsFiniteSet(Bytes(es, ts))
<1>1. IsFiniteSet(1 .. MaxEntry)  BY FS_Interval
<1>2. IsFiniteSet(ts \X (1 .. MaxEntry))  BY <1>1, FS_Product
<1> QED  BY <1>2, FS_Subset DEF Bytes

LEMMA BytesApart ==
  ASSUME MaxEntry \in Nat, NEW es, NEW ts, NEW us, IsFiniteSet(ts), IsFiniteSet(us),
         ts \intersect us = {}
  PROVE  Cardinality(Bytes(es, ts \union us)) = Cardinality(Bytes(es, ts)) + Cardinality(Bytes(es, us))
<1> DEFINE A == Bytes(es, ts)
           B == Bytes(es, us)
<1>1. IsFiniteSet(A) /\ IsFiniteSet(B)  BY BytesFinite
<1>2. Bytes(es, ts \union us) = A \union B  BY DEF Bytes
<1>3. A \intersect B = {}  BY DEF Bytes
<1> HIDE DEF A, B
<1>4. Cardinality(A) \in Nat /\ Cardinality(B) \in Nat  BY <1>1, FS_CardinalityType
<1>5. Cardinality(A \union B) = Cardinality(A) + Cardinality(B) - Cardinality(A \intersect B)
  BY <1>1, FS_Union
<1>6. Cardinality(A \intersect B) = 0  BY <1>3, FS_EmptySet
<1>7. Cardinality(A \union B) = Cardinality(A) + Cardinality(B)  BY <1>4, <1>5, <1>6
<1> QED  BY <1>2, <1>7 DEF A, B

LEMMA BytesOfOne ==
  ASSUME MaxEntry \in Nat, NEW es, NEW t, es[t].size \in 1 .. MaxEntry
  PROVE  Cardinality(Bytes(es, {t})) = es[t].size
<1> DEFINE n == es[t].size
<1>1. Bytes(es, {t}) = {t} \X (1 .. n)
  <2>1. \A b \in {t} \X (1 .. MaxEntry) : b[1] = t /\ b[2] \in 1 .. MaxEntry /\ b = <<t, b[2]>>  OBVIOUS
  <2>2. \A b \in {t} \X (1 .. n) : b[1] = t /\ b[2] \in 1 .. n /\ b = <<t, b[2]>>  OBVIOUS
  <2> QED  BY <2>1, <2>2 DEF Bytes
<1>2. IsFiniteSet({t}) /\ Cardinality({t}) = 1  BY FS_Singleton
<1>3. IsFiniteSet(1 .. n) /\ Cardinality(1 .. n) = n
  <2>1. n \in Int /\ 1 \in Int /\ ~(1 > n)  OBVIOUS
  <2>2. /\ IsFiniteSet(1 .. n)
        /\ Cardinality(1 .. n) = IF 1 > n THEN 0 ELSE n - 1 + 1
    BY <2>1, FS_Interval
  <2> QED  BY <2>1, <2>2
<1>4. Cardinality({t} \X (1 .. n)) = 1 * n  BY <1>2, <1>3, FS_Product
<1> QED  BY <1>1, <1>4

LEMMA BytesAgree ==
  ASSUME NEW es, NEW fs, NEW ts, \A t \in ts : es[t] = fs[t]
  PROVE  Bytes(es, ts) = Bytes(fs, ts)
BY DEF Bytes

(* A list without some keys, with one of them appended: a list again.      *)
LEMMA AppendedList ==
  ASSUME NEW D, NEW o, o \subseteq D \X D, Cache!Listed(o) = D, Cache!Linear(o),
         NEW gone, NEW t \in gone
  PROVE  LET n == Cache!Appended(Cache!Without(o, gone), t)
             K == (D \ gone) \union {t}
         IN  n \subseteq K \X K /\ Cache!Listed(n) = K /\ Cache!Linear(n)
<1> DEFINE w == Cache!Without(o, gone)
           n == Cache!Appended(w, t)
           K == (D \ gone) \union {t}
<1>1. \A s, u : <<s, u>> \in w <=> <<s, u>> \in o /\ s \notin gone /\ u \notin gone
  BY DEF Cache!Without
<1>2. \A p \in w : p = <<p[1], p[2]>> /\ p \in o /\ p[1] \in D \ gone /\ p[2] \in D \ gone
  BY DEF Cache!Without
<1>3. \A s, u \in D : /\ <<s, u>> \in o \/ <<u, s>> \in o
                      /\ <<s, u>> \in o /\ <<u, s>> \in o => s = u
                      /\ \A v \in D : <<s, u>> \in o /\ <<u, v>> \in o => <<s, v>> \in o
  BY DEF Cache!Linear
<1>4. Cache!Listed(w) = D \ gone
  <2>1. \A s \in D \ gone : <<s, s>> \in w  BY <1>1, <1>3
  <2>2. \A s \in D \ gone : s \in Cache!Listed(w)
    <3> SUFFICES ASSUME NEW s \in D \ gone PROVE s \in Cache!Listed(w)  OBVIOUS
    <3>1. <<s, s>> \in w /\ <<s, s>>[1] = s  BY <2>1
    <3> HIDE DEF w
    <3> QED  BY <3>1 DEF Cache!Listed
  <2>3. \A s \in Cache!Listed(w) : s \in D \ gone  BY <1>2 DEF Cache!Listed
  <2> QED  BY <2>2, <2>3
<1> HIDE DEF w
<1>5. n = w \union (K \X {t})  BY <1>4 DEF Cache!Appended
<1>6. n \subseteq K \X K  BY <1>2, <1>5
<1>7. \A s, u : <<s, u>> \in n <=> <<s, u>> \in w \/ (s \in K /\ u = t)  BY <1>5
<1> HIDE DEF n
<1>8. Cache!Listed(n) = K
  <2>1. \A s \in K : <<s, t>> \in n  BY <1>7
  <2>2. \A s \in K : s \in Cache!Listed(n)
    <3> SUFFICES ASSUME NEW s \in K PROVE s \in Cache!Listed(n)  OBVIOUS
    <3>1. <<s, t>> \in n /\ <<s, t>>[1] = s  BY <2>1
    <3> QED  BY <3>1 DEF Cache!Listed
  <2>3. \A s \in Cache!Listed(n) : s \in K  BY <1>6 DEF Cache!Listed
  <2> QED  BY <2>2, <2>3
<1>9. Cache!Linear(n)
  <2>1. \A s, u : <<s, u>> \in w => s \in D \ gone /\ u \in D \ gone /\ s # t /\ u # t
    <3> SUFFICES ASSUME NEW s, NEW u, <<s, u>> \in w
                 PROVE  s \in D \ gone /\ u \in D \ gone
      OBVIOUS
    <3>1. <<s, u>>[1] = s /\ <<s, u>>[2] = u  OBVIOUS
    <3> QED  BY <1>2, <3>1
  <2> HIDE DEF K
  <2>k. \A s \in K : s = t \/ s \in D \ gone  BY DEF K
  <2>2. \A s, u \in K : <<s, u>> \in n \/ <<u, s>> \in n
    BY <1>1, <1>3, <1>7, <2>k
  <2>3. ASSUME NEW s \in K, NEW u \in K, <<s, u>> \in n, <<u, s>> \in n PROVE s = u
    <3>1. CASE u = t  BY <1>7, <2>1, <2>3, <3>1
    <3>2. CASE u # t
      <4>1. <<s, u>> \in w  BY <1>7, <2>3, <3>2
      <4>2. <<u, s>> \in w  BY <1>7, <2>1, <2>3, <4>1
      <4> QED  BY <1>1, <1>3, <2>1, <4>1, <4>2
    <3> QED  BY <3>1, <3>2
  <2>4. ASSUME NEW s \in K, NEW u \in K, NEW v \in K, <<s, u>> \in n, <<u, v>> \in n
        PROVE  <<s, v>> \in n
    <3>1. CASE v = t  BY <1>7, <3>1
    <3>2. CASE v # t
      <4>1. <<u, v>> \in w  BY <1>7, <2>4, <3>2
      <4>2. <<s, u>> \in w  BY <1>7, <2>1, <2>4, <4>1
      <4>3. <<s, v>> \in w  BY <1>1, <1>3, <2>1, <4>1, <4>2
      <4> QED  BY <1>7, <4>3
    <3> QED  BY <3>1, <3>2
  <2> QED  BY <1>8, <2>2, <2>3, <2>4 DEF Cache!Linear
<1> QED  BY <1>6, <1>8, <1>9 DEF n, w

(* The bytes and the count of PcmCache are those of this module.           *)
LEMMA CacheCounts == \A S : Cache!Cardinality(S) = Cardinality(S)
BY DEF Cache!Cardinality, Cardinality

LEMMA CacheBytes ==
  /\ \A ts : Cache!BytesOf(ts) = Bytes(pc_entries, ts)
  /\ \A ts : Cache!BytesOf(ts)' = Bytes(pc_entries', ts)
BY DEF Cache!BytesOf, Bytes

(* The list o, the map es and the count agree: Cache!Accounted is this.    *)
Agreed(es, o, total) ==
  /\ Cache!Linear(o) /\ Cache!Listed(o) = DOMAIN es
  /\ total = Cardinality(Bytes(es, DOMAIN es))
  /\ total <= MaxBytes /\ Cardinality(DOMAIN es) <= MaxEntries

LEMMA AccountedAs ==
  /\ Cache!Accounted <=> Agreed(pc_entries, pc_order, pc_totalBytes)
  /\ Cache!Accounted' <=> Agreed(pc_entries', pc_order', pc_totalBytes')
<1>1. Cache!Accounted <=> Agreed(pc_entries, pc_order, pc_totalBytes)
  BY CacheCounts, CacheBytes DEF Cache!Accounted, Agreed
<1>2. /\ Cache!Linear(pc_order)' <=> Cache!Linear(pc_order')
      /\ Cache!Listed(pc_order)' = Cache!Listed(pc_order')
  BY DEF Cache!Linear, Cache!Listed
<1>3. Cardinality(Bytes(pc_entries, DOMAIN pc_entries))' = Cardinality(Bytes(pc_entries', DOMAIN pc_entries'))
  BY DEF Bytes
<1>4. Cache!Accounted' <=> Agreed(pc_entries, pc_order, pc_totalBytes)'
  BY <1>1, PTL
<1>5. Agreed(pc_entries, pc_order, pc_totalBytes)' <=> Agreed(pc_entries', pc_order', pc_totalBytes')
  BY <1>2, <1>3 DEF Agreed
<1> QED  BY <1>1, <1>4, <1>5

(* The bytes of a cache whose map is unchanged on what it keeps.           *)
LEMMA StoredBytes ==
  ASSUME Cache!PcmCacheAssumption, CacheKept, NEW t, NEW size \in 1 .. MaxEntry,
         NEW evicted \in SUBSET (DOMAIN pc_entries \ {t}), NEW fs,
         fs[t].size = size, \A u \in (DOMAIN pc_entries \ evicted) \ {t} : fs[u] = pc_entries[u]
  PROVE  /\ Cardinality(Bytes(fs, Cache!Kept(t, evicted))) = Cache!BytesAfter(t, size, evicted)
         /\ IsFiniteSet(Cache!Kept(t, evicted))
<1> DEFINE D == DOMAIN pc_entries
           rest == (D \ evicted) \ {t}
           old == D \intersect {t}
           nrest == Cardinality(Bytes(pc_entries, rest))
           nevicted == Cardinality(Bytes(pc_entries, evicted))
           nold == Cardinality(Bytes(pc_entries, old))
<1>1. MaxEntry \in Nat  BY DEF Cache!PcmCacheAssumption
<1>2. IsFiniteSet(D) /\ IsFiniteSet(rest) /\ IsFiniteSet(evicted) /\ IsFiniteSet(old) /\ IsFiniteSet({t})
  <2>1. IsFiniteSet(D)  BY DEF CacheKept
  <2>2. rest \in SUBSET D /\ evicted \in SUBSET D /\ old \in SUBSET D  OBVIOUS
  <2> HIDE DEF D, rest, old
  <2> QED  BY <2>1, <2>2, FS_Subset, FS_Singleton
<1>3. pc_totalBytes = Cardinality(Bytes(pc_entries, D))
  BY AccountedAs DEF CacheKept, Agreed
<1>4. nold = Cache!SizeOf(t) /\ nold \in Nat
  <2>1. CASE t \in D
    <3>1. old = {t}  BY <2>1
    <3>2. pc_entries[t].size \in 1 .. MaxEntry  BY <2>1 DEF CacheKept
    <3>3. Cardinality(Bytes(pc_entries, {t})) = pc_entries[t].size  BY <1>1, <3>2, BytesOfOne
    <3>4. Cache!SizeOf(t) = pc_entries[t].size  BY <2>1 DEF Cache!SizeOf, Cache!Present
    <3>5. nold = pc_entries[t].size  BY <3>1, <3>3
    <3> HIDE DEF nold
    <3> QED  BY <1>1, <3>2, <3>4, <3>5
  <2>2. CASE t \notin D
    <3>1. Bytes(pc_entries, old) = {}  BY <2>2 DEF Bytes
    <3>2. nold = 0  BY <3>1, FS_EmptySet
    <3> HIDE DEF nold
    <3> QED  BY <2>2, <3>2 DEF Cache!SizeOf, Cache!Present
  <2> QED  BY <2>1, <2>2
<1>5. nrest \in Nat /\ nevicted \in Nat
  <2>1. IsFiniteSet(Bytes(pc_entries, rest)) /\ IsFiniteSet(Bytes(pc_entries, evicted))
    BY <1>1, <1>2, BytesFinite
  <2> QED  BY <2>1, FS_CardinalityType
<1>6. pc_totalBytes = (nrest + nevicted) + nold
  <2>1. D = (rest \union evicted) \union old /\ rest \intersect evicted = {}
        /\ (rest \union evicted) \intersect old = {}
    OBVIOUS
  <2>2. IsFiniteSet(rest \union evicted)  BY <1>2, FS_Union
  <2>3. Cardinality(Bytes(pc_entries, rest \union evicted)) = nrest + nevicted
    <3> HIDE DEF rest, D
    <3> QED  BY <1>1, <1>2, <2>1, BytesApart
  <2>4. Cardinality(Bytes(pc_entries, (rest \union evicted) \union old))
          = Cardinality(Bytes(pc_entries, rest \union evicted)) + nold
    <3> HIDE DEF rest, old, D
    <3> QED  BY <1>1, <1>2, <2>1, <2>2, BytesApart
  <2> HIDE DEF rest, old, D, nrest, nevicted, nold
  <2> QED  BY <1>3, <2>1, <2>3, <2>4
<1>7. Cardinality(Bytes(fs, rest \union {t})) = nrest + size
  <2>1. Bytes(fs, rest) = Bytes(pc_entries, rest)  BY BytesAgree
  <2>2. Cardinality(Bytes(fs, {t})) = size  BY <1>1, BytesOfOne
  <2>3. Cardinality(Bytes(fs, rest \union {t})) =
          Cardinality(Bytes(fs, rest)) + Cardinality(Bytes(fs, {t}))
    <3>1. rest \intersect {t} = {}  OBVIOUS
    <3> HIDE DEF rest
    <3> QED  BY <1>1, <1>2, <3>1, BytesApart
  <2> QED  BY <2>1, <2>2, <2>3
<1>8. Cache!Kept(t, evicted) = rest \union {t}  BY DEF Cache!Kept
<1>9. Cache!BytesAfter(t, size, evicted) = pc_totalBytes - nold + size - nevicted
  <2> HIDE DEF nold
  <2> QED  BY <1>4, CacheCounts, CacheBytes DEF Cache!BytesAfter
<1>10. IsFiniteSet(rest \union {t})  BY <1>2, FS_Union
<1>11. pc_totalBytes - nold + size - nevicted = nrest + size
  <2> HIDE DEF nrest, nevicted, nold
  <2> QED  BY <1>4, <1>5, <1>6
<1> QED  BY <1>7, <1>8, <1>9, <1>10, <1>11

(* A put keeps the list, the map and the count in agreement, and evicts no *)
(* protected text; one that finds no room changes nothing.                 *)
LEMMA PutKeeps ==
  ASSUME Cache!PcmCacheAssumption, CacheKept, NEW t \in Cache!Phrases,
         NEW e \in [size : 1 .. Longest, whole : {TRUE}], Cache!Put(t, e)
  PROVE  /\ CacheKept'
         /\ \/ UNCHANGED pc_entries
            \/ /\ DOMAIN pc_entries \intersect pc_protected \subseteq DOMAIN pc_entries'
               /\ t \in DOMAIN pc_entries' /\ pc_entries'[t] = e
<1>1. CASE UNCHANGED <<pc_entries, pc_order, pc_totalBytes>>
  <2>1. pc_entries' = pc_entries /\ pc_order' = pc_order /\ pc_totalBytes' = pc_totalBytes
    BY <1>1
  <2>2. Cache!Accounted'  BY <2>1, AccountedAs DEF CacheKept
  <2> QED  BY <2>1, <2>2 DEF CacheKept
<1>2. CASE /\ e.size <= MaxBytes /\ e.size <= MaxEntry
           /\ \E evicted \in Cache!Plans(t, e.size) : Cache!Store(t, e, evicted)
  <2>1. PICK evicted \in Cache!Plans(t, e.size) : Cache!Store(t, e, evicted)  BY <1>2
  <2>2. /\ evicted \in SUBSET Cache!Evictable(t) /\ Cache!Fits(t, e.size, evicted)
    BY DEF Cache!Plans
  <2>3. Cache!Listed(pc_order) = DOMAIN pc_entries /\ Cache!Linear(pc_order)
    BY DEF CacheKept, Cache!Accounted
  <2>4. /\ evicted \in SUBSET (DOMAIN pc_entries \ {t}) /\ evicted \intersect pc_protected = {}
    BY <2>2, <2>3 DEF Cache!Evictable
  <2> DEFINE K == Cache!Kept(t, evicted)
             D == DOMAIN pc_entries
             gone == evicted \union {t}
  <2>5. /\ pc_entries' = [u \in K |-> IF u = t THEN e ELSE pc_entries[u]]
        /\ pc_order' = Cache!Appended(Cache!Without(pc_order, gone), t)
        /\ pc_totalBytes' = Cache!BytesAfter(t, e.size, evicted)
    BY <2>1 DEF Cache!Store
  <2>6. K = (D \ evicted) \union {t} /\ K = (D \ gone) \union {t}  BY DEF Cache!Kept
  <2>7. DOMAIN pc_entries' = K /\ pc_entries'[t] = e /\ t \in K
        /\ \A u \in K \ {t} : u \in D /\ pc_entries'[u] = pc_entries[u]
    BY <2>5, <2>6
  <2>8. e.size \in 1 .. MaxEntry
    <3>1. e.size \in 1 .. Longest /\ MaxEntry \in Nat /\ Longest \in Nat
      BY DEF Cache!PcmCacheAssumption
    <3> QED  BY <1>2, <3>1
  <2>9. Cardinality(Bytes(pc_entries', K)) = pc_totalBytes' /\ IsFiniteSet(K)
    <3>1. pc_entries'[t].size = e.size
          /\ \A u \in (DOMAIN pc_entries \ evicted) \ {t} : pc_entries'[u] = pc_entries[u]
      BY <2>6, <2>7
    <3>2. /\ Cardinality(Bytes(pc_entries', Cache!Kept(t, evicted))) = Cache!BytesAfter(t, e.size, evicted)
          /\ IsFiniteSet(Cache!Kept(t, evicted))
      BY <2>4, <2>8, <3>1, StoredBytes
    <3> QED  BY <2>5, <3>2
  <2>10. /\ pc_order' \subseteq K \X K /\ Cache!Listed(pc_order') = K /\ Cache!Linear(pc_order')
    <3>1. pc_order \subseteq D \X D  BY DEF CacheKept
    <3>2. t \in gone  OBVIOUS
    <3> HIDE DEF K, D, gone
    <3>3. Cache!Listed(pc_order) = D  BY <2>3 DEF D
    <3>4. LET n == Cache!Appended(Cache!Without(pc_order, gone), t)
              k == (D \ gone) \union {t}
          IN  n \subseteq k \X k /\ Cache!Listed(n) = k /\ Cache!Linear(n)
      BY <2>3, <3>1, <3>2, <3>3, AppendedList
    <3> QED  BY <2>5, <2>6, <3>4
  <2>11. pc_totalBytes' <= MaxBytes /\ Cardinality(K) <= MaxEntries
    BY <2>2, <2>5, CacheCounts DEF Cache!Fits
  <2>12. K \subseteq Cache!Phrases  BY <2>6 DEF CacheKept
  <2>13. pc_entries' \in [K -> [size : 1 .. MaxEntry, whole : {TRUE}]]
    <3>1. e \in [size : 1 .. MaxEntry, whole : {TRUE}]  BY <2>8
    <3>2. \A u \in D : pc_entries[u] \in [size : 1 .. MaxEntry, whole : {TRUE}]  BY DEF CacheKept
    <3> QED  BY <2>5, <2>6, <3>1, <3>2
  <2>14. D \intersect pc_protected \subseteq K  BY <2>4, <2>6
  <2> HIDE DEF K
  <2>15. CacheKept'
    <3>1. Agreed(pc_entries', pc_order', pc_totalBytes')
      BY <2>7, <2>9, <2>10, <2>11 DEF Agreed
    <3>2. Cache!Accounted'  BY <3>1, AccountedAs
    <3> QED  BY <2>7, <2>9, <2>10, <2>12, <2>13, <3>2 DEF CacheKept
  <2> QED  BY <2>7, <2>14, <2>15
<1> QED  BY <1>1, <1>2 DEF Cache!Put, Cache!PcmCacheAssumption

(* A delivery of what is kept moves its text to the end of the list.       *)
LEMMA TouchKeeps ==
  ASSUME CacheKept, NEW t \in DOMAIN pc_entries, pc_order' = Cache!Touched(t),
         UNCHANGED <<pc_entries, pc_totalBytes>>
  PROVE  CacheKept'
<1> DEFINE D == DOMAIN pc_entries
           gone == {t}
<1>1. Agreed(pc_entries, pc_order, pc_totalBytes) /\ pc_order \subseteq D \X D
  BY AccountedAs DEF CacheKept
<1>2. pc_order' = Cache!Appended(Cache!Without(pc_order, gone), t)  BY DEF Cache!Touched
<1>3. (D \ gone) \union {t} = D /\ t \in gone  OBVIOUS
<1>4. pc_order' \subseteq D \X D /\ Cache!Listed(pc_order') = D /\ Cache!Linear(pc_order')
  <2> HIDE DEF D, gone
  <2>1. Cache!Listed(pc_order) = D /\ Cache!Linear(pc_order)  BY <1>1 DEF Agreed, D
  <2>2. LET n == Cache!Appended(Cache!Without(pc_order, gone), t)
            k == (D \ gone) \union {t}
        IN  n \subseteq k \X k /\ Cache!Listed(n) = k /\ Cache!Linear(n)
    BY <1>1, <1>3, <2>1, AppendedList
  <2> QED  BY <1>2, <1>3, <2>2
<1>5. pc_entries' = pc_entries /\ pc_totalBytes' = pc_totalBytes  OBVIOUS
<1>6. Agreed(pc_entries', pc_order', pc_totalBytes')  BY <1>1, <1>4, <1>5 DEF Agreed
<1>7. Cache!Accounted'  BY <1>6, AccountedAs
<1> QED  BY <1>4, <1>5, <1>7 DEF CacheKept

(* A cache that is left alone is kept.                                     *)
LEMMA CacheLeftAlone ==
  ASSUME CacheKept, UNCHANGED <<pc_entries, pc_order, pc_totalBytes>> PROVE CacheKept'
<1>1. pc_entries' = pc_entries /\ pc_order' = pc_order /\ pc_totalBytes' = pc_totalBytes  OBVIOUS
<1>2. Cache!Accounted'  BY <1>1, AccountedAs DEF CacheKept
<1> QED  BY <1>1, <1>2 DEF CacheKept

(* What a call becomes when its step is over.                              *)
Becomes(c, x) ==
  /\ x \in CacheCalls /\ pc_call' = [pc_call EXCEPT ![c] = x]
  /\ x.pc # "idle" => x.text = pc_call[c].text
  /\ x.pc = "put" => x.whole /\ x.size \in 1 .. Longest

(* A warming worker may have heard its cue to the end.                     *)
MayWarm(c) == pc_warmed' = pc_warmed \/ (pc_phase = "warming" /\ pc_warmed' = pc_warmed \union {pc_call[c].text})

LEMMA CallEnds ==
  ASSUME Cache!PcmCacheAssumption, NEW c \in Callers, Cache!Fails(c) \/ Cache!Succeeds(c)
  PROVE  Becomes(c, Cache!NoCall) /\ Cache!NoCall.pc = "idle" /\ MayWarm(c)
<1>1. Cache!NoCall \in CacheCalls /\ Cache!NoCall.pc = "idle"
  BY DEF Cache!NoCall, CacheCalls, Cache!PcmCacheAssumption
<1> QED  BY <1>1 DEF Becomes, MayWarm, Cache!Fails, Cache!Succeeds

LEMMA CallGoes ==
  ASSUME CacheTyped, CacheServed, NEW c \in Callers,
         NEW pc \in {"owner", "open", "direct", "stream"}, Cache!GoesTo(c, pc)
  PROVE  LET x == [pc_call[c] EXCEPT !.pc = pc] IN Becomes(c, x) /\ x.pc = pc /\ MayWarm(c)
<1>1. pc_call[c] \in CacheCalls  BY DEF CacheTyped
<1> QED  BY <1>1 DEF Becomes, MayWarm, Cache!GoesTo, CacheCalls

LEMMA CallIsRendered ==
  ASSUME CacheTyped, CacheServed, NEW c \in Callers, NEW n \in 1 .. Longest,
         Cache!Rendered(c, n, TRUE), Longest \in Nat
  PROVE  LET x == [pc_call[c] EXCEPT !.pc = "put", !.size = n, !.whole = TRUE]
         IN  Becomes(c, x) /\ x.pc = "put" /\ MayWarm(c)
<1>1. pc_call[c] \in CacheCalls  BY DEF CacheTyped
<1>2. n \in 0 .. Longest  OBVIOUS
<1> QED  BY <1>1, <1>2 DEF Becomes, MayWarm, Cache!Rendered, CacheCalls

(* A call under way that moves is served as before.                        *)
LEMMA CallMoves ==
  ASSUME CacheTyped, CacheServed, NEW c \in Callers, NEW x, Becomes(c, x), MayWarm(c),
         pc_call[c].pc # "idle",
         UNCHANGED <<pc_phase, pc_protected, pc_asked>>,
         pc_circuit' \in [probing : BOOLEAN, disabled : BOOLEAN],
         DOMAIN pc_entries \intersect pc_protected \subseteq DOMAIN pc_entries'
  PROVE  CacheTyped' /\ CacheServed'
<1>1. pc_call' \in [Callers -> CacheCalls] /\ pc_call'[c] = x
      /\ \A d \in Callers \ {c} : pc_call'[d] = pc_call[d]
  BY DEF CacheTyped, Becomes
<1>2. pc_call[c].text \in Cache!Phrases /\ pc_phase \in {"warming", "ready"}
      /\ (pc_phase = "warming" => pc_call[c].text \in pc_asked)
  BY DEF CacheServed, Served
<1>3. pc_warmed' \subseteq pc_asked  BY <1>2 DEF MayWarm, CacheTyped
<1>4. CacheTyped'  BY <1>1, <1>3 DEF CacheTyped
<1>5. ASSUME NEW d \in Callers PROVE Served(pc_call[d])'
  <2>1. CASE d = c  BY <1>1, <1>2, <2>1 DEF Becomes, Served
  <2>2. CASE d # c  BY <1>1, <2>2 DEF CacheServed, Served
  <2> QED  BY <2>1, <2>2
<1>6. Cache!CuesResident'
  <2>1. pc_phase = "ready" => \A t \in Cues : t \in pc_protected /\ t \in DOMAIN pc_entries
    BY DEF CacheServed, Cache!CuesResident, Cache!RetainsProtected, Cache!Present
  <2> QED  BY <2>1 DEF Cache!CuesResident, Cache!RetainsProtected, Cache!Present
<1> QED  BY <1>4, <1>5, <1>6 DEF CacheServed

(* The circuit and the call on the direct route: neither moves, the probe  *)
(* ends, and it begins.                                                    *)
LEMMA ProbeStays ==
  ASSUME CacheTyped, CacheProbes, NEW c \in Callers, NEW x, pc_call' = [pc_call EXCEPT ![c] = x],
         pc_call[c].pc # "direct", x.pc # "direct", UNCHANGED pc_circuit
  PROVE  CacheProbes'
<1>1. \A d \in Callers : pc_call'[d].pc = "direct" <=> pc_call[d].pc = "direct"
  BY DEF CacheTyped
<1> QED  BY <1>1 DEF CacheProbes

LEMMA ProbeIsOver ==
  ASSUME CacheTyped, CacheProbes, NEW c \in Callers, NEW x, pc_call' = [pc_call EXCEPT ![c] = x],
         pc_call[c].pc = "direct", x.pc # "direct", pc_circuit'.probing = FALSE
  PROVE  CacheProbes'
<1>1. \A d \in Callers : pc_call'[d].pc # "direct"
  BY DEF CacheTyped, CacheProbes
<1> QED  BY <1>1 DEF CacheProbes

LEMMA ProbeBegins ==
  ASSUME CacheTyped, CacheProbes, NEW c \in Callers, NEW x, pc_call' = [pc_call EXCEPT ![c] = x],
         Cache!ProbeFree, x.pc = "direct", pc_circuit' = [pc_circuit EXCEPT !.probing = TRUE]
  PROVE  CacheProbes'
<1>1. \A d \in Callers : pc_call'[d].pc = "direct" <=> d = c
  BY DEF CacheTyped, CacheProbes, Cache!ProbeFree
<1>2. pc_circuit'.probing = TRUE /\ pc_circuit'.disabled = FALSE
  BY DEF CacheTyped, Cache!ProbeFree
<1> QED  BY <1>1, <1>2 DEF CacheProbes

(* Before the instance is warmed the cache is empty and nobody calls.      *)
LEMMA CacheStarts == Cache!PcmCacheAssumption /\ Cache!Init => CacheInv
<1> SUFFICES ASSUME Cache!PcmCacheAssumption, Cache!Init PROVE CacheInv  OBVIOUS
<1> USE DEF Cache!Init, Cache!PcmCacheAssumption
<1>1. DOMAIN pc_entries = {} /\ pc_order = {} /\ pc_totalBytes = 0  OBVIOUS
<1>2. Cache!NoCall \in CacheCalls /\ Cache!NoCall.pc = "idle"
  BY DEF Cache!NoCall, CacheCalls
<1>3. CacheTyped  BY <1>2 DEF CacheTyped
<1>4. CacheKept
  <2>1. Bytes(pc_entries, DOMAIN pc_entries) = {}  BY <1>1 DEF Bytes
  <2>2. IsFiniteSet({}) /\ Cardinality({}) = 0  BY FS_EmptySet
  <2>3. Cache!Listed(pc_order) = {} /\ Cache!Linear(pc_order)  BY <1>1 DEF Cache!Listed, Cache!Linear
  <2>4. Agreed(pc_entries, pc_order, pc_totalBytes)
    <3>1. Cardinality(Bytes(pc_entries, DOMAIN pc_entries)) = 0 /\ Cardinality(DOMAIN pc_entries) = 0
      BY <1>1, <2>1, <2>2
    <3>2. 0 <= MaxBytes /\ 0 <= MaxEntries  OBVIOUS
    <3> QED  BY ONLY <1>1, <2>3, <3>1, <3>2 DEF Agreed
  <2>5. pc_entries \in [DOMAIN pc_entries -> [size : 1 .. MaxEntry, whole : {TRUE}]]
    <3>1. pc_entries = [i \in {} |-> 0]  OBVIOUS
    <3> QED  BY <3>1
  <2> QED  BY <1>1, <2>2, <2>4, <2>5, AccountedAs DEF CacheKept
<1>5. CacheServed  BY <1>2 DEF CacheServed, Served, Cache!CuesResident
<1>6. CacheProbes  BY <1>2 DEF CacheProbes
<1> QED  BY <1>3, <1>4, <1>5, <1>6 DEF CacheInv

(* The warming and the calls that begin.                                   *)
LEMMA WarmStep ==
  ASSUME Cache!PcmCacheAssumption, CacheInv, Cache!Warm \/ Cache!WarmEnds PROVE CacheInv'
<1>1. CacheKept'
  BY CacheLeftAlone DEF CacheInv, Cache!Warm, Cache!WarmEnds, Cache!cache
<1>2. pc_call' = pc_call /\ pc_circuit' = pc_circuit /\ pc_entries' = pc_entries
  BY DEF Cache!Warm, Cache!WarmEnds, Cache!cache
<1>3. CacheProbes'  BY <1>2 DEF CacheInv, CacheProbes
<1>4. CASE Cache!Warm
  <2>1. \A c \in Callers : pc_call[c].pc = "idle" /\ pc_protected = {}
    BY <1>4 DEF CacheInv, CacheServed, Served, Cache!Warm
  <2>2. CacheTyped'  BY <1>2, <1>4 DEF CacheInv, CacheTyped, CacheServed, Cache!Warm
  <2>3. \A c \in Callers : Served(pc_call[c])'  BY <1>2, <2>1 DEF Served
  <2>4. CacheServed'
    BY <1>4, <2>3 DEF CacheInv, CacheServed, Cache!Warm, Cache!CuesResident
  <2> QED  BY <1>1, <1>3, <2>2, <2>4 DEF CacheInv
<1>5. CASE Cache!WarmEnds
  <2>1. \A c \in Callers : pc_call[c].pc = "idle"  BY <1>5 DEF Cache!WarmEnds
  <2>2. CacheTyped'
    BY <1>2, <1>5 DEF CacheInv, CacheTyped, Cache!WarmEnds, Cache!cache
  <2>3. \A c \in Callers : Served(pc_call[c])'  BY <1>2, <2>1 DEF Served
  <2>4. Cache!CuesResident'
    BY <1>5 DEF Cache!WarmEnds, Cache!CuesResident, Cache!RetainsProtected, Cache!Present, Cache!cache
  <2>5. CacheServed'
    BY <1>5, <2>3, <2>4 DEF CacheInv, CacheServed, Cache!WarmEnds, Cache!cache
  <2> QED  BY <1>1, <1>3, <2>2, <2>5 DEF CacheInv
<1> QED  BY <1>4, <1>5

(* A worker asks for a cue, a reply for its speech.                        *)
LEMMA CalledStep ==
  ASSUME Cache!PcmCacheAssumption, CacheInv, NEW c \in Callers, Cache!Ask(c) \/ Cache!Speak(c)
  PROVE  CacheInv'
<1>1. PICK t \in Cache!Phrases, p \in BOOLEAN :
        /\ pc_call' = [pc_call EXCEPT ![c] = [Cache!NoCall EXCEPT !.pc = "lookup", !.text = t, !.prepared = p]]
        /\ pc_asked \subseteq pc_asked' /\ pc_asked' \subseteq Cues
        /\ pc_phase \in {"warming", "ready"} /\ (pc_phase = "warming" => t \in pc_asked')
  BY DEF CacheInv, CacheTyped, Cache!Ask, Cache!Speak, Cache!Called, Cache!Phrases, Cache!warming
<1>2. UNCHANGED <<pc_phase, pc_warmed, pc_circuit, pc_protected, pc_entries, pc_order, pc_totalBytes>>
  BY DEF Cache!Ask, Cache!Speak, Cache!cache, Cache!warming
<1> DEFINE x == [Cache!NoCall EXCEPT !.pc = "lookup", !.text = t, !.prepared = p]
<1>3. x \in CacheCalls /\ x.pc = "lookup" /\ x.text = t
  <2>1. Cache!NoCall \in CacheCalls  BY DEF CacheCalls, Cache!NoCall, Cache!PcmCacheAssumption
  <2> QED  BY <2>1 DEF CacheCalls
<1>4. pc_call[c].pc = "idle"  BY DEF Cache!Ask, Cache!Speak
<1> HIDE DEF x
<1>5. pc_call' = [pc_call EXCEPT ![c] = x]  BY <1>1 DEF x
<1>6. CacheKept'  BY <1>2, CacheLeftAlone DEF CacheInv
<1>7. CacheProbes'  BY <1>2, <1>3, <1>4, <1>5, ProbeStays DEF CacheInv
<1>8. CacheTyped'  BY <1>1, <1>2, <1>3, <1>5 DEF CacheInv, CacheTyped
<1>9. ASSUME NEW d \in Callers PROVE Served(pc_call[d])'
  <2>1. CASE d = c
    <3>1. pc_call'[d] = x  BY <1>5, <2>1 DEF CacheInv, CacheTyped
    <3> QED  BY <1>1, <1>2, <1>3, <3>1 DEF Served
  <2>2. CASE d # c
    <3>1. pc_call'[d] = pc_call[d]  BY <1>5, <2>2 DEF CacheInv, CacheTyped
    <3> QED  BY <1>1, <1>2, <3>1 DEF CacheInv, CacheServed, Served
  <2> QED  BY <2>1, <2>2
<1>10. CacheServed'
  <2>1. Cache!CuesResident'
    BY <1>2 DEF CacheInv, CacheServed, Cache!CuesResident, Cache!RetainsProtected, Cache!Present
  <2> QED  BY <1>2, <1>9, <2>1 DEF CacheInv, CacheServed
<1> QED  BY <1>6, <1>7, <1>8, <1>10 DEF CacheInv

(* A call under way whose step leaves the cache and the circuit alone, or  *)
(* plays what is kept.                                                     *)
LEMMA QuietCall ==
  ASSUME CacheInv, NEW c \in Callers, NEW x, Becomes(c, x), MayWarm(c), CacheKept',
         pc_call[c].pc \notin {"idle", "direct"}, x.pc # "direct",
         UNCHANGED <<pc_phase, pc_protected, pc_asked, pc_circuit>>,
         DOMAIN pc_entries \intersect pc_protected \subseteq DOMAIN pc_entries'
  PROVE  CacheInv'
<1>1. CacheTyped /\ CacheServed /\ CacheProbes  BY DEF CacheInv
<1>2. pc_circuit' \in [probing : BOOLEAN, disabled : BOOLEAN]  BY <1>1 DEF CacheTyped
<1>3. CacheTyped' /\ CacheServed'  BY <1>1, <1>2, CallMoves
<1>4. CacheProbes'  BY <1>1, ProbeStays DEF Becomes
<1> QED  BY <1>3, <1>4 DEF CacheInv

LEMMA HitStep ==
  ASSUME Cache!PcmCacheAssumption, CacheInv, NEW c \in Callers, pc_call[c].pc \in {"lookup", "owner"},
         Cache!Present(pc_call[c].text), Cache!Hit(c), UNCHANGED <<pc_phase, pc_asked, pc_circuit>>
  PROVE  CacheInv'
<1>1. UNCHANGED <<pc_protected, pc_entries, pc_totalBytes>> /\ pc_order' = Cache!Touched(pc_call[c].text)
  BY DEF Cache!Hit
<1>2. CacheKept'  BY <1>1, TouchKeeps DEF CacheInv, Cache!Present
<1>3. Becomes(c, Cache!NoCall) /\ Cache!NoCall.pc = "idle" /\ MayWarm(c)
  BY CallEnds DEF Cache!Hit
<1> QED  BY <1>1, <1>2, <1>3, QuietCall

LEMMA MissStep ==
  ASSUME CacheInv, NEW c \in Callers, NEW pc \in {"owner", "open", "stream"}, Cache!GoesTo(c, pc),
         pc_call[c].pc \in {"lookup", "owner"},
         UNCHANGED <<pc_phase, pc_asked, pc_circuit, Cache!cache>>
  PROVE  CacheInv'
<1>1. UNCHANGED <<pc_protected, pc_entries, pc_order, pc_totalBytes>>  BY DEF Cache!cache
<1>2. CacheKept'  BY <1>1, CacheLeftAlone DEF CacheInv
<1>3. CacheTyped /\ CacheServed  BY DEF CacheInv
<1>4. PICK x : Becomes(c, x) /\ x.pc = pc /\ MayWarm(c)  BY <1>3, CallGoes
<1> QED  BY <1>1, <1>2, <1>4, QuietCall

LEMMA LookUpStep ==
  ASSUME Cache!PcmCacheAssumption, CacheInv, NEW c \in Callers, Cache!LookUp(c) \/ Cache!OwnerLooksUp(c)
  PROVE  CacheInv'
<1>1. pc_call[c].pc \in {"lookup", "owner"} /\ UNCHANGED <<pc_phase, pc_asked, pc_circuit>>
  BY DEF Cache!LookUp, Cache!OwnerLooksUp
<1>2. CASE Cache!Present(pc_call[c].text) /\ Cache!Hit(c)  BY <1>1, <1>2, HitStep
<1>3. CASE UNCHANGED Cache!cache /\ \E pc \in {"owner", "open", "stream"} : Cache!GoesTo(c, pc)
  BY <1>1, <1>3, MissStep
<1> QED  BY <1>2, <1>3 DEF Cache!LookUp, Cache!OwnerLooksUp

(* The direct route: it is taken, and what it comes to.                    *)
LEMMA OpenStep ==
  ASSUME Cache!PcmCacheAssumption, CacheInv, NEW c \in Callers, Cache!Open(c) PROVE CacheInv'
<1>1. pc_call[c].pc = "open" /\ UNCHANGED <<pc_phase, pc_asked>>
      /\ UNCHANGED <<pc_protected, pc_entries, pc_order, pc_totalBytes>>
  BY DEF Cache!Open, Cache!cache
<1>2. CacheKept'  BY <1>1, CacheLeftAlone DEF CacheInv
<1>3. CacheTyped /\ CacheServed /\ CacheProbes  BY DEF CacheInv
<1>4. CASE /\ Cache!ProbeFree /\ pc_circuit' = [pc_circuit EXCEPT !.probing = TRUE]
           /\ Cache!GoesTo(c, "direct")
  <2>1. PICK x : Becomes(c, x) /\ x.pc = "direct" /\ MayWarm(c)  BY <1>3, <1>4, CallGoes
  <2>2. pc_circuit' \in [probing : BOOLEAN, disabled : BOOLEAN]  BY <1>3, <1>4 DEF CacheTyped
  <2>3. CacheTyped' /\ CacheServed'  BY <1>1, <1>3, <2>1, <2>2, CallMoves
  <2>4. CacheProbes'  BY <1>3, <1>4, <2>1, ProbeBegins DEF Becomes
  <2> QED  BY <1>2, <2>3, <2>4 DEF CacheInv
<1>5. CASE UNCHANGED pc_circuit /\ Cache!GoesTo(c, "stream")
  <2>1. PICK x : Becomes(c, x) /\ x.pc = "stream" /\ MayWarm(c)  BY <1>3, <1>5, CallGoes
  <2> QED  BY <1>1, <1>2, <1>5, <2>1, QuietCall
<1> QED  BY <1>4, <1>5 DEF Cache!Open

LEMMA DirectStep ==
  ASSUME Cache!PcmCacheAssumption, CacheInv, NEW c \in Callers,
         Cache!DirectCancelled(c) \/ Cache!DirectSucceeds(c) \/ Cache!DirectFails(c)
  PROVE  CacheInv'
<1>1. pc_call[c].pc = "direct" /\ UNCHANGED <<pc_phase, pc_asked>>
      /\ UNCHANGED <<pc_protected, pc_entries, pc_order, pc_totalBytes>>
  BY DEF Cache!DirectCancelled, Cache!DirectSucceeds, Cache!DirectFails, Cache!cache
<1>2. CacheKept'  BY <1>1, CacheLeftAlone DEF CacheInv
<1>3. CacheTyped /\ CacheServed /\ CacheProbes  BY DEF CacheInv
<1>4. pc_circuit' \in [probing : BOOLEAN, disabled : BOOLEAN] /\ pc_circuit'.probing = FALSE
  <2>1. pc_circuit \in [probing : BOOLEAN, disabled : BOOLEAN]  BY <1>3 DEF CacheTyped
  <2>2. CASE pc_circuit' = [pc_circuit EXCEPT !.probing = FALSE]  BY <2>1, <2>2
  <2>3. CASE Cache!ProbeEnds(FALSE)  BY <2>3 DEF Cache!ProbeEnds
  <2>4. CASE Cache!ProbeEnds(TRUE)  BY <2>4 DEF Cache!ProbeEnds
  <2> QED  BY <2>2, <2>3, <2>4 DEF Cache!DirectCancelled, Cache!DirectSucceeds, Cache!DirectFails
<1>5. \E x : Becomes(c, x) /\ x.pc # "direct" /\ MayWarm(c)
  <2>1. CASE Cache!Fails(c) \/ Cache!Succeeds(c)  BY <2>1, CallEnds
  <2>2. CASE Cache!GoesTo(c, "stream")
    <3>1. PICK x : Becomes(c, x) /\ x.pc = "stream" /\ MayWarm(c)  BY <1>3, <2>2, CallGoes
    <3> QED  BY <3>1
  <2>3. CASE \E n \in 1 .. Longest : Cache!Rendered(c, n, TRUE)
    <3>1. PICK n \in 1 .. Longest : Cache!Rendered(c, n, TRUE)  BY <2>3
    <3>2. PICK x : Becomes(c, x) /\ x.pc = "put" /\ MayWarm(c)
      BY <1>3, <3>1, CallIsRendered DEF Cache!PcmCacheAssumption
    <3> QED  BY <3>2
  <2> QED  BY <2>1, <2>2, <2>3 DEF Cache!DirectCancelled, Cache!DirectSucceeds, Cache!DirectFails
<1>6. PICK x : Becomes(c, x) /\ x.pc # "direct" /\ MayWarm(c)  BY <1>5
<1>7. CacheTyped' /\ CacheServed'  BY <1>1, <1>3, <1>4, <1>6, CallMoves
<1>8. CacheProbes'  BY <1>1, <1>3, <1>4, <1>6, ProbeIsOver DEF Becomes
<1> QED  BY <1>2, <1>7, <1>8 DEF CacheInv

(* The stream, of which only a whole rendering is put; and the put.        *)
LEMMA StreamsStep ==
  ASSUME Cache!PcmCacheAssumption, CacheInv, NEW c \in Callers, Cache!Streams(c) PROVE CacheInv'
<1>1. pc_call[c].pc = "stream" /\ UNCHANGED <<pc_phase, pc_asked, pc_circuit>>
      /\ UNCHANGED <<pc_protected, pc_entries, pc_order, pc_totalBytes>>
  BY DEF Cache!Streams, Cache!cache
<1>2. CacheKept'  BY <1>1, CacheLeftAlone DEF CacheInv
<1>3. CacheTyped /\ CacheServed  BY DEF CacheInv
<1>4. CASE Cache!Fails(c) \/ Cache!Succeeds(c)
  <2>1. Becomes(c, Cache!NoCall) /\ Cache!NoCall.pc = "idle" /\ MayWarm(c)  BY <1>4, CallEnds
  <2> QED  BY <1>1, <1>2, <2>1, QuietCall
<1>5. CASE \E n \in 1 .. Longest : Cache!Rendered(c, n, TRUE)
  <2>1. PICK n \in 1 .. Longest : Cache!Rendered(c, n, TRUE)  BY <1>5
  <2>2. PICK x : Becomes(c, x) /\ x.pc = "put" /\ MayWarm(c)
    BY <1>3, <2>1, CallIsRendered DEF Cache!PcmCacheAssumption
  <2> QED  BY <1>1, <1>2, <2>2, QuietCall
<1> QED  BY <1>4, <1>5 DEF Cache!Streams

LEMMA PutStep ==
  ASSUME Cache!PcmCacheAssumption, CacheInv, NEW c \in Callers, Cache!Cache(c)
  PROVE  CacheInv' /\ Cache!LostOnlyToStored
<1> DEFINE t == pc_call[c].text
           e == [size |-> pc_call[c].size, whole |-> pc_call[c].whole]
<1>1. pc_call[c].pc = "put" /\ UNCHANGED <<pc_phase, pc_asked, pc_circuit, pc_protected>>
      /\ Cache!Put(t, e) /\ Cache!Succeeds(c)
  BY DEF Cache!Cache, Cache!Put
<1>2. t \in Cache!Phrases /\ pc_protected = Cues
      /\ e \in [size : 1 .. Longest, whole : {TRUE}]
  BY <1>1 DEF CacheInv, CacheTyped, CacheCalls, CacheServed, Served
<1>3. Becomes(c, Cache!NoCall) /\ Cache!NoCall.pc = "idle" /\ MayWarm(c)  BY <1>1, CallEnds
<1>4. e.size = pc_call[c].size  OBVIOUS
<1> HIDE DEF e
<1>5. /\ CacheKept'
      /\ \/ UNCHANGED pc_entries
         \/ /\ DOMAIN pc_entries \intersect pc_protected \subseteq DOMAIN pc_entries'
            /\ t \in DOMAIN pc_entries' /\ pc_entries'[t] = e
  BY <1>1, <1>2, PutKeeps DEF CacheInv
<1>6. DOMAIN pc_entries \intersect pc_protected \subseteq DOMAIN pc_entries'  BY <1>5
<1>7. CacheInv'  BY <1>1, <1>3, <1>5, <1>6, QuietCall
<1>8. Cache!LostOnlyToStored
  BY <1>1, <1>2, <1>4, <1>5, <1>6 DEF Cache!LostOnlyToStored
<1> QED  BY <1>7, <1>8

(* Every step keeps the invariant, and none but a put takes a text out.    *)
LEMMA CacheStep ==
  Cache!PcmCacheAssumption /\ CacheInv /\ [Cache!Next]_pc_vars
    => CacheInv' /\ [Cache!LostOnlyToStored]_pc_vars
<1> SUFFICES ASSUME Cache!PcmCacheAssumption, CacheInv, [Cache!Next]_pc_vars
             PROVE  CacheInv' /\ [Cache!LostOnlyToStored]_pc_vars
  OBVIOUS
<1>1. CASE UNCHANGED pc_vars
  <2>1. CacheKept'  BY <1>1, CacheLeftAlone DEF CacheInv, pc_vars
  <2>2. Cache!CuesResident'
    BY <1>1 DEF CacheInv, CacheServed, Cache!CuesResident, Cache!RetainsProtected, Cache!Present, pc_vars
  <2>3. CacheTyped' /\ CacheServed' /\ CacheProbes'
    BY <1>1, <2>2 DEF CacheInv, CacheTyped, CacheServed, Served, CacheProbes, pc_vars
  <2> QED  BY <1>1, <2>1, <2>3 DEF CacheInv
<1>2. ASSUME DOMAIN pc_entries' = DOMAIN pc_entries PROVE Cache!LostOnlyToStored
  BY <1>2 DEF Cache!LostOnlyToStored
<1>3. CASE Cache!Warm \/ Cache!WarmEnds
  BY <1>2, <1>3, WarmStep DEF Cache!Warm, Cache!WarmEnds, Cache!cache
<1>4. ASSUME NEW c \in Callers, Cache!Ask(c) \/ Cache!Speak(c)
      PROVE  CacheInv' /\ Cache!LostOnlyToStored
  BY <1>2, <1>4, CalledStep DEF Cache!Ask, Cache!Speak, Cache!cache
<1>5. ASSUME NEW c \in Callers, Cache!Synthesize(c) PROVE CacheInv' /\ Cache!LostOnlyToStored
  <2>1. CASE Cache!LookUp(c) \/ Cache!OwnerLooksUp(c)
    BY <1>2, <2>1, LookUpStep DEF Cache!LookUp, Cache!OwnerLooksUp, Cache!Hit, Cache!cache
  <2>2. CASE Cache!Open(c)  BY <1>2, <2>2, OpenStep DEF Cache!Open, Cache!cache
  <2>3. CASE Cache!DirectCancelled(c) \/ Cache!DirectSucceeds(c) \/ Cache!DirectFails(c)
    BY <1>2, <2>3, DirectStep
       DEF Cache!DirectCancelled, Cache!DirectSucceeds, Cache!DirectFails, Cache!cache
  <2>4. CASE Cache!Streams(c)  BY <1>2, <2>4, StreamsStep DEF Cache!Streams, Cache!cache
  <2>5. CASE Cache!Cache(c)  BY <2>5, PutStep
  <2> QED  BY <1>5, <2>1, <2>2, <2>3, <2>4, <2>5 DEF Cache!Synthesize
<1> QED  BY <1>1, <1>3, <1>4, <1>5 DEF Cache!Next

(* What the invariant says of a state.                                     *)
LEMMA CacheIsSound == CacheInv => Cache!CacheSound
<1> SUFFICES ASSUME CacheInv PROVE Cache!CacheSound  OBVIOUS
<1>1. Cache!Accounted  BY DEF CacheInv, CacheKept
<1>2. Cache!CuesResident  BY DEF CacheInv, CacheServed
<1>3. Cache!StoredWhole  BY DEF CacheInv, CacheKept, Cache!StoredWhole
<1>4. Cache!OneProbe
  <2> DEFINE probes == {c \in Callers : pc_call[c].pc = "direct"}
  <2>1. CASE pc_circuit.probing
    <3>1. PICK c \in Callers : probes = {c}  BY <2>1 DEF CacheInv, CacheProbes
    <3>2. Cardinality(probes) = 1  BY <3>1, FS_Singleton
    <3> QED  BY <2>1, <3>2, CacheCounts DEF CacheInv, CacheProbes, Cache!OneProbe
  <2>2. CASE ~pc_circuit.probing
    <3>1. probes = {}  BY <2>2 DEF CacheInv, CacheProbes
    <3>2. Cardinality(probes) = 0  BY <3>1, FS_EmptySet
    <3> QED  BY <2>2, <3>2, CacheCounts DEF Cache!OneProbe
  <2> QED  BY <2>1, <2>2
<1> QED  BY <1>1, <1>2, <1>3, <1>4 DEF Cache!CacheSound

(* The cache within its budgets, of entries and of bytes, the cues it      *)
(* promised when the instance took traffic, whole renderings only, one     *)
(* probe of the direct route, and no text lost to a put that finds no      *)
(* room: snapshot, put and begin, for any texts, sizes, budgets and        *)
(* numbers of calls at once.                                               *)
THEOREM CacheAlwaysHolds == MCSpec => CacheHolds
<1>1. Cache!PcmCacheAssumption  BY VoiceAssumption
<1>2. MCInit => CacheInv  BY <1>1, CacheStarts DEF MCInit
<1>3. CacheInv /\ [MCNext]_MCVars => CacheInv' /\ [Cache!LostOnlyToStored]_pc_vars
  <2>1. [MCNext]_MCVars => [Cache!Next]_pc_vars  BY DEF MCNext, MCVars, pc_vars
  <2> QED  BY <1>1, <2>1, CacheStep
<1>4. CacheInv => (part = "cache" => Cache!CacheSound)  BY CacheIsSound
<1> QED  BY <1>2, <1>3, <1>4, PTL DEF MCSpec, CacheHolds

(* The type invariant of the cache.                                        *)
THEOREM CacheTypedAlways ==
  ASSUME Cache!PcmCacheAssumption PROVE Cache!Spec => []Cache!TypeOK
<1>1. Cache!Init => CacheInv  BY CacheStarts
<1>2. CacheInv /\ [Cache!Next]_(Cache!vars) => CacheInv'
  <2>1. [Cache!Next]_(Cache!vars) => [Cache!Next]_pc_vars
    BY DEF Cache!vars, Cache!cache, Cache!warming, pc_vars
  <2> QED  BY <2>1, CacheStep
<1>3. CacheInv => Cache!TypeOK
  <2> SUFFICES ASSUME CacheInv PROVE Cache!TypeOK  OBVIOUS
  <2>1. pc_totalBytes \in 0 .. MaxBytes
    <3>1. Agreed(pc_entries, pc_order, pc_totalBytes)  BY AccountedAs DEF CacheInv, CacheKept
    <3>2. IsFiniteSet(Bytes(pc_entries, DOMAIN pc_entries))
      BY BytesFinite DEF CacheInv, CacheKept, Cache!PcmCacheAssumption
    <3>3. pc_totalBytes \in Nat  BY <3>1, <3>2, FS_CardinalityType DEF Agreed
    <3> QED  BY <3>1, <3>3 DEF Agreed, Cache!PcmCacheAssumption
  <2>2. /\ pc_phase \in {"new", "warming", "ready", "down"}
        /\ pc_protected \subseteq Cues /\ pc_asked \subseteq Cues /\ pc_warmed \subseteq pc_asked
        /\ pc_circuit \in [probing : BOOLEAN, disabled : BOOLEAN]
    BY DEF CacheInv, CacheTyped
  <2>3. /\ DOMAIN pc_entries \subseteq Cache!Phrases
        /\ \A t \in DOMAIN pc_entries : pc_entries[t] \in [size : 1 .. MaxEntry, whole : BOOLEAN]
        /\ pc_order \subseteq Cache!Phrases \X Cache!Phrases
    BY DEF CacheInv, CacheKept
  <2>4. ASSUME NEW c \in Callers
        PROVE  /\ pc_call[c].pc \in {"idle", "lookup", "owner", "open", "direct", "stream", "put"}
               /\ pc_call[c].pc # "idle" => pc_call[c].text \in Cache!Phrases
               /\ pc_call[c].prepared \in BOOLEAN /\ pc_call[c].whole \in BOOLEAN
               /\ pc_call[c].size \in 0 .. Longest
    <3>1. pc_call[c] \in CacheCalls  BY DEF CacheInv, CacheTyped
    <3>2. pc_call[c].pc # "idle" => pc_call[c].text \in Cache!Phrases
      BY DEF CacheInv, CacheServed, Served
    <3> QED  BY <3>1, <3>2 DEF CacheCalls
  <2> QED  BY <2>1, <2>2, <2>3, <2>4 DEF Cache!TypeOK
<1> QED  BY <1>1, <1>2, <1>3, PTL DEF Cache!Spec
=============================================================================
