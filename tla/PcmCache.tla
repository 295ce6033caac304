------------------------------- MODULE PcmCache -------------------------------
(***************************************************************************)
(* The cache of synthesized speech (internal/speechio): an LRU list within *)
(* a budget of entries and of bytes, in which the cues an instance warms   *)
(* before it takes traffic are protected, and the circuit of the direct    *)
(* PCM route, which one call at a time may try until it fails once.        *)
(*                                                                         *)
(* A call is one synthesis for one text, with the locks it takes one after *)
(* another.  For a cue it is the owner of the flight (SynthesisFlight).    *)
(* A rendering is its length; a chunk or a byte are not told apart.  The   *)
(* list is the linear order of its keys: who was used no later than whom.  *)
(***************************************************************************)
EXTENDS Integers, FiniteSets

CONSTANTS
  Callers,    \* calls under way at once
  Cues,       \* texts an instance warms
  Replies,    \* other texts
  Long,       \* texts too long for the direct route
  MaxEntries, \* the cache's entries
  MaxBytes,   \* the cache's bytes
  MaxEntry,   \* bytes of one entry
  Longest     \* bound: bytes of a rendering

PcmCacheAssumption ==
  /\ MaxEntries \in Nat /\ MaxBytes \in Nat /\ MaxEntry \in Nat /\ Longest \in Nat \ {0}
  /\ IsFiniteSet(Cues) /\ Cues \intersect Replies = {}

Phrases == Cues \union Replies

VARIABLES
  phase,      \* of the instance: new, warming, ready, or down
  protected, entries, order, totalBytes,   \* streamingPCMCache
  circuit,    \* directPCMRouteCircuit
  asked,      \* cues given to a warming worker
  warmed,     \* cues a worker has succeeded with
  call        \* per caller

cache == <<protected, entries, order, totalBytes>>
warming == <<phase, asked, warmed>>
vars == <<cache, warming, circuit, call>>

NoCall == [pc |-> "idle", text |-> "none", prepared |-> FALSE, size |-> 0, whole |-> FALSE]

TypeOK ==
  /\ phase \in {"new", "warming", "ready", "down"}
  /\ protected \subseteq Cues /\ asked \subseteq Cues /\ warmed \subseteq asked
  /\ DOMAIN entries \subseteq Phrases /\ totalBytes \in 0 .. MaxBytes
  /\ \A t \in DOMAIN entries : entries[t] \in [size : 1 .. MaxEntry, whole : BOOLEAN]
  /\ order \subseteq Phrases \X Phrases
  /\ circuit \in [probing : BOOLEAN, disabled : BOOLEAN]
  /\ \A c \in Callers :
       /\ call[c].pc \in {"idle", "lookup", "owner", "open", "direct", "stream", "put"}
       /\ call[c].pc # "idle" => call[c].text \in Phrases
       /\ call[c].prepared \in BOOLEAN /\ call[c].whole \in BOOLEAN
       /\ call[c].size \in 0 .. Longest

Init ==
  /\ phase = "new" /\ protected = {} /\ entries = <<>> /\ order = {} /\ totalBytes = 0
  /\ circuit = [probing |-> FALSE, disabled |-> FALSE]
  /\ asked = {} /\ warmed = {} /\ call = [c \in Callers |-> NoCall]
-----------------------------------------------------------------------------
(* The cache, each operation under its lock.                               *)

Present(t) == t \in DOMAIN entries

(* protect: all the keys or none.                                          *)
Protectable(ts) == Cardinality(protected \union ts) <= MaxEntries /\ MaxBytes > 0

(* The keys of a list, the list without some, and with t appended.         *)
Listed(o) == {p[1] : p \in o}
Without(o, gone) == {p \in o : p[1] \notin gone /\ p[2] \notin gone}
Appended(o, t) == o \union ((Listed(o) \union {t}) \X {t})

(* snapshot: what is used becomes the newest.                              *)
Touched(t) == Appended(Without(order, {t}), t)

RetainsProtected(t) == t \in protected /\ Present(t)

SizeOf(t) == IF Present(t) THEN entries[t].size ELSE 0

(* The bytes that are kept for the texts ts, each with its place.          *)
BytesOf(ts) == {b \in ts \X (1 .. MaxEntry) : b[2] <= entries[b[1]].size}

(* Mutant: an old cue is evicted as an old reply is.                       *)
EvictableAny(t) == Listed(order) \ {t}

(* What a put of t may evict, and what it evicts: the oldest of them.      *)
Evictable(t) == (Listed(order) \ {t}) \ protected

Oldest(t, evicted) ==
  \A v \in evicted, u \in Evictable(t) \ evicted : <<v, u>> \in order

BytesAfter(t, size, evicted) == totalBytes - SizeOf(t) + size - Cardinality(BytesOf(evicted))

Kept(t, evicted) == (DOMAIN entries \ evicted) \union {t}

Fits(t, size, evicted) ==
  Cardinality(Kept(t, evicted)) <= MaxEntries /\ BytesAfter(t, size, evicted) <= MaxBytes

(* The fewest evictions that make room; none is made when all do not.      *)
Plans(t, size) ==
  {evicted \in SUBSET Evictable(t) :
     /\ Oldest(t, evicted) /\ Fits(t, size, evicted)
     /\ \A fewer \in SUBSET evicted \ {evicted} : Oldest(t, fewer) => ~Fits(t, size, fewer)}

Store(t, e, evicted) ==
  /\ entries' = [u \in Kept(t, evicted) |-> IF u = t THEN e ELSE entries[u]]
  /\ order' = Appended(Without(order, evicted \union {t}), t)
  /\ totalBytes' = BytesAfter(t, e.size, evicted)

(* Mutant: a replacement drops the old value before it knows of the room.  *)
PutDropsFirst(t, e) ==
  /\ IF e.size > MaxBytes \/ e.size > MaxEntry \/ Plans(t, e.size) = {}
     THEN /\ entries' = [u \in DOMAIN entries \ {t} |-> entries[u]]
          /\ order' = Without(order, {t}) /\ totalBytes' = totalBytes - SizeOf(t)
     ELSE \E evicted \in Plans(t, e.size) : Store(t, e, evicted)
  /\ UNCHANGED protected

Put(t, e) ==
  /\ IF e.size > MaxBytes \/ e.size > MaxEntry \/ Plans(t, e.size) = {}
     THEN UNCHANGED <<entries, order, totalBytes>>
     ELSE \E evicted \in Plans(t, e.size) : Store(t, e, evicted)
  /\ UNCHANGED protected
-----------------------------------------------------------------------------
(* WarmStreamingSynthesis and the readiness that needs it.                 *)

Warm ==
  /\ phase = "new"
  /\ IF Protectable(Cues) THEN phase' = "warming" /\ protected' = protected \union Cues
                          ELSE phase' = "down" /\ UNCHANGED protected
  /\ UNCHANGED <<entries, order, totalBytes, asked, warmed, circuit, call>>

Called(c, t, p) ==
  call' = [call EXCEPT ![c] = [NoCall EXCEPT !.pc = "lookup", !.text = t, !.prepared = p]]

(* A worker takes the next cue.                                            *)
Ask(c) ==
  /\ phase = "warming" /\ call[c].pc = "idle"
  /\ \E t \in Cues \ asked : Called(c, t, FALSE) /\ asked' = asked \union {t}
  /\ UNCHANGED <<cache, phase, warmed, circuit>>

(* Traffic is taken only if every cue was heard and is still there; the    *)
(* deadline may pass before they all are.                                  *)
WarmEnds ==
  /\ phase = "warming" /\ \A c \in Callers : call[c].pc = "idle"
  /\ \/ asked = Cues /\ warmed = Cues /\ (\A t \in Cues : RetainsProtected(t)) /\ phase' = "ready"
     \/ phase' = "down"
  /\ UNCHANGED <<cache, asked, warmed, circuit, call>>

(* A reply is spoken, over a prepared connection or not.                   *)
Speak(c) ==
  /\ phase = "ready" /\ call[c].pc = "idle"
  /\ \E t \in Phrases, p \in BOOLEAN : Called(c, t, p)
  /\ UNCHANGED <<cache, warming, circuit>>
-----------------------------------------------------------------------------
(* StreamSynthesize, alone or by the owner of a flight.                    *)

(* The call is over; a warming worker may have heard nothing in silence.   *)
Fails(c) == call' = [call EXCEPT ![c] = NoCall] /\ UNCHANGED warmed

Succeeds(c) ==
  /\ call' = [call EXCEPT ![c] = NoCall]
  /\ \/ UNCHANGED warmed
     \/ phase = "warming" /\ warmed' = warmed \union {call[c].text}

GoesTo(c, pc) == call' = [call EXCEPT ![c].pc = pc] /\ UNCHANGED warmed

(* A hit is delivered, as far as its listener goes along.                  *)
Hit(c) ==
  /\ order' = Touched(call[c].text) /\ UNCHANGED <<protected, entries, totalBytes>>
  /\ Succeeds(c) \/ Fails(c)

LookUp(c) ==
  LET t == call[c].text
  IN  /\ call[c].pc = "lookup"
      /\ \/ Present(t) /\ Hit(c)
         \/ /\ ~Present(t) /\ UNCHANGED cache
            /\ GoesTo(c, IF t \in protected THEN "owner" ELSE IF call[c].prepared THEN "stream" ELSE "open")
      /\ UNCHANGED <<phase, asked, circuit>>

(* streamSynthesizeSharedOwner looks once more.                            *)
OwnerLooksUp(c) ==
  /\ call[c].pc = "owner"
  /\ \/ Present(call[c].text) /\ Hit(c)
     \/ ~Present(call[c].text) /\ UNCHANGED cache /\ GoesTo(c, "open")
  /\ UNCHANGED <<phase, asked, circuit>>

(* Mutant: only a failure closes the direct route to others.               *)
ProbeFreeUnlessDisabled == ~circuit.disabled

ProbeFree == ~circuit.probing /\ ~circuit.disabled

(* begin: the direct route, if the text is short and nobody is on it.      *)
Open(c) ==
  /\ call[c].pc = "open"
  /\ IF call[c].text \notin Long /\ ProbeFree
     THEN circuit' = [circuit EXCEPT !.probing = TRUE] /\ GoesTo(c, "direct")
     ELSE UNCHANGED circuit /\ GoesTo(c, "stream")
  /\ UNCHANGED <<cache, phase, asked>>

ProbeEnds(disabled) == circuit' = [probing |-> FALSE, disabled |-> disabled]

Rendered(c, n, whole) ==
  /\ call' = [call EXCEPT ![c].pc = "put", ![c].size = n, ![c].whole = whole]
  /\ UNCHANGED warmed

DirectCancelled(c) ==
  /\ call[c].pc = "direct" /\ circuit' = [circuit EXCEPT !.probing = FALSE] /\ Fails(c)
  /\ UNCHANGED <<cache, phase, asked>>

(* The whole rendering in one piece, which the listener may not take.      *)
DirectSucceeds(c) ==
  /\ call[c].pc = "direct" /\ ProbeEnds(FALSE)
  /\ \/ \E n \in 1 .. Longest : IF n <= MaxEntry THEN Rendered(c, n, TRUE) ELSE Succeeds(c)
     \/ Fails(c)
  /\ UNCHANGED <<cache, phase, asked>>

(* An error, no audio or too much of it, or an answer after the deadline.  *)
DirectFails(c) ==
  /\ call[c].pc = "direct" /\ ProbeEnds(TRUE) /\ GoesTo(c, "stream")
  /\ UNCHANGED <<cache, phase, asked>>

(* Mutant: what was collected is kept when the stream ends early.          *)
StreamsAnyEnd(c) ==
  /\ call[c].pc = "stream"
  /\ \/ Fails(c)
     \/ \E n \in 1 .. Longest : \E heard \in 1 .. n :
          IF heard <= MaxEntry THEN Rendered(c, heard, heard = n) ELSE Succeeds(c)
  /\ UNCHANGED <<cache, phase, asked, circuit>>

(* The rendering in chunks, of which the first are heard: an error of the  *)
(* provider, the listener or the context ends it before the last.          *)
Streams(c) ==
  /\ call[c].pc = "stream"
  /\ \/ Fails(c)
     \/ \E n \in 1 .. Longest : \E heard \in 1 .. n :
          heard = n /\ (IF heard <= MaxEntry THEN Rendered(c, heard, heard = n) ELSE Succeeds(c))
  /\ UNCHANGED <<cache, phase, asked, circuit>>

Cache(c) ==
  /\ call[c].pc = "put"
  /\ Put(call[c].text, [size |-> call[c].size, whole |-> call[c].whole])
  /\ Succeeds(c)
  /\ UNCHANGED <<phase, asked, circuit>>

Synthesize(c) ==
  \/ LookUp(c) \/ OwnerLooksUp(c) \/ Open(c) \/ DirectCancelled(c) \/ DirectSucceeds(c)
  \/ DirectFails(c) \/ Streams(c) \/ Cache(c)

Next == Warm \/ WarmEnds \/ \E c \in Callers : Ask(c) \/ Speak(c) \/ Synthesize(c)

Spec == Init /\ [][Next]_vars
-----------------------------------------------------------------------------
(* No key twice, and each before or after each other.                      *)
Linear(o) ==
  /\ \A s, t \in Listed(o) : <<s, t>> \in o \/ <<t, s>> \in o
  /\ \A s, t \in Listed(o) : <<s, t>> \in o /\ <<t, s>> \in o => s = t
  /\ \A s, t, u \in Listed(o) : <<s, t>> \in o /\ <<t, u>> \in o => <<s, u>> \in o

(* The list, the map and the count of bytes agree, within the budgets.     *)
Accounted ==
  /\ Linear(order) /\ Listed(order) = DOMAIN entries
  /\ totalBytes = Cardinality(BytesOf(DOMAIN entries))
  /\ totalBytes <= MaxBytes /\ Cardinality(DOMAIN entries) <= MaxEntries

(* An instance that takes traffic has every cue, whatever it has spoken.   *)
CuesResident == phase = "ready" => \A t \in Cues : RetainsProtected(t)

(* No part of a rendering is ever kept for the whole.                      *)
StoredWhole == \A t \in DOMAIN entries : entries[t].whole

(* The circuit knows of the one call that is on the direct route; so a     *)
(* success never reopens what a failure has closed.                        *)
OneProbe ==
  LET probes == {c \in Callers : call[c].pc = "direct"}
  IN  Cardinality(probes) = (IF circuit.probing THEN 1 ELSE 0) /\ ~(circuit.probing /\ circuit.disabled)

CacheSound == Accounted /\ CuesResident /\ StoredWhole /\ OneProbe

(* A put loses nothing in vain: a text leaves the cache only for another   *)
(* that is stored with its whole size, and no cue ever leaves it.          *)
LostOnlyToStored ==
  LET lost == DOMAIN entries \ DOMAIN entries'
  IN  lost # {} =>
        /\ lost \intersect Cues = {}
        /\ \E c \in Callers : /\ call[c].pc = "put" /\ call[c].text \in DOMAIN entries'
                              /\ entries'[call[c].text].size = call[c].size

(* The cache is sound, and a put that is refused leaves it as it was.      *)
CacheHolds == []CacheSound /\ [][LostOnlyToStored]_vars
=============================================================================
