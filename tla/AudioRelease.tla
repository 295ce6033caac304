---------------------------- MODULE AudioRelease ----------------------------
(***************************************************************************)
(* What a listener is promised about speech that is synthesised before the *)
(* turn is certain: nothing is heard while the gate is sealed, the units   *)
(* of the reply are heard in order and once, and when the gate is dead     *)
(* only the chunk already claimed by a delivery may still be heard.        *)
(***************************************************************************)
EXTENDS Integers, Sequences

VARIABLES
  gate,     \* "sealed", "open" or "dead"
  made,     \* units the provider has produced
  out,      \* units heard, in order
  claimed   \* a delivery has begun

vars == <<gate, made, out, claimed>>

Init == gate = "sealed" /\ made = 0 /\ out = << >> /\ claimed = FALSE

Produce == made' > made /\ UNCHANGED <<gate, out, claimed>>

Unseal == gate = "sealed" /\ gate' = "open" /\ UNCHANGED <<made, out, claimed>>

Claim ==
  /\ gate = "open" /\ ~claimed /\ claimed' = TRUE
  /\ UNCHANGED <<gate, made, out>>

(* The rest of what was produced may be heard at once or chunk by chunk;   *)
(* a failed delivery closes the gate with it.                              *)
Deliver ==
  /\ claimed /\ claimed' = FALSE
  /\ \E n \in 0..(made - Len(out)) : out' = out \o [i \in 1..n |-> Len(out) + i]
  /\ gate' \in {gate, "dead"} /\ UNCHANGED made

Kill == gate' = "dead" /\ UNCHANGED <<made, out, claimed>>

Next == Produce \/ Unseal \/ Claim \/ Deliver \/ Kill

Spec == Init /\ [][Next]_vars
=============================================================================
