------------------------------ MODULE TurnVoice ------------------------------
(***************************************************************************)
(* What a native voice turn promises about who is heard.  A turn decides   *)
(* once between the provider's own voice, the staged voice and silence;    *)
(* only the voice it decided for is heard, and nothing once it is over.    *)
(***************************************************************************)
CONSTANT Voices \* "native" and "staged" in the code's terms

VARIABLES verdict, heard, over
vars == <<verdict, heard, over>>

Init == verdict = "pending" /\ heard = {} /\ over = FALSE

Decide(v) ==
  /\ verdict = "pending" /\ ~over /\ verdict' = v
  /\ UNCHANGED <<heard, over>>

Speak ==
  /\ verdict \in Voices /\ ~over /\ heard' = heard \union {verdict}
  /\ UNCHANGED <<verdict, over>>

(* A turn that ends undecided is silent.                                   *)
End ==
  /\ ~over /\ over' = TRUE
  /\ verdict' = IF verdict = "pending" THEN "silent" ELSE verdict
  /\ UNCHANGED heard

Next == (\E v \in Voices : Decide(v)) \/ Speak \/ End

Spec == Init /\ [][Next]_vars
=============================================================================
