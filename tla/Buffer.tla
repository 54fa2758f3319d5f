------------------------------- MODULE Buffer -------------------------------
(***************************************************************************)
(* What a String promises its users: a text that is given when it is made, *)
(* and grows at its end until it is freed or the program is gone.          *)
(***************************************************************************)
EXTENDS Integers, Sequences

CONSTANTS
  Texts,     (* what may be given to it                                    *)
  MaxText    (* a longer text is left out when the string is made          *)

VARIABLES
  contents,
  state      (* "none", "open", "over"                                     *)

bufferVars == <<contents, state>>

Init == contents = <<>> /\ state = "none"

Make(t) ==
  /\ state = "none" /\ state' = "open"
  /\ contents' = IF Len(t) <= MaxText THEN t ELSE <<>>

Add(t) == state = "open" /\ contents' = contents \o t /\ UNCHANGED state

End == state # "over" /\ state' = "over" /\ contents' = <<>>

Next == (\E t \in Texts : Make(t) \/ Add(t)) \/ End

Spec == Init /\ [][Next]_bufferVars
=============================================================================
