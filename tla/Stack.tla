------------------------------- MODULE Stack --------------------------------
(***************************************************************************)
(* What a DynArray promises its users: a sequence that grows and shrinks   *)
(* at its end, until the memory runs out and the program with it.          *)
(***************************************************************************)
EXTENDS Integers, Sequences

CONSTANT Values

VARIABLES
  contents,   (* what was pushed and not popped, oldest first              *)
  alive

stackVars == <<contents, alive>>

Init == contents = <<>> /\ alive = TRUE

Push(v) == alive /\ contents' = Append(contents, v) /\ UNCHANGED alive

Pop == /\ alive /\ contents # <<>>
       /\ contents' = SubSeq(contents, 1, Len(contents) - 1)
       /\ UNCHANGED alive

(* The program is gone, and the contents with it.                            *)
Lost == alive /\ alive' = FALSE /\ contents' = <<>>

Next == (\E v \in Values : Push(v)) \/ Pop \/ Lost

Spec == Init /\ [][Next]_stackVars
=============================================================================
