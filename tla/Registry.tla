------------------------------ MODULE Registry ------------------------------
(***************************************************************************)
(* What an arena promises: each block handed out is a new one, the blocks  *)
(* in use are kept oldest first, and ending it gives all of them back.     *)
(***************************************************************************)
EXTENDS Naturals, Sequences, SequencesExt

CONSTANT Blocks

VARIABLES
  inUse,      (* the blocks the registry knows of, oldest first            *)
  taken,      (* the blocks that are taken from the system                 *)
  over

registryVars == <<inUse, taken, over>>

Init == inUse = <<>> /\ taken = {} /\ over = FALSE

Take(b) ==
  /\ ~over /\ b \notin taken
  /\ inUse' = Append(inUse, b) /\ taken' = taken \cup {b}
  /\ UNCHANGED over

GiveBack(i) ==
  /\ ~over /\ i \in DOMAIN inUse
  /\ inUse' = RemoveAt(inUse, i) /\ taken' = taken \ {inUse[i]}
  /\ UNCHANGED over

GiveAllBack == ~over /\ inUse' = <<>> /\ taken' = {} /\ over' = TRUE

Next ==
  \/ \E b \in Blocks : Take(b)
  \/ \E i \in DOMAIN inUse : GiveBack(i)
  \/ GiveAllBack

Spec == Init /\ [][Next]_registryVars
=============================================================================
