---------------------------- MODULE MCContainers ----------------------------
(***************************************************************************)
(* Instances of the three containers of core.c for TLC.  They share no     *)
(* state: each is taken through all it may do while the others are as they *)
(* were made.                                                              *)
(***************************************************************************)
EXTENDS DynArray, Strings, MemArena, TLC

CONSTANTS a, b, n1, n2, n3, n4

MCLetters == {a, b}
(* Texts of one letter, of every length that a u32 can hold.                *)
MCTexts == {[i \in 1 .. n |-> c] : n \in 0 .. (U32 - 1), c \in MCLetters}

MCNodes == {n1, n2, n3, n4}

MCSymmetry == Permutations(MCLetters) \cup Permutations(MCNodes)

(* A new block of 4 bytes is filled by "2" with room for the NUL, by "3" and *)
(* its NUL to the last byte, and by "9" only after it has grown.             *)
MCDataSizes == {2, 3, 9}

ContainersInit == ArrayInit /\ StringInit /\ Init

ContainersNext ==
  \/ ArrayNext /\ StringInit /\ Init /\ UNCHANGED <<stringVars, vars>>
  \/ StringNext /\ ArrayInit /\ Init /\ UNCHANGED <<arrayVars, vars>>
  \/ Next /\ ArrayInit /\ StringInit /\ UNCHANGED <<arrayVars, stringVars>>

ContainersSpec == ContainersInit /\ [][ContainersNext]_<<arrayVars, stringVars, vars>>
=============================================================================
