------------------------------- MODULE Memory -------------------------------
(***************************************************************************)
(* Memory as core.c and mem.h see it: unsigned 32-bit sizes and offsets,   *)
(* and blocks that hold junk until they are written.                       *)
(***************************************************************************)
EXTENDS Integers, Sequences

CONSTANTS
  Junk,      (* what memory holds before anything is written               *)
  U32        (* unsigned arithmetic wraps around here: 2^32 in the code    *)

Unwrapped(n) == n
Wrapped(n) == n % U32
=============================================================================
