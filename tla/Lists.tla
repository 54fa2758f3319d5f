-------------------------------- MODULE Lists --------------------------------
(***************************************************************************)
(* Lists in memory: what a loop that starts at an address and goes on to   *)
(* the next one, until it is at none, comes by.                            *)
(***************************************************************************)
EXTENDS Integers, FiniteSets, Sequences

(* "link" has the next address of each.  A list that comes back to where it *)
(* was yields more addresses than there are.                                *)
Followed(from, link) ==
  LET at[k \in 1 .. (Cardinality(DOMAIN link) + 1)] ==
        IF k = 1 THEN from
        ELSE IF at[k - 1] \in DOMAIN link THEN link[at[k - 1]] ELSE at[k - 1]
  IN [k \in 1 .. Cardinality({i \in DOMAIN at : at[i] \in DOMAIN link}) |-> at[k]]
=============================================================================
