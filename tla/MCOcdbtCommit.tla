--------------------------- MODULE MCOcdbtCommit ---------------------------
(***************************************************************************)
(* Instances of OcdbtCommit: two processes, two keys.  Conditional writes  *)
(* and deletions are made to one key, unconditional writes to the other;  *)
(* DeleteRange covers both.                                                *)
(***************************************************************************)
EXTENDS OcdbtCommit

CONSTANTS w1, w2

MCWriter == {w1, w2}
MCAssumed == {w1}
MCKey == {1, 2}
MCRanges == {{1, 2}}

MCWrites ==
    {[key |-> 1, cond |-> NoValue, delete |-> FALSE],
     [key |-> 1, cond |-> 1, delete |-> TRUE],
     [key |-> 2, cond |-> Unspecified, delete |-> FALSE]}

=============================================================================
