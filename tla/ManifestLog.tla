---------------------------- MODULE ManifestLog ----------------------------
(***************************************************************************)
(* What concurrent writers of an OCDBT database rely on: the versions form *)
(* one log that only grows at its end, and a commit that was reported      *)
(* successful is in the log, once, and stays there.                        *)
(***************************************************************************)
EXTENDS Sequences, SequencesExt

CONSTANT Version

VARIABLES log, acked

Init == log = << >> /\ acked = {}

AppendVersion ==
    /\ \E v \in Version \ Range(log) : log' = Append(log, v)
    /\ UNCHANGED acked

Acknowledge ==
    /\ \E v \in Range(log) \ acked : acked' = acked \cup {v}
    /\ UNCHANGED log

Next == AppendVersion \/ Acknowledge

Spec == Init /\ [][Next]_<< log, acked >>
=============================================================================
