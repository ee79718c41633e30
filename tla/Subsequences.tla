---------------------------- MODULE Subsequences ----------------------------
(***************************************************************************)
(* What a loop that appends some elements of a list to another leaves: the *)
(* elements of s that are in S, in the order of s.                         *)
(***************************************************************************)
EXTENDS Integers, Sequences, SequencesExt

Select(s, S) ==
    FlattenSeq([k \in DOMAIN s |-> IF s[k] \in S THEN <<s[k]>> ELSE <<>>])
=============================================================================
