------------------------------ MODULE Sifting ------------------------------
(***************************************************************************)
(* Taking some elements of a sequence, in their order: what Vec::retain and *)
(* a filter over an iterator do.                                            *)
(***************************************************************************)
EXTENDS Naturals, Sequences

\* The elements of s at the indices in I.
SeqAt(s, I) ==
    LET taken[n \in 0 .. Len(s)] ==
            IF n = 0 THEN <<>> ELSE IF n \in I THEN Append(taken[n - 1], s[n]) ELSE taken[n - 1]
    IN  taken[Len(s)]
=============================================================================
