-------------------------------- MODULE Lists --------------------------------
(***************************************************************************)
(* Filtering a list by positions, as Rust's retain and filter do, in a     *)
(* form that can be proved about: by a recursive function.                 *)
(***************************************************************************)
EXTENDS Integers, Sequences

\* The elements of s at the positions in P, in their order.
Sublist(s, P) ==
  LET upto[k \in 0 .. Len(s)] ==
        IF k = 0 THEN <<>> ELSE IF k \in P THEN Append(upto[k - 1], s[k]) ELSE upto[k - 1]
  IN upto[Len(s)]
=============================================================================
