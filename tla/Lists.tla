-------------------------------- MODULE Lists -------------------------------
(***************************************************************************)
(* The elements of a list that belong to a set, in their order, picked out *)
(* one after another the way the loops over a Vec do it.  This is          *)
(* SelectSeq, written like Sums with its recursion over the index so that  *)
(* HelperTheorems can prove what it computes for every list.               *)
(***************************************************************************)
EXTENDS Naturals, Sequences

\* t is the table of the selections from the first 0, 1, ..., n values of f.
IsSelection(t, f, S, n) ==
    t = [k \in 0..n |-> IF k = 0 THEN << >>
                        ELSE IF f[k] \in S THEN Append(t[k-1], f[k]) ELSE t[k-1]]

\* The members of S among f[1], ..., f[n].
OnlyTo(f, S, n) ==
    LET t[k \in 0..n] == IF k = 0 THEN << >>
                         ELSE IF f[k] \in S THEN Append(t[k-1], f[k]) ELSE t[k-1]
    IN  t[n]

Only(list, S) == OnlyTo(list, S, Len(list))

=============================================================================
