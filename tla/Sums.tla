-------------------------------- MODULE Sums --------------------------------
(***************************************************************************)
(* Sums of the first n values of a function on 1..n, accumulated in index  *)
(* order the way the contracts' loops do it.  A recursive function instead *)
(* of the folds of the community modules: its recursion is over the index, *)
(* so HelperTheorems can prove what it computes for every n.               *)
(***************************************************************************)
EXTENDS Integers

\* s is the table of partial sums of f on 0..n.
IsPrefixSum(s, f, n) ==
    s = [k \in 0..n |-> IF k = 0 THEN 0 ELSE s[k-1] + f[k]]

\* f[1] + ... + f[n]
SumTo(f, n) ==
    LET s[k \in 0..n] == IF k = 0 THEN 0 ELSE s[k-1] + f[k]
    IN  s[n]

=============================================================================
