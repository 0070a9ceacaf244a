------------------------------ MODULE MCDeploy ------------------------------
(***************************************************************************)
(* Instances of Deploy for TLC.                                            *)
(***************************************************************************)
EXTENDS Deploy, TLC

Symmetry == Permutations(Runs)

O(o) == <<"other", o>>

\* No file; an unterminated one; one with the key twice and a blank last line.
SomeFiles ==
    { None,
      [lines |-> <<O("a")>>, ended |-> FALSE],
      [lines |-> <<Key("old"), O("a"), Key("older"), O("b"), Blank>>, ended |-> TRUE] }

=============================================================================
