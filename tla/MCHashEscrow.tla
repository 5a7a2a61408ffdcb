---------------------------- MODULE MCHashEscrow ----------------------------
(* Values of the constants of HashEscrow for model checking. *)
EXTENDS HashEscrow, TLC

CONSTANTS terp, atom

\* Defaults, a dearer price with longer intervals, another denomination, and the
\* price of zero that Params.Validate lets pass.
MCParams == {[price |-> 1, interval |-> 1, denom |-> terp],
             [price |-> 2, interval |-> 3, denom |-> terp],
             [price |-> 1, interval |-> 2, denom |-> atom],
             [price |-> 0, interval |-> 2, denom |-> terp]}

\* Contracts are told apart by nothing but their rows.
MCSymmetry == Permutations(Contract)

MCFixed == {[price |-> 1, interval |-> 1, denom |-> terp]}
=============================================================================
