---------------------------- MODULE MCHashVotes ----------------------------
(* Small instances of HashVotes. *)
EXTENDS HashVotes, SequencesExt, TLC

\* Injective on short lists of small numbers, and never the empty root.
MCDigest(atts) ==
    FoldLeft(LAMBDA h, att : (h * 8 + att[1]) * 8 + att[2], 1, atts)

MCPower == [v \in Val |-> 1]

\* Two listings of the same attestations, one that disagrees, one from a source
\* that is not registered, one for the other chain, one with a wrong advisory root.
MCReports == {
    [chain |-> 1, atts |-> <<<<1, 2>>, <<2, 1>>, <<1, 1>>>>, root |-> 0],
    [chain |-> 1, atts |-> <<<<2, 1>>, <<1, 1>>, <<1, 2>>>>, root |-> 0],
    [chain |-> 1, atts |-> <<<<1, 2>>>>, root |-> 0],
    [chain |-> 1, atts |-> <<<<3, 1>>>>, root |-> 0],
    [chain |-> 2, atts |-> <<<<1, 1>>>>, root |-> 0],
    [chain |-> 2, atts |-> <<<<1, 1>>>>, root |-> 1]}

MCSymmetry == Permutations(Val \ Legacy) \cup Permutations(Replica)
=============================================================================
