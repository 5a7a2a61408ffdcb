----------------------------- MODULE HashVotes -----------------------------
(***************************************************************************)
(* How a foreign root becomes a HashRoot (x/hashmerchant).                 *)
(*                                                                         *)
(* Validators attach what their sidecar reports to their votes, peers      *)
(* verify it, the next proposer puts the extended commit into its block,   *)
(* and every replica tallies that commit before the messages of the block. *)
(* The tally walks a Go map, in an order that differs from one replica to  *)
(* the next: one step here visits one root.                                *)
(*                                                                         *)
(* An attestation is a source and a value (its height included); its time, *)
(* which the root leaves out, is left out.  Roots are numbers, in the order *)
(* of their hex strings; no property needs two different lists to have     *)
(* different roots.  There is one algorithm per chain.  The fields of a    *)
(* HashRoot copied from the first vote of the commit, which all replicas   *)
(* share, are left out.  The messages of the block that was voted on run   *)
(* between the votes and their tally, which does not read what they        *)
(* change; here they run after it.                                         *)
(***************************************************************************)
EXTENDS Integers, Sequences, FiniteSets, Functions

CONSTANTS
    Val,          \* validators
    Power,        \* their voting power
    Legacy,       \* those with an older sidecar: a root without attestations
    LegacyRoots,  \* ... which may be empty
    Replica,      \* nodes that execute the block
    ChainId,      \* foreign chains, numbers in the order of their ids
    Source,       \* oracle sources, numbers in the order of their ids
    Value,        \* values, numbers in byte order
    Registered,   \* enabled sources with a valid custody key
    Reports,      \* what sidecars report: a chain, attestations, an advisory root
    digest(_),    \* sha256 of a list of attestations
    NoExt,        \* the empty vote extension
    NoRoot,       \* "no HashRoot row"
    Numerator, Denominator   \* QuorumFraction

ASSUME ValAssumption == IsFiniteSet(Val) /\ Legacy \subseteq Val /\ Power \in [Val -> Nat]
ASSUME FractionAssumption ==
    Numerator \in Nat /\ Denominator \in Nat \ {0} /\ Numerator <= Denominator
ASSUME SourceAssumption == Registered \subseteq Source /\ Source \subseteq Nat /\ Value \subseteq Nat
ASSUME ReportAssumption ==
    \A r \in Reports :
        r.chain \in ChainId /\ r.atts \in Seq(Source \X Value) /\ r.root \in Nat
ASSUME ChainAssumption == ChainId \subseteq Nat /\ LegacyRoots \subseteq Nat

VARIABLES
    enabledChains,   \* registered and enabled chains
    ext,       \* the extension of every validator that has voted
    commit,    \* the commit injected into the block, <<>> if none
    stage,     \* "vote", "process"
    todo,      \* replica -> roots its tally has still to visit
    best,      \* replica -> chain -> best root so far
    winners,   \* replica -> chains with a winning root, in the order of its walk
    rows,      \* replica -> chain -> HashRoot row
    calls,     \* replica -> chains whose callbacks it has dispatched, in order
    done       \* replicas that have processed the block

tally    == <<todo, best, winners>>
store    == <<rows, calls, done>>
voteVars == <<enabledChains, ext, commit, stage, tally, store>>

EmptyRoot == 0

-----------------------------------------------------------------------------
(* Attestations *)

\* sort.Slice: an arrangement in which nothing comes before a smaller element.
Sorted(s, Before(_, _)) ==
    LET p == CHOOSE p \in Bijection(DOMAIN s, DOMAIN s) :
                 \A i, j \in DOMAIN s : i < j => ~Before(s[p[j]], s[p[i]])
    IN  [i \in DOMAIN s |-> s[p[i]]]

AttBefore(x, y) == x[1] < y[1] \/ (x[1] = y[1] /\ x[2] < y[2])

sortOracleAttestations(atts) == Sorted(atts, AttBefore)

\* The first attestation of each source.
dedupeOracleAttestationsBySourceID(atts) ==
    LET first == {i \in DOMAIN atts : \A j \in 1..(i - 1) : atts[j][1] # atts[i][1]}
    IN  [i \in 1..Cardinality(first) |->
           atts[CHOOSE j \in first : Cardinality({k \in first : k <= j}) = i]]

\* Fault: the attestations are hashed in the order the sidecar sent them.
aggregateUnsorted(atts) ==
    IF atts = <<>> THEN EmptyRoot ELSE digest(dedupeOracleAttestationsBySourceID(atts))

aggregateAttestationRoot(atts) ==
    IF atts = <<>> THEN EmptyRoot
    ELSE digest(dedupeOracleAttestationsBySourceID(sortOracleAttestations(atts)))

ASSUME DigestAssumption ==
    \A r \in Reports :
        r.atts # <<>> => aggregateAttestationRoot(r.atts) \in Nat \ {EmptyRoot}

-----------------------------------------------------------------------------
(* Voting *)

Exts ==
    [chain : ChainId, root : Nat, atts : {r.atts : r \in Reports} \cup {<<>>}] \cup {NoExt}

Best   == [root : Nat, power : Int]
NoBest == [root |-> EmptyRoot, power |-> -1]
Row    == [root : Nat, count : 1..Cardinality(Val)]

\* The state has the shape of the module's store and of a commit.
VotesTyped ==
    /\ enabledChains \subseteq ChainId
    /\ DOMAIN ext \subseteq Val /\ \A v \in DOMAIN ext : ext[v] \in Exts
    /\ commit = <<>> \/ (DOMAIN commit = Val /\ \A v \in Val : commit[v] \in Exts)
    /\ stage \in {"vote", "process"}
    /\ done \subseteq Replica
    /\ \A r \in Replica :
          /\ todo[r] \subseteq ChainId \X Nat
          /\ winners[r] \in Seq(ChainId) /\ calls[r] \in Seq(ChainId)
          /\ \A ch \in ChainId : best[r][ch] \in Best /\ rows[r][ch] \in Row \cup {NoRoot}

EachReplica(x) == [r \in Replica |-> x]

VotesInit ==
    /\ enabledChains \in SUBSET ChainId
    /\ ext = <<>> /\ commit = <<>> /\ stage = "vote" /\ done = {}
    /\ todo = EachReplica({}) /\ winners = EachReplica(<<>>) /\ calls = EachReplica(<<>>)
    /\ best = EachReplica([ch \in ChainId |-> NoBest])
    /\ rows = EachReplica([ch \in ChainId |-> NoRoot])

\* On any error (no attestations, an advisory root that differs) the extension is empty.
fetchSidecar(report) ==
    LET root == aggregateAttestationRoot(report.atts) IN
    IF report.atts = <<>> \/ report.root \notin {EmptyRoot, root} THEN NoExt
    ELSE [chain |-> report.chain, root |-> root, atts |-> report.atts]

Vote(v, x) ==
    /\ stage = "vote" /\ v \notin DOMAIN ext
    /\ ext' = [w \in DOMAIN ext \cup {v} |-> IF w = v THEN x ELSE ext[w]]
    /\ UNCHANGED <<enabledChains, commit, stage, tally, store>>

\* No sidecar is configured, or it does not answer.
ExtendVoteEmpty(v) == Vote(v, NoExt)

ExtendVote(v, report) == v \notin Legacy /\ Vote(v, fetchSidecar(report))

\* An older node: the root its sidecar sent, and no attestations.
ExtendLegacyVote(v, ch, root) ==
    v \in Legacy /\ Vote(v, [chain |-> ch, root |-> root, atts |-> <<>>])

verifyOracleAttestations(atts) == \A i \in DOMAIN atts : atts[i][1] \in Registered

\* Fault: the chain is not looked up.
VerifyAnyChain(x) ==
    x # NoExt =>
       /\ verifyOracleAttestations(x.atts)
       /\ x.atts # <<>> /\ x.root # EmptyRoot => x.root = aggregateAttestationRoot(x.atts)

VerifyVoteExtension(x) ==
    x # NoExt =>
       /\ x.chain \in enabledChains
       /\ verifyOracleAttestations(x.atts)
       /\ x.atts # <<>> /\ x.root # EmptyRoot => x.root = aggregateAttestationRoot(x.atts)

-----------------------------------------------------------------------------
(* The next block *)

PowerOf(S) == SumFunctionOnSet(Power, S)

Extended(c) == {v \in DOMAIN c : c[v] # NoExt}

RootsIn(c) == {<<c[v].chain, c[v].root>> : v \in Extended(c)}

\* The votes of S; absent validators are listed with an empty extension.
LocalLastCommit(S) == [v \in Val |-> IF v \in S THEN ext[v] ELSE NoExt]

\* Proposer p has the votes of S, more than two thirds.  A vote whose extension does
\* not verify is not among them, but p's own is never verified.  ProcessProposal
\* accepts every well-formed commit.
PrepareProposal(p, S) ==
    LET c == LocalLastCommit(S) IN
    /\ stage = "vote" /\ S \subseteq DOMAIN ext
    /\ \A v \in S \ {p} : VerifyVoteExtension(ext[v])
    /\ 3 * PowerOf(S) > 2 * PowerOf(Val)
    /\ commit' = IF Extended(c) = {} THEN <<>> ELSE c
    /\ stage' = "process"
    /\ todo' = EachReplica(RootsIn(c))
    /\ UNCHANGED <<enabledChains, ext, best, winners, store>>

\* The votes do not make a commit: precommits are rejected with their extensions, and
\* the validators vote again in the next round.
NewRound ==
    /\ stage = "vote" /\ DOMAIN ext = Val
    /\ ext' = <<>>
    /\ UNCHANGED <<enabledChains, commit, stage, tally, store>>

\* Fault: only the power of the votes that carry an extension counts.
quorumOfExtended == (Numerator * PowerOf(Extended(commit))) \div Denominator

\* Every vote of the commit counts towards the total, empty and absent ones too.
quorumThreshold == (Numerator * PowerOf(Val)) \div Denominator

VotesFor(ch, root) == {v \in Extended(commit) : commit[v].chain = ch /\ commit[v].root = root}

\* More power, or the same and a smaller root; an empty bestRootHex means "none yet".
better(power, root, b) ==
    \/ power > b.power
    \/ power = b.power /\ (b.root = EmptyRoot \/ root < b.root)

isWinner(b) == b.power >= quorumThreshold

\* One turn of the inner loop.  The walk finishes a chain before it starts the next,
\* and the last root of a chain decides whether the chain has a winner.
VisitRoot(r, ch, root) ==
    LET power == PowerOf(VotesFor(ch, root))
        b     == IF power >= quorumThreshold /\ better(power, root, best[r][ch])
                 THEN [root |-> root, power |-> power] ELSE best[r][ch]
        left  == todo[r] \ {<<ch, root>>}
        last  == \A x \in left : x[1] # ch
    IN  /\ stage = "process" /\ <<ch, root>> \in todo[r]
        /\ \A x \in RootsIn(commit) \ todo[r] :
              x[1] = ch \/ \A y \in todo[r] : y[1] # x[1]
        /\ todo' = [todo EXCEPT ![r] = left]
        /\ best' = [best EXCEPT ![r][ch] = b]
        /\ winners' = IF last /\ isWinner(b)
                      THEN [winners EXCEPT ![r] = Append(@, ch)] ELSE winners
        /\ UNCHANGED <<enabledChains, ext, commit, stage, store>>

\* Fault: the winners are handled in the order of the walk.
winnersUnsorted(r) == winners[r]

sortedWinners(r) == Sorted(winners[r], <)

\* Every winner is written, then its callbacks are dispatched.
WriteRoots(r) ==
    /\ stage = "process" /\ r \notin done /\ todo[r] = {}
    /\ rows' = [rows EXCEPT ![r] = [ch \in ChainId |->
                  IF ch \in Range(winners[r])
                  THEN [root  |-> best[r][ch].root,
                        count |-> Cardinality(VotesFor(ch, best[r][ch].root))]
                  ELSE @[ch]]]
    /\ calls' = [calls EXCEPT ![r] = sortedWinners(r)]
    /\ done' = done \cup {r}
    /\ UNCHANGED <<enabledChains, ext, commit, stage, tally>>

\* The messages of the block, in which RegisterChain registers chains, enabled or
\* not, and overwrites them, and the next height.
NextHeight(new) ==
    /\ stage = "process" /\ done = Replica
    /\ enabledChains' = new
    /\ ext' = <<>> /\ commit' = <<>> /\ stage' = "vote" /\ done' = {}
    /\ winners' = EachReplica(<<>>) /\ calls' = EachReplica(<<>>)
    /\ best' = EachReplica([ch \in ChainId |-> NoBest])
    /\ UNCHANGED <<todo, rows>>

VotesNext ==
    \/ \E v \in Val :
          \/ ExtendVoteEmpty(v)
          \/ \E report \in Reports : ExtendVote(v, report)
          \/ \E ch \in ChainId, root \in LegacyRoots : ExtendLegacyVote(v, ch, root)
    \/ \E p \in Val, S \in SUBSET Val : PrepareProposal(p, S)
    \/ NewRound
    \/ \E r \in Replica :
          \/ \E x \in todo[r] : VisitRoot(r, x[1], x[2])
          \/ WriteRoots(r)
    \/ \E new \in SUBSET ChainId : NextHeight(new)

VotesSpec == VotesInit /\ [][VotesNext]_voteVars

-----------------------------------------------------------------------------
(* What the tally promises *)

\* Replicas that have processed a block hold the same roots and have called the
\* contracts in the same order, whatever order their maps were walked in
\* (ProcessVoteExtensions: "One root per (chain, algo): highest power, then lex
\* smaller hex", and the sorted winners).
ReplicasAgree ==
    \A r, s \in done : rows[r] = rows[s] /\ calls[r] = calls[s]

\* A chain gets a root from a block exactly when votes worth the quorum fraction of
\* the power of ALL validators, truncated, agree on one, and it is the root with the
\* most power and, among those, the smallest (ProcessVoteExtensions).
WinnerRule ==
    LET enough(n) == n >= (Numerator * PowerOf(Val)) \div Denominator
        power(x)  == PowerOf(VotesFor(x[1], x[2]))
        quorate   == {x \in RootsIn(commit) : enough(power(x))}
    IN  \A r \in done :
          /\ Range(calls[r]) = {x[1] : x \in quorate}
          /\ \A x \in quorate :
                LET root == rows[r][x[1]].root IN
                \/ power(<<x[1], root>>) > power(x)
                \/ power(<<x[1], root>>) = power(x) /\ root <= x[2]

\* Validators whose sidecars report the same attestations vote for the same root,
\* in whatever order, and however often, each sidecar lists them (aggregateAttestationRoot:
\* "Source order MUST NOT affect the digest").
SameSourcesSameRoot ==
    \A v, w \in Extended(ext) \ Legacy :
        Range(ext[v].atts) = Range(ext[w].atts) => ext[v].root = ext[w].root

\* The state has its type and, where no validator alone holds the quorum, a root
\* is confirmed only for a chain that was enabled when its votes were verified, and
\* with a vote all of whose sources are registered, although a proposer never
\* verifies its own extension and ProcessProposal looks at none
\* (VerifyVoteExtensionHandler).
ConfirmedVerified ==
    /\ VotesTyped
    /\ (\A v \in Val : Power[v] < quorumThreshold) =>
           \A r \in done : \A i \in DOMAIN calls[r] :
               LET ch == calls[r][i] IN
               /\ ch \in enabledChains
               /\ \E v \in VotesFor(ch, rows[r][ch].root) :
                     \A j \in DOMAIN commit[v].atts : commit[v].atts[j][1] \in Registered
=============================================================================
