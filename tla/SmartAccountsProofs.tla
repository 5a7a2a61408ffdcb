------------------------ MODULE SmartAccountsProofs ------------------------
(***************************************************************************)
(* Proofs about SmartAccounts, for any accounts, authenticators, messages  *)
(* and bounds: ids of authenticators are never reused, no sequence number  *)
(* lets a transaction take effect twice, messages take effect only if all  *)
(* of their authenticators agree before and after, whatever trees they     *)
(* are, and Track and the fee happen once and together.                    *)
(***************************************************************************)
EXTENDS SmartAccounts, FiniteSetTheorems, SequenceTheorems, InductionLemmas

\* The provers of each step, in this order: preparing a step for SMT takes long
\* in a module of this size, and most steps need no arithmetic.
USE ZenonT(3), SMTT(30), ZenonT(30)

\* A state, of whatever leaves were tracked or wrote.
IsState(s) ==
    /\ s = [rows |-> s.rows, nextId |-> s.nextId, active |-> s.active, seq |-> s.seq,
            fee |-> s.fee, tracked |-> s.tracked, done |-> s.done, confirmed |-> s.confirmed]
    /\ s.rows \subseteq Row /\ s.nextId \in Nat /\ s.seq \in [Account -> Nat]

\* The ids of a state's rows differ and were given out.
Fresh(s) ==
    /\ \A row \in s.rows : row.id < s.nextId
    /\ \A r1, r2 \in s.rows : r1.id = r2.id => r1 = r2

\* State u follows state s: its new rows have new ids.
Follows(s, u) ==
    /\ u.nextId >= s.nextId
    /\ \A row \in u.rows \ s.rows : s.nextId <= row.id /\ row.id < u.nextId
    /\ u.seq = s.seq

Executing == {"messages", "post", "end"}

Types ==
    /\ IsState(chain) /\ IsState(cache)
    /\ tx.msgs \in Seq(Message)
    /\ at \in Nat
    /\ phase \in {"idle", "classic", "ante", "over"} \cup Executing
    /\ used \subseteq Account \X Nat

Ids == Fresh(chain) /\ Fresh(cache) /\ Follows(chain, cache)

\* A message takes effect when the transaction ends, not earlier.
Done ==
    /\ chain.done # {} => phase = "over"
    /\ phase \in {"idle", "classic", "ante"} => cache.done = {}

\* The sequence numbers used are below those of the accounts, and those of a
\* transaction whose messages run are not used yet.
UsedBelow == \A u \in used : u[2] < chain.seq[u[1]]
Authenticated ==
    phase = "ante" =>
        \A i \in 1 .. Count : i < at => tx.seq[Signer(i)] = chain.seq[Signer(i)]
Running ==
    phase \in Executing =>
        \A a \in Signers : /\ tx.seq[a] \in Nat /\ tx.seq[a] < chain.seq[a]
                           /\ <<a, tx.seq[a]>> \notin used

Position ==
    /\ phase # "idle" => Count >= 1
    /\ phase \in {"classic", "messages"} => at \in 1 .. Count

\* The inductive invariant.
IInv == Types /\ Ids /\ Done /\ UsedBelow /\ Authenticated /\ Running /\ Position
-----------------------------------------------------------------------------
LEMMA SignersAreAccounts ==
    ASSUME tx.msgs \in Seq(Message)
    PROVE  /\ Signers \subseteq Account
           /\ \A i \in 1 .. Count : Signer(i) \in Account /\ Signer(i) \in Signers
           /\ \A i \in 1 .. Count : tx.msgs[i] \in Message
           /\ Count \in Nat
<1>1. Count \in Nat /\ \A i \in 1 .. Count : tx.msgs[i] \in Message
  BY ElementOfSeq, LenProperties DEF Count
<1>2. \A i \in 1 .. Count : Signer(i) \in Account
  BY <1>1, MessageAssumption DEF Signer
<1> QED
  BY <1>1, <1>2 DEF Signers

\* A message adds rows with new ids, and leaves sequence numbers alone.
LEMMA HandleFollows ==
    ASSUME NEW s, IsState(s), Fresh(s), NEW m \in Message, NEW u \in Handle(s, m)
    PROVE  IsState(u) /\ Fresh(u) /\ Follows(s, u) /\ u.done = s.done
<1>1. CASE m.do = "other"
  BY <1>1 DEF Handle, IsState, Follows
<1>2. CASE m.do = "add"
  <2> DEFINE row == [account |-> m.signer, id |-> s.nextId, tree |-> m.tree]
  <2>1. row \in Row
    BY <1>2, MessageAssumption DEF Row, IsState
  <2>2. u = [s EXCEPT !.rows = @ \cup {row}, !.nextId = @ + 1]
    BY <1>2 DEF Handle, AddAuthenticator
  <2>3. row.id = s.nextId
    OBVIOUS
  <2> HIDE DEF row
  <2>4. IsState(u) /\ u.rows = s.rows \cup {row} /\ u.nextId = s.nextId + 1
        /\ u.seq = s.seq /\ u.done = s.done
    <3>1. s.rows \cup {row} \in SUBSET Row /\ s.nextId + 1 \in Nat
      BY <2>1 DEF IsState
    <3> DEFINE rows == s.rows \cup {row}
               next == s.nextId + 1
    <3>2. u = [s EXCEPT !.rows = rows, !.nextId = next]
      BY <2>2 DEF IsState
    <3> HIDE DEF rows, next
    <3>3. ASSUME rows \in SUBSET Row, next \in Nat
          PROVE  IsState(u) /\ u.rows = rows /\ u.nextId = next
                 /\ u.seq = s.seq /\ u.done = s.done
      BY <3>2, <3>3, Zenon DEF IsState
    <3> QED BY <3>1, <3>3 DEF rows, next
  <2>5. \A r \in s.rows : r.id \in Nat /\ r.id < s.nextId
    BY DEF Fresh, IsState, Row
  <2>6. Fresh(u)
    <3>1. \A r \in u.rows : r.id < u.nextId
      BY <2>3, <2>4, <2>5 DEF IsState
    <3>2. \A r1, r2 \in u.rows : r1.id = r2.id => r1 = r2
      BY <2>3, <2>4, <2>5 DEF IsState, Fresh
    <3> QED BY <3>1, <3>2 DEF Fresh
  <2>7. Follows(s, u)
    BY <2>3, <2>4 DEF Follows, IsState
  <2> QED BY <2>4, <2>6, <2>7
<1>3. CASE m.do = "remove"
  <2>1. PICK row : u = [s EXCEPT !.rows = @ \ {row}]
    BY <1>3 DEF Handle, RemoveAuthenticator
  <2>2. IsState(u) /\ u.rows = s.rows \ {row} /\ u.nextId = s.nextId
        /\ u.seq = s.seq /\ u.done = s.done
    BY <2>1, Zenon DEF IsState
  <2> QED BY <2>2 DEF Fresh, Follows, IsState
<1>4. CASE m.do = "active"
  <2>1. u = [s EXCEPT !.active = m.to]
    BY <1>4 DEF Handle, SetActiveState
  <2>2. m.to \in BOOLEAN
    BY <1>4, MessageAssumption
  <2>3. IsState(u) /\ u.rows = s.rows /\ u.nextId = s.nextId
        /\ u.seq = s.seq /\ u.done = s.done
    BY <2>1, <2>2 DEF IsState
  <2> QED BY <2>3 DEF Fresh, Follows, IsState
<1> QED
  BY <1>1, <1>2, <1>3, <1>4, MessageAssumption

LEMMA FollowsItself ==
    ASSUME NEW s, IsState(s)
    PROVE  Follows(s, s)
BY DEF Follows, IsState

LEMMA FollowsTwice ==
    ASSUME NEW s, IsState(s), NEW u, IsState(u), NEW v, IsState(v),
           Follows(s, u), Follows(u, v)
    PROVE  Follows(s, v)
<1>1. \A r \in v.rows \cup u.rows : r.id \in Nat
  BY DEF IsState, Row
<1> QED
  BY <1>1 DEF Follows, IsState

\* Fields outside rows, nextId and seq do not matter to Ids.
LEMMA SameRows ==
    ASSUME NEW s, IsState(s), NEW u, IsState(u),
           u.rows = s.rows, u.nextId = s.nextId
    PROVE  Fresh(s) => Fresh(u)
BY DEF Fresh

LEMMA OtherField ==
    ASSUME NEW s, IsState(s), NEW w, NEW u,
           \/ u = [s EXCEPT !.tracked = w]
           \/ u = [s EXCEPT !.confirmed = w]
    PROVE  /\ IsState(u)
           /\ u.rows = s.rows /\ u.nextId = s.nextId
           /\ u.seq = s.seq /\ u.done = s.done
BY DEF IsState

LEMMA NewTxType ==
    ASSUME NEW s, IsState(s)
    PROVE  /\ IsState(NewTx(s))
           /\ NewTx(s).rows = s.rows /\ NewTx(s).nextId = s.nextId
           /\ NewTx(s).seq = s.seq /\ NewTx(s).done = {}
BY DEF NewTx, IsState

LEMMA DeductFeeType ==
    ASSUME NEW s, IsState(s)
    PROVE  /\ IsState(DeductFee(s))
           /\ DeductFee(s).rows = s.rows /\ DeductFee(s).nextId = s.nextId
           /\ DeductFee(s).seq = s.seq /\ DeductFee(s).done = s.done
BY DEF DeductFee, IsState

LEMMA IncrementType ==
    ASSUME NEW s, IsState(s)
    PROVE  /\ IsState(IncrementSequence(s))
           /\ IncrementSequence(s).rows = s.rows
           /\ IncrementSequence(s).nextId = s.nextId
           /\ IncrementSequence(s).done = s.done
           /\ \A a \in Account :
                 IncrementSequence(s).seq[a] = IF a \in Signers THEN s.seq[a] + 1 ELSE s.seq[a]
<1> DEFINE new == [a \in Account |-> IF a \in Signers THEN s.seq[a] + 1 ELSE s.seq[a]]
<1>1. new \in [Account -> Nat]
  BY DEF IsState
<1>2. IncrementSequence(s) = [s EXCEPT !.seq = new]
  BY DEF IncrementSequence, IsState
<1>3. \A a \in Account : new[a] = IF a \in Signers THEN s.seq[a] + 1 ELSE s.seq[a]
  OBVIOUS
<1> HIDE DEF new
<1>4. /\ IsState(IncrementSequence(s))
      /\ IncrementSequence(s).rows = s.rows
      /\ IncrementSequence(s).nextId = s.nextId
      /\ IncrementSequence(s).done = s.done
      /\ IncrementSequence(s).seq = new
  BY <1>1, <1>2 DEF IsState
<1> QED
  BY <1>3, <1>4

LEMMA InitIInv == Init => IInv
<1> SUFFICES ASSUME Init PROVE IInv
  OBVIOUS
<1>1. Cardinality(GenesisRows) \in Nat
  BY GenesisAssumption, FS_CardinalityType
<1>2. IsState(chain) /\ chain.rows = GenesisRows /\ chain.done = {}
      /\ chain.nextId = Cardinality(GenesisRows) + 1
  BY <1>1, GenesisAssumption DEF Init, IsState
<1>3. Types
  BY <1>2, EmptySeq DEF Init, Types, NoTx
<1>4. Fresh(chain)
  <2>1. \A r \in GenesisRows : r.id \in Nat /\ r.id <= Cardinality(GenesisRows)
    BY GenesisAssumption DEF Row
  <2> QED BY <1>1, <1>2, <2>1, GenesisAssumption DEF Fresh
<1>5. Ids
  BY <1>2, <1>4, FollowsItself DEF Init, Ids
<1> QED
  BY <1>2, <1>3, <1>5 DEF Init, IInv, Done, UsedBelow, Authenticated, Running, Executing, Position
-----------------------------------------------------------------------------
\* A step that leaves the chain, the cache and the used numbers alone, or swaps
\* the cache for the chain, keeps what IInv says of them.
LEMMA StateIInv ==
    ASSUME Types, Ids, UsedBelow, UNCHANGED <<chain, used>>,
           cache' = cache \/ cache' = chain
    PROVE  IsState(chain') /\ IsState(cache') /\ Ids' /\ UsedBelow'
BY FollowsItself DEF Types, Ids, UsedBelow

\* The ante handlers end: the sequence numbers the transaction gives were those
\* of its signers, and are not used; they are incremented.
LEMMA AnteEnds ==
    ASSUME IInv, NEW s, IsState(s),
           s.rows = cache.rows, s.nextId = cache.nextId, s.seq = cache.seq,
           s.done = {}, at' \in 1 .. Count,
           chain' = IncrementSequence(s), cache' = chain',
           phase' = "messages", UNCHANGED <<tx, used>>,
           \A a \in Signers : tx.seq[a] = chain.seq[a]
    PROVE  IInv'
<1> DEFINE new == IncrementSequence(s)
<1>1. IsState(new) /\ new.rows = s.rows /\ new.nextId = s.nextId /\ new.done = {}
      /\ \A a \in Account : new.seq[a] = IF a \in Signers THEN s.seq[a] + 1 ELSE s.seq[a]
  BY IncrementType
<1>2. chain' = new
  OBVIOUS
<1> HIDE DEF new
<1>3. Signers \subseteq Account
  BY SignersAreAccounts DEF IInv, Types
<1>4. \A a \in Account : s.seq[a] = chain.seq[a] /\ chain.seq[a] \in Nat
  BY DEF IInv, Types, Ids, Follows, IsState
<1>5. Types' /\ Done'
  BY <1>1, <1>2 DEF IInv, Types, Done, Executing
<1>6. Ids'
  <2>1. Fresh(new)
    BY <1>1, SameRows DEF IInv, Ids, Types, Fresh
  <2> QED BY <1>1, <1>2, <2>1, FollowsItself DEF Ids
<1>7. UsedBelow'
  <2> SUFFICES ASSUME NEW u \in used PROVE u[2] < chain'.seq[u[1]]
    BY DEF UsedBelow
  <2>1. u[1] \in Account /\ u[2] \in Nat /\ u[2] < chain.seq[u[1]]
    BY DEF IInv, Types, UsedBelow
  <2> QED BY <1>1, <1>2, <1>4, <2>1
<1>8. Running'
  <2>1. Signers' = Signers
    BY DEF Signers, Signer, Count
  <2> SUFFICES ASSUME NEW a \in Signers
               PROVE  /\ tx.seq[a] \in Nat /\ tx.seq[a] < chain'.seq[a]
                      /\ <<a, tx.seq[a]>> \notin used
    BY <2>1 DEF Running
  <2>2. tx.seq[a] = chain.seq[a] /\ chain.seq[a] \in Nat /\ chain'.seq[a] = chain.seq[a] + 1
    BY <1>1, <1>2, <1>3, <1>4
  <2>3. <<a, tx.seq[a]>> \notin used
    BY <2>2 DEF IInv, UsedBelow
  <2> QED BY <2>2, <2>3
<1>9. Authenticated' /\ Position'
  BY DEF Authenticated, Position, IInv, Types, Count
<1> QED
  BY <1>5, <1>6, <1>7, <1>8, <1>9 DEF IInv

\* While messages run, and after, nothing is written.
LEMMA Executes ==
    ASSUME IInv, phase \in Executing, phase' \in Executing, Types', Ids', Position',
           UNCHANGED <<chain, tx, used>>
    PROVE  IInv'
<1>1. Signers' = Signers
  BY DEF Signers, Signer, Count
<1>2. Running' /\ UsedBelow'
  BY <1>1 DEF IInv, Running, UsedBelow
<1>3. Done' /\ Authenticated'
  BY DEF IInv, Done, Authenticated, Executing
<1> QED
  BY <1>2, <1>3 DEF IInv

\* One step of the specification.
LEMMA NextIInv == IInv /\ [Next]_vars => IInv'
<1> SUFFICES ASSUME IInv, [Next]_vars PROVE IInv'
  OBVIOUS
<1> USE DEF IInv
<1>0. Signers \subseteq Account
      /\ (\A i \in 1 .. Count : Signer(i) \in Account /\ Signer(i) \in Signers)
      /\ (\A i \in 1 .. Count : tx.msgs[i] \in Message) /\ Count \in Nat
  BY SignersAreAccounts DEF Types
<1>1. CASE Activate
  <2>1. chain' = [chain EXCEPT !.active = TRUE] /\ cache' = chain'
    BY <1>1 DEF Activate, SetActiveState
  <2>2. IsState(chain') /\ chain'.rows = chain.rows /\ chain'.nextId = chain.nextId
        /\ chain'.seq = chain.seq /\ chain'.done = chain.done
    BY <2>1, Zenon DEF Types, IsState
  <2>3. Fresh(chain')
    BY <2>2, SameRows DEF Types, Ids
  <2>4. Ids'
    BY <2>1, <2>2, <2>3, FollowsItself DEF Ids
  <2>5. Types' /\ UsedBelow'
    BY <1>1, <2>1, <2>2 DEF Types, UsedBelow, Activate
  <2>6. Done' /\ Authenticated' /\ Running'
    BY <1>1, <2>1, <2>2 DEF Activate, Done, Authenticated, Running, Executing
  <2>7. Position'
    BY <1>1 DEF Activate, Position
  <2> QED BY <2>4, <2>5, <2>6, <2>7
<1>2. CASE BeginTx
  <2>1. tx'.msgs \in Seq(Message) /\ Len(tx'.msgs) \in Nat /\ Len(tx'.msgs) >= 1
    <3>1. PICK k \in 1 .. MaxMsgs : \E msgs \in [1 .. k -> Message] : tx'.msgs = msgs
      BY <1>2 DEF BeginTx
    <3>2. k \in Nat
      BY BoundsAssumption
    <3>3. tx'.msgs \in Seq(Message) /\ 1 \in DOMAIN tx'.msgs
      BY <3>1, <3>2, IsASeq
    <3>4. Len(tx'.msgs) \in Nat /\ 1 \in 1 .. Len(tx'.msgs)
      BY <3>3, LenProperties
    <3> QED BY <3>3, <3>4
  <2>2. IsState(chain') /\ IsState(cache') /\ Ids' /\ UsedBelow'
    <3>1. UNCHANGED <<chain, used>> /\ cache' = chain
      BY <1>2 DEF BeginTx
    <3> QED BY <3>1, StateIInv
  <2>3. phase' \in {"classic", "ante"} /\ at' = 1 /\ chain' = chain /\ cache' = chain
        /\ used' = used /\ phase = "idle"
    BY <1>2 DEF BeginTx
  <2>4. Types'
    BY <2>1, <2>2, <2>3 DEF Types
  <2>5. Done' /\ Running'
    BY <2>3 DEF Done, Running, Executing
  <2>6. Authenticated' /\ Position'
    BY <2>1, <2>3 DEF Authenticated, Position, Count
  <2> QED BY <2>2, <2>4, <2>5, <2>6
<1>3. CASE Reject
  <2>1. UNCHANGED <<chain, cache, tx, at, used>> /\ phase' = "over"
    BY <1>3 DEF Reject
  <2>2. IsState(chain') /\ IsState(cache') /\ Ids' /\ UsedBelow'
    BY <2>1, StateIInv
  <2>3. Types' /\ Done'
    BY <2>1, <2>2 DEF Types, Done
  <2>4. Authenticated' /\ Running' /\ Position'
    BY <1>3, <2>1 DEF Reject, Authenticated, Running, Executing, Position, Count
  <2> QED BY <2>2, <2>3, <2>4
<1>4. CASE ClassicAnte
  <2> DEFINE paid == DeductFee(cache)
  <2>1. IsState(paid) /\ paid.rows = cache.rows /\ paid.nextId = cache.nextId
        /\ paid.seq = cache.seq /\ paid.done = cache.done
    BY DeductFeeType DEF Types
  <2>2. chain' = IncrementSequence(paid) /\ cache' = chain'
        /\ phase = "classic" /\ phase' = "messages" /\ UNCHANGED <<tx, at, used>>
    BY <1>4 DEF ClassicAnte
  <2>3. \A a \in Signers : tx.seq[a] = chain.seq[a]
    <3>1. \A i \in 1 .. Count : tx.seq[Signer(i)] = cache.seq[Signer(i)]
      BY <1>4 DEF ClassicAnte, SequenceMatch
    <3> QED BY <3>1 DEF Signers, Ids, Follows
  <2>4. at' \in 1 .. Count
    BY <2>2 DEF Position
  <2> HIDE DEF paid
  <2> QED BY <2>1, <2>2, <2>3, <2>4, AnteEnds DEF Done
<1>5. CASE AuthenticateMessage
  <2>1. \/ chain' = DeductFee(cache) /\ cache' = chain'
        \/ UNCHANGED <<chain, cache>>
    BY <1>5 DEF AuthenticateMessage
  <2>2. phase = "ante" /\ at <= Count /\ at' = at + 1 /\ UNCHANGED <<tx, phase, used>>
        /\ tx.seq[Signer(at)] = cache.seq[Signer(at)]
    BY <1>5 DEF AuthenticateMessage, SequenceMatch
  <2>3. IsState(chain') /\ IsState(cache') /\ Ids' /\ chain'.seq = chain.seq
        /\ (chain.done = {} /\ cache.done = {} => chain'.done = {} /\ cache'.done = {})
    <3>1. CASE chain' = DeductFee(cache) /\ cache' = chain'
      <4>1. IsState(chain') /\ chain'.rows = cache.rows /\ chain'.nextId = cache.nextId
            /\ chain'.seq = cache.seq /\ chain'.done = cache.done
        BY <3>1, DeductFeeType DEF Types
      <4>2. Fresh(chain')
        BY <4>1, SameRows DEF Types, Ids
      <4> QED BY <3>1, <4>1, <4>2, FollowsItself DEF Ids, Follows
    <3>2. CASE UNCHANGED <<chain, cache>>
      BY <3>2 DEF Types, Ids
    <3> QED BY <2>1, <3>1, <3>2
  <2>4. Types'
    BY <2>2, <2>3 DEF Types
  <2>5. UsedBelow' /\ Done' /\ Running'
    BY <2>2, <2>3 DEF UsedBelow, Done, Running, Executing
  <2>6. Authenticated'
    <3>1. \A i \in 1 .. Count : i < at + 1 => tx.seq[Signer(i)] = chain.seq[Signer(i)]
      <4>1. tx.seq[Signer(at)] = chain.seq[Signer(at)]
        BY <2>2 DEF Ids, Follows
      <4>2. \A i \in 1 .. Count : i < at + 1 => i < at \/ i = at
        BY <1>0 DEF Types
      <4> QED BY <2>2, <4>1, <4>2 DEF Authenticated
    <3>2. Count' = Count /\ \A i : Signer(i)' = Signer(i)
      BY <2>2 DEF Count, Signer
    <3> QED BY <2>2, <2>3, <3>1, <3>2 DEF Authenticated
  <2>7. Position'
    BY <2>2 DEF Position, Count
  <2> QED BY <2>3, <2>4, <2>5, <2>6, <2>7
<1>6. CASE Track
  <2> DEFINE leaves == AllLeaves(tracks)
             told == [cache EXCEPT !.tracked = leaves]
  <2>1. IsState(told) /\ told.rows = cache.rows /\ told.nextId = cache.nextId
        /\ told.seq = cache.seq /\ told.done = cache.done
    <3> HIDE DEF leaves
    <3>1. IsState(cache)
      BY DEF Types
    <3> QED
      BY <3>1, OtherField
  <2>2. chain' = IncrementSequence(told) /\ cache' = chain'
        /\ phase = "ante" /\ phase' = "messages" /\ at > Count /\ at' = 1
        /\ UNCHANGED <<tx, used>>
    BY <1>6 DEF Track
  <2>3. \A a \in Signers : tx.seq[a] = chain.seq[a]
    BY <2>2, <1>0 DEF Authenticated, Signers, Types
  <2>4. at' \in 1 .. Count
    BY <1>0, <2>2 DEF Position
  <2> HIDE DEF told
  <2> QED BY <2>1, <2>2, <2>3, <2>4, AnteEnds DEF Done
<1>7. CASE RunMessage
  <2>1. PICK s \in Handle(cache, tx.msgs[at]) : cache' = [s EXCEPT !.done = @ \cup {at}]
    BY <1>7, Zenon DEF RunMessage
  <2>2. phase = "messages" /\ phase' \in {"messages", "post"}
        /\ (phase' = "messages" => at # Count /\ at' = at + 1) /\ at' \in {1, at + 1}
        /\ UNCHANGED <<chain, tx, used>>
    BY <1>7 DEF RunMessage
  <2>3. at \in 1 .. Count /\ tx.msgs[at] \in Message
    BY <1>0, <2>2 DEF Position
  <2>4. IsState(s) /\ Fresh(s) /\ Follows(cache, s)
    BY <2>3, HandleFollows DEF Types, Ids
  <2>5. IsState(cache') /\ cache'.rows = s.rows /\ cache'.nextId = s.nextId
        /\ cache'.seq = s.seq
    BY <2>1, <2>4 DEF IsState
  <2>6. Ids'
    <3>1. Fresh(cache')
      BY <2>4, <2>5, SameRows
    <3>2. Follows(chain, s)
      BY <2>4, FollowsTwice DEF Types, Ids
    <3>3. Follows(chain, cache')
      BY <2>5, <3>2 DEF Follows
    <3> QED BY <2>2, <3>1, <3>3 DEF Ids
  <2>7. Types'
    BY <2>2, <2>5 DEF Types, Executing
  <2>8. Position'
    BY <1>0, <2>2, <2>3 DEF Position, Count
  <2>9. phase \in Executing /\ phase' \in Executing
    BY <2>2 DEF Executing
  <2> QED BY <2>2, <2>6, <2>7, <2>8, <2>9, Executes
<1>8. CASE MessageFails \/ SkipPost \/ ConfirmMissing
  <2>1. phase \in Executing /\ phase' \in {"post", "end"} /\ at' \in Nat
        /\ UNCHANGED <<chain, cache, tx, used>>
    BY <1>8 DEF MessageFails, SkipPost, ConfirmMissing, Executing, Types
  <2>2. IsState(chain') /\ IsState(cache') /\ Ids'
    BY <2>1, StateIInv
  <2>3. Types' /\ Position'
    BY <2>1, <2>2 DEF Types, Executing, Position, Count
  <2> QED BY <2>1, <2>2, <2>3, Executes DEF Executing
<1>9. CASE ConfirmMessage
  <2>1. PICK w : cache' = [cache EXCEPT !.confirmed = w]
    BY <1>9, Zenon DEF ConfirmMessage
  <2>2. phase = "post" /\ phase' \in {"post", "end"} /\ at' = at + 1
        /\ UNCHANGED <<chain, tx, used>>
    BY <1>9 DEF ConfirmMessage
  <2>3. IsState(cache') /\ cache'.rows = cache.rows /\ cache'.nextId = cache.nextId
        /\ cache'.seq = cache.seq
    BY <2>1, OtherField, Zenon DEF Types
  <2>4. Ids'
    BY <2>2, <2>3, SameRows DEF Ids, Types, Follows
  <2>5. Types' /\ Position'
    BY <2>2, <2>3 DEF Types, Executing, Position, Count
  <2> QED BY <2>2, <2>4, <2>5, Executes DEF Executing
<1>10. CASE EndTx
  <2>1. phase = "end" /\ phase' = "over" /\ chain' \in {chain, cache}
        /\ UNCHANGED <<cache, tx, at>>
        /\ (used' = used \/ used' = used \cup {<<a, tx.seq[a]>> : a \in Signers})
    BY <1>10 DEF EndTx
  <2>2. chain'.seq = chain.seq
    BY <2>1 DEF Ids, Follows
  <2>3. Ids'
    BY <2>1, FollowsItself DEF Ids, Types
  <2>4. \A a \in Signers : tx.seq[a] \in Nat /\ tx.seq[a] < chain.seq[a]
    BY <2>1, Zenon DEF Running, Executing
  <2>5. used' \subseteq Account \X Nat
    BY <1>0, <2>1, <2>4 DEF Types
  <2>6. UsedBelow'
    <3> SUFFICES ASSUME NEW u \in used' PROVE u[2] < chain.seq[u[1]]
      BY <2>2 DEF UsedBelow
    <3>1. CASE u \in used
      BY <3>1 DEF UsedBelow
    <3>2. CASE u \notin used
      <4>1. PICK a \in Signers : u = <<a, tx.seq[a]>>
        BY <2>1, <3>2
      <4> QED BY <2>4, <4>1
    <3> QED BY <3>1, <3>2
  <2>7. Types'
    BY <2>1, <2>5 DEF Types
  <2>8. Done' /\ Authenticated' /\ Running' /\ Position'
    BY <2>1 DEF Done, Authenticated, Running, Executing, Position, Count
  <2> QED BY <2>3, <2>6, <2>7, <2>8
<1>11. CASE NextTx
  <2>1. chain' = NewTx(chain) /\ cache' = chain' /\ phase' = "idle" /\ at' = 0
        /\ used' = used /\ tx' = NoTx
    BY <1>11 DEF NextTx
  <2>2. IsState(chain') /\ chain'.rows = chain.rows /\ chain'.nextId = chain.nextId
        /\ chain'.seq = chain.seq /\ chain'.done = {}
    BY <2>1, NewTxType DEF Types
  <2>3. Ids'
    BY <2>1, <2>2, SameRows, FollowsItself DEF Ids, Types
  <2>4. Types' /\ UsedBelow'
    BY <2>1, <2>2, EmptySeq DEF Types, UsedBelow, NoTx
  <2> QED
    BY <2>1, <2>2, <2>3, <2>4 DEF Done, Authenticated, Running, Executing, Position
<1>12. CASE UNCHANGED vars
  <2>1. IsState(chain') /\ IsState(cache') /\ Ids' /\ UsedBelow'
    BY <1>12, StateIInv DEF vars
  <2>2. Signers' = Signers /\ Count' = Count /\ \A i : Signer(i)' = Signer(i)
    BY <1>12 DEF vars, Signers, Signer, Count
  <2> QED
    BY <1>12, <2>1, <2>2 DEF vars, Types, Done, Authenticated, Running, Position
<1> QED
  BY <1>1, <1>2, <1>3, <1>4, <1>5, <1>6, <1>7, <1>8, <1>9, <1>10, <1>11, <1>12 DEF Next

LEMMA Invariance == Spec => []IInv
BY InitIInv, NextIInv, PTL DEF Spec

\* A step keeps the rows of the chain or writes those of the cache.
LEMMA RowsWritten ==
    ASSUME IInv, [Next]_vars
    PROVE  \/ chain'.rows = chain.rows /\ chain'.nextId = chain.nextId
           \/ chain'.rows = cache.rows /\ chain'.nextId = cache.nextId
<1> USE DEF IInv, Types
<1>1. CASE Activate
  BY <1>1 DEF Activate, SetActiveState, IsState
<1>2. CASE BeginTx \/ Reject \/ RunMessage \/ MessageFails \/ SkipPost
           \/ ConfirmMessage \/ ConfirmMissing \/ UNCHANGED vars
  BY <1>2 DEF BeginTx, Reject, RunMessage, MessageFails, SkipPost,
              ConfirmMessage, ConfirmMissing, vars
<1>3. CASE ClassicAnte
  <2>1. chain' = IncrementSequence(DeductFee(cache))
    BY <1>3 DEF ClassicAnte
  <2> QED BY <2>1, DeductFeeType, IncrementType
<1>4. CASE AuthenticateMessage
  BY <1>4, DeductFeeType DEF AuthenticateMessage
<1>5. CASE Track
  <2>1. chain' = IncrementSequence([cache EXCEPT !.tracked = AllLeaves(tracks)])
    BY <1>5 DEF Track
  <2> DEFINE leaves == AllLeaves(tracks)
             told == [cache EXCEPT !.tracked = leaves]
  <2>2. IsState(told) /\ told.rows = cache.rows /\ told.nextId = cache.nextId
        /\ told.done = cache.done
    <3> HIDE DEF leaves
    <3>1. IsState(cache)
      OBVIOUS
    <3> HIDE DEF IInv, Types
    <3> QED
      BY <3>1, OtherField
  <2> HIDE DEF told
  <2>3. chain' = IncrementSequence(told)
    BY <2>1 DEF told
  <2> QED BY <2>1, <2>2, <2>3, IncrementType
<1>6. CASE EndTx
  BY <1>6 DEF EndTx
<1>7. CASE NextTx
  BY <1>7, NewTxType DEF NextTx
<1> QED
  BY <1>1, <1>2, <1>3, <1>4, <1>5, <1>6, <1>7 DEF Next

\* Messages take effect only when a transaction ends.
LEMMA DoneAtTheEnd ==
    ASSUME IInv, [Next]_vars, chain.done = {}, chain'.done # {}
    PROVE  phase \in Executing
<1> USE DEF IInv, Types
<1>1. CASE Activate
  BY <1>1 DEF Activate, SetActiveState, IsState
<1>2. CASE BeginTx \/ Reject \/ RunMessage \/ MessageFails \/ SkipPost
           \/ ConfirmMessage \/ ConfirmMissing \/ UNCHANGED vars
  BY <1>2 DEF BeginTx, Reject, RunMessage, MessageFails, SkipPost,
              ConfirmMessage, ConfirmMissing, vars
<1>3. CASE ClassicAnte
  <2>1. phase = "classic" /\ chain' = IncrementSequence(DeductFee(cache))
    BY <1>3 DEF ClassicAnte
  <2> QED BY <2>1, DeductFeeType, IncrementType DEF Done
<1>4. CASE AuthenticateMessage
  BY <1>4, DeductFeeType DEF AuthenticateMessage, Done
<1>5. CASE Track
  <2>1. phase = "ante"
        /\ chain' = IncrementSequence([cache EXCEPT !.tracked = AllLeaves(tracks)])
    BY <1>5 DEF Track
  <2> DEFINE leaves == AllLeaves(tracks)
             told == [cache EXCEPT !.tracked = leaves]
  <2>2. IsState(told) /\ told.rows = cache.rows /\ told.nextId = cache.nextId
        /\ told.done = cache.done
    <3> HIDE DEF leaves
    <3>1. IsState(cache)
      OBVIOUS
    <3> HIDE DEF IInv, Types
    <3> QED
      BY <3>1, OtherField
  <2> HIDE DEF told
  <2>3. chain' = IncrementSequence(told)
    BY <2>1 DEF told
  <2> QED BY <2>1, <2>2, <2>3, IncrementType DEF Done
<1>6. CASE EndTx
  BY <1>6 DEF EndTx, Executing
<1>7. CASE NextTx
  BY <1>7, NewTxType DEF NextTx
<1> QED
  BY <1>1, <1>2, <1>3, <1>4, <1>5, <1>6, <1>7 DEF Next

\* The ids of authenticators are not reused (AddAuthenticator), for every set of
\* accounts, authenticators and messages.
THEOREM IdsAreNotReused == Spec => IdsNotReused
<1> DEFINE Step ==
      /\ chain'.nextId >= chain.nextId
      /\ \A row \in chain'.rows \ chain.rows : row.id \in chain.nextId .. chain'.nextId - 1
      /\ \A r1, r2 \in chain'.rows : r1.id = r2.id => r1 = r2
<1>1. IInv /\ [Next]_vars => Step
  <2> SUFFICES ASSUME IInv, [Next]_vars PROVE Step
    OBVIOUS
  <2>1. \A row \in cache.rows : row.id \in Nat
    BY DEF IInv, Types, IsState, Row
  <2>2. chain.nextId \in Nat /\ cache.nextId \in Nat
    BY DEF IInv, Types, IsState
  <2>3. CASE chain'.rows = chain.rows /\ chain'.nextId = chain.nextId
    BY <2>2, <2>3 DEF IInv, Ids, Fresh
  <2>4. CASE chain'.rows = cache.rows /\ chain'.nextId = cache.nextId
    BY <2>1, <2>2, <2>4 DEF IInv, Ids, Fresh, Follows
  <2> QED BY <2>3, <2>4, RowsWritten
<1> QED
  BY <1>1, Invariance, PTL DEF Spec, IdsNotReused

\* A sequence number that let a transaction take effect lets no other do so
\* (SequenceMatch and the classic ante handlers, IncrementSequence).
THEOREM NoTransactionTwice == Spec => NoReplay
<1> DEFINE Step ==
      chain.done = {} /\ chain'.done # {} =>
          \A a \in Signers : <<a, tx.seq[a]>> \notin used
<1>1. IInv /\ [Next]_vars => Step
  BY DoneAtTheEnd DEF IInv, Running
<1> QED
  BY <1>1, Invariance, PTL DEF Spec, NoReplay
-----------------------------------------------------------------------------
(***************************************************************************)
(* Authenticators.  Each recursion over a tree is shown to have a          *)
(* solution, and what it computes follows by induction: a least tree, or   *)
(* place in a tree, about which the claim fails is none.                   *)
(***************************************************************************)

\* A sub-authenticator is a smaller tree.
LEMMA SubTree ==
    ASSUME NEW t \in Tree, t.op # "leaf", NEW i \in 1 .. Len(t.subs)
    PROVE  /\ t.subs[i] \in Tree /\ Len(t.subs) \in Nat
           /\ Size[t] \in Nat /\ Size[t.subs[i]] \in Nat
           /\ Size[t.subs[i]] + Len(t.subs) <= Size[t]
<1>1. t.subs \in Seq(Tree)
  BY TreeAssumption
<1>2. i \in DOMAIN t.subs /\ t.subs[i] \in Tree /\ Len(t.subs) \in Nat
  BY <1>1, LenProperties, ElementOfSeq
<1> QED
  BY <1>2, SizeAssumption

\* How far tree t is from its answer when its sub-authenticator i is next.
Rank(t, i) ==
    IF t.op = "leaf" THEN Size[t]
    ELSE IF i > Len(t.subs) THEN Size[t] - Len(t.subs)
    ELSE Size[t] + 1 - i

LEMMA RankNat ==
    ASSUME NEW t \in Tree, NEW i \in Nat \ {0}
    PROVE  Rank(t, i) \in Nat
<1>1. Size[t] \in Nat
  BY SizeAssumption
<1>2. CASE t.op # "leaf"
  <2>1. Len(t.subs) \in Nat /\ 1 \in 1 .. Len(t.subs)
    BY <1>2, TreeAssumption, LenProperties
  <2>2. Size[t.subs[1]] \in Nat /\ Size[t.subs[1]] + Len(t.subs) <= Size[t]
    BY <1>2, <2>1, SubTree
  <2> QED
    BY <1>1, <1>2, <2>1, <2>2 DEF Rank
<1> QED
  BY <1>1, <1>2 DEF Rank

LEMMA RankFalls ==
    ASSUME NEW t \in Tree, t.op # "leaf", NEW i \in 1 .. Len(t.subs)
    PROVE  Rank(t.subs[i], 1) < Rank(t, i) /\ Rank(t, i + 1) < Rank(t, i)
<1> DEFINE s == t.subs[i]
<1>1. /\ s \in Tree /\ Len(t.subs) \in Nat
      /\ Size[t] \in Nat /\ Size[s] \in Nat
      /\ Size[s] + Len(t.subs) <= Size[t]
  BY SubTree
<1>2. Rank(t, i) = Size[t] + 1 - i /\ Rank(t, i + 1) = Size[t] - i
  BY <1>1 DEF Rank
<1> HIDE DEF s
<1>3. Rank(s, 1) <= Size[s] /\ Rank(s, 1) \in Int
  <2>1. CASE s.op # "leaf"
    <3>1. Len(s.subs) \in Nat /\ Len(s.subs) > 1
      BY <1>1, <2>1, TreeAssumption, LenProperties
    <3> QED
      BY <1>1, <2>1, <3>1 DEF Rank
  <2> QED
    BY <1>1, <2>1 DEF Rank
<1> QED
  BY <1>1, <1>2, <1>3 DEF s

\* Paths.
LEMMA UnderPaths ==
    ASSUME NEW ok \in SUBSET Path, NEW i
    PROVE  Under(i, ok) \in SUBSET Path
BY HeadTailProperties DEF Under, Path

LEMMA PathOf ==
    ASSUME NEW i \in Nat, NEW p \in Path
    PROVE  <<i>> \o p \in Path /\ Append(p, i) \in Path /\ <<>> \in Path /\ <<i>> \in Path
BY DEF Path

\* The recursion equation of Leaves.
LeavesOf(g, t) ==
    IF t.op = "leaf" THEN {<<>>}
    ELSE UNION {{<<i>> \o p : p \in g[t.subs[i]]} : i \in DOMAIN t.subs}
LeavesTable(g) == g = [t \in Tree |-> LeavesOf(g, t)]

LeafOf(g, t, x) == \E i \in DOMAIN t.subs : \E p \in g[t.subs[i]] : x = <<i>> \o p

LEMMA InLeaves ==
    ASSUME NEW t \in Tree, t.op # "leaf", NEW g
    PROVE  \A x : x \in LeavesOf(g, t) <=> LeafOf(g, t, x)
<1> DEFINE D == DOMAIN t.subs
           At(i) == {<<i>> \o p : p \in g[t.subs[i]]}
<1>1. LeavesOf(g, t) = UNION {At(i) : i \in D}
  BY DEF LeavesOf
<1>2. \A x, i : x \in At(i) <=> \E p \in g[t.subs[i]] : x = <<i>> \o p
  OBVIOUS
<1> HIDE DEF D, At
<1>3. \A x : x \in LeavesOf(g, t) <=> \E i \in D : x \in At(i)
  BY <1>1
<1> QED
  BY <1>2, <1>3, Zenon DEF D, LeafOf

LEMMA LeavesLocal ==
    ASSUME NEW t \in Tree, NEW g, NEW h, \A s \in Tree : Size[s] < Size[t] => g[s] = h[s]
    PROVE  LeavesOf(g, t) = LeavesOf(h, t)
<1>1. CASE t.op # "leaf"
  <2>1. DOMAIN t.subs = 1 .. Len(t.subs) /\ Len(t.subs) \in Nat /\ Len(t.subs) > 1
    BY <1>1, TreeAssumption, LenProperties
  <2>2. \A i \in DOMAIN t.subs : g[t.subs[i]] = h[t.subs[i]]
    BY <1>1, <2>1, SubTree
  <2>3. \A x : LeafOf(g, t, x) <=> LeafOf(h, t, x)
    BY <2>2, Zenon DEF LeafOf
  <2>4. \A x : x \in LeavesOf(g, t) <=> x \in LeavesOf(h, t)
    BY <1>1, <2>3, InLeaves
  <2> QED
    BY <1>1, <2>4, Zenon DEF LeavesOf
<1> QED
  BY <1>1 DEF LeavesOf

LEMMA LeavesPaths ==
    ASSUME NEW t \in Tree, NEW g, \A s \in Tree : Size[s] < Size[t] => g[s] \in SUBSET Path
    PROVE  LeavesOf(g, t) \in SUBSET Path
<1>1. CASE t.op # "leaf"
  <2>1. DOMAIN t.subs = 1 .. Len(t.subs) /\ Len(t.subs) \in Nat /\ Len(t.subs) > 1
    BY <1>1, TreeAssumption, LenProperties
  <2>2. \A i \in DOMAIN t.subs : i \in Nat /\ g[t.subs[i]] \in SUBSET Path
    BY <1>1, <2>1, SubTree
  <2>3. \A x : LeafOf(g, t, x) => x \in Path
    BY <2>2, PathOf DEF LeafOf
  <2> QED
    BY <1>1, <2>3, InLeaves
<1> QED
  BY <1>1, PathOf, 0 \in Nat, <<>> \in Path DEF LeavesOf, Path

LEMMA LeavesDefined == LeavesTable(Leaves)
<1> DEFINE V == SUBSET Path
           F == [z \in Tree \X [Tree -> V] |-> LeavesOf(z[2], z[1])]
<1>1. Size \in [Tree -> Nat] /\ V # {}
  BY SizeAssumption
<1>2. \A t \in Tree : \A g \in [Tree -> V] : F[<<t, g>>] = LeavesOf(g, t)
  OBVIOUS
<1> HIDE DEF F
<1>3. \A t \in Tree : \A g \in [Tree -> V] : F[<<t, g>>] \in V
  <2> SUFFICES ASSUME NEW t \in Tree, NEW g \in [Tree -> V] PROVE LeavesOf(g, t) \in V
    BY <1>2, Zenon
  <2> QED
    BY LeavesPaths
<1>4. \A t \in Tree : \A g, h \in [Tree -> V] :
        (\A s \in Tree : Size[s] < Size[t] => g[s] = h[s]) => F[<<t, g>>] = F[<<t, h>>]
  <2> SUFFICES ASSUME NEW t \in Tree, NEW g \in [Tree -> V], NEW h \in [Tree -> V],
                      \A s \in Tree : Size[s] < Size[t] => g[s] = h[s]
               PROVE  LeavesOf(g, t) = LeavesOf(h, t)
    BY <1>2
  <2> QED
    BY LeavesLocal
<1> HIDE DEF V
<1>5. Computes(F, Tree, Size, V)
  BY <1>3, <1>4 DEF Computes
<1>6. PICK f \in [Tree -> V] : Solves(f, F, Tree)
  BY <1>1, <1>5, RecursiveFunction
<1>7. \A t \in Tree : f[t] = LeavesOf(f, t)
  BY <1>2, <1>6, Zenon DEF Solves
<1>8. LeavesTable(f)
  BY <1>6, <1>7 DEF LeavesTable
<1>9. Leaves = CHOOSE g : LeavesTable(g)
  BY DEF Leaves, LeavesTable, LeavesOf
<1> QED
  BY <1>8, <1>9

\* Leaves are named by paths.
LEMMA LeavesType == \A t \in Tree : Leaves[t] \in SUBSET Path
<1> DEFINE T == {Size[t] : t \in {s \in Tree : Leaves[s] \notin SUBSET Path}}
<1>1. ASSUME T # {} PROVE FALSE
  <2>1. T \in SUBSET Nat
    BY SizeAssumption
  <2>2. PICK n \in T : \A k \in T : n <= k
    <3> HIDE DEF T
    <3> QED BY <1>1, <2>1, LeastNatural
  <2>3. PICK t \in Tree : Leaves[t] \notin SUBSET Path /\ Size[t] = n
    BY <2>2
  <2>4. \A s \in Tree : Size[s] < Size[t] => Leaves[s] \in SUBSET Path
    BY <2>2, <2>3, SizeAssumption
  <2>5. Leaves[t] = LeavesOf(Leaves, t)
    BY LeavesDefined DEF LeavesTable
  <2> QED
    BY <2>3, <2>4, <2>5, LeavesPaths
<1> QED
  BY <1>1

\* The recursion equation of Holds.
Asked == Tree \X (SUBSET Path)

HoldsOf(g, x) ==
    LET t == x[1]  ok == x[2] IN
    IF t.op = "leaf" THEN <<>> \in ok
    ELSE IF t.op = "AllOf" THEN \A i \in DOMAIN t.subs : g[<<t.subs[i], Under(i, ok)>>]
    ELSE \E i \in DOMAIN t.subs : g[<<t.subs[i], Under(i, ok)>>]
HoldsTable(g) == g = [x \in Asked |-> HoldsOf(g, x)]

\* What a tree is asked of its sub-authenticators.
LEMMA SubAsked ==
    ASSUME NEW t \in Tree, t.op # "leaf", NEW ok \in SUBSET Path
    PROVE  /\ DOMAIN t.subs = 1 .. Len(t.subs) /\ Len(t.subs) \in Nat /\ Len(t.subs) > 1
           /\ \A i \in DOMAIN t.subs : /\ <<t.subs[i], Under(i, ok)>> \in Asked
                                       /\ Size[t.subs[i]] < Size[t]
<1>1. DOMAIN t.subs = 1 .. Len(t.subs) /\ Len(t.subs) \in Nat /\ Len(t.subs) > 1
  BY TreeAssumption, LenProperties
<1>2. \A i \in DOMAIN t.subs : t.subs[i] \in Tree /\ Size[t.subs[i]] < Size[t]
  BY <1>1, SubTree
<1> QED
  BY <1>1, <1>2, UnderPaths DEF Asked

LEMMA HoldsLocal ==
    ASSUME NEW t \in Tree, NEW ok \in SUBSET Path, NEW g, NEW h,
           \A y \in Asked : Size[y[1]] < Size[t] => g[y] = h[y]
    PROVE  HoldsOf(g, <<t, ok>>) = HoldsOf(h, <<t, ok>>)
<1>1. CASE t.op # "leaf"
  <2>2. \A i \in DOMAIN t.subs : g[<<t.subs[i], Under(i, ok)>>] = h[<<t.subs[i], Under(i, ok)>>]
    BY <1>1, SubAsked
  <2>3. t.op = "AllOf" \/ t.op = "AnyOf"
    BY <1>1, TreeAssumption
  <2> QED
    BY <2>2, <2>3, Zenon DEF HoldsOf
<1> QED
  BY <1>1, Zenon DEF HoldsOf

LEMMA HoldsBool ==
    ASSUME NEW t \in Tree, NEW ok \in SUBSET Path, NEW g
    PROVE  HoldsOf(g, <<t, ok>>) \in BOOLEAN
<1>1. t.op \in {"leaf", "AllOf", "AnyOf"}
  BY TreeAssumption
<1>2. CASE t.op = "leaf"
  <2>1. \A e, S : (e \in S) \in BOOLEAN
    OBVIOUS
  <2>2. HoldsOf(g, <<t, ok>>) = (<<>> \in ok)
    BY <1>2, Zenon DEF HoldsOf
  <2> QED
    BY <2>1, <2>2, Zenon
<1>3. CASE t.op = "AllOf"
  BY <1>3, Zenon DEF HoldsOf
<1>4. CASE t.op = "AnyOf"
  BY <1>4, Zenon DEF HoldsOf
<1> QED
  BY <1>1, <1>2, <1>3, <1>4

LEMMA HoldsDefined == HoldsTable(Holds)
<1> DEFINE V == BOOLEAN
           m == [x \in Asked |-> Size[x[1]]]
           F == [z \in Asked \X [Asked -> V] |-> HoldsOf(z[2], z[1])]
<1>1. m \in [Asked -> Nat] /\ V # {}
  BY SizeAssumption, Zenon DEF Asked
<1>2. \A x \in Asked : \A g \in [Asked -> V] : F[<<x, g>>] = HoldsOf(g, x)
  OBVIOUS
<1>3. \A x \in Asked : m[x] = Size[x[1]]
  OBVIOUS
<1>4. \A x \in Asked : \E t \in Tree, ok \in SUBSET Path : x = <<t, ok>>
  BY DEF Asked
<1> HIDE DEF F, m
<1>5. \A x \in Asked : \A g \in [Asked -> V] : F[<<x, g>>] \in V
  <2> SUFFICES ASSUME NEW x \in Asked, NEW g \in [Asked -> V] PROVE HoldsOf(g, x) \in V
    BY <1>2, Zenon
  <2> QED
    BY <1>4, HoldsBool
<1>6. \A x \in Asked : \A g, h \in [Asked -> V] :
        (\A s \in Asked : m[s] < m[x] => g[s] = h[s]) => F[<<x, g>>] = F[<<x, h>>]
  <2> SUFFICES ASSUME NEW x \in Asked, NEW g \in [Asked -> V], NEW h \in [Asked -> V],
                      \A y \in Asked : m[y] < m[x] => g[y] = h[y]
               PROVE  HoldsOf(g, x) = HoldsOf(h, x)
    BY <1>2
  <2>1. PICK t \in Tree, ok \in SUBSET Path : x = <<t, ok>>
    BY <1>4
  <2>2. \A y \in Asked : Size[y[1]] < Size[t] => g[y] = h[y]
    BY <1>3, <2>1
  <2> QED
    BY <2>1, <2>2, HoldsLocal
<1> HIDE DEF V
<1>7. Computes(F, Asked, m, V)
  BY <1>5, <1>6 DEF Computes
<1>8. PICK f \in [Asked -> V] : Solves(f, F, Asked)
  BY <1>1, <1>7, RecursiveFunction
<1>9. \A x \in Asked : f[x] = HoldsOf(f, x)
  BY <1>2, <1>8, Zenon DEF Solves
<1>10. HoldsTable(f)
  BY <1>8, <1>9 DEF HoldsTable
<1>11. Holds = CHOOSE g : HoldsTable(g)
  BY DEF Holds, HoldsTable, HoldsOf, Asked
<1> QED
  BY <1>10, <1>11

\* The recursion equation of Agreeing.
AgreeingOf(g, x) ==
    LET t == x[1]  ok == x[2] IN
    IF ~Holds[<<t, ok>>] THEN {}
    ELSE IF t.op = "leaf" THEN {<<>>}
    ELSE UNION {{<<i>> \o p : p \in g[<<t.subs[i], Under(i, ok)>>]} : i \in DOMAIN t.subs}
AgreeingTable(g) == g = [x \in Asked |-> AgreeingOf(g, x)]

AgreesIn(g, t, ok, x) ==
    \E i \in DOMAIN t.subs : \E p \in g[<<t.subs[i], Under(i, ok)>>] : x = <<i>> \o p

LEMMA InAgreeing ==
    ASSUME NEW t \in Tree, t.op # "leaf", NEW ok \in SUBSET Path, NEW g, Holds[<<t, ok>>]
    PROVE  \A x : x \in AgreeingOf(g, <<t, ok>>) <=> AgreesIn(g, t, ok, x)
<1> DEFINE D == DOMAIN t.subs
           At(i) == {<<i>> \o p : p \in g[<<t.subs[i], Under(i, ok)>>]}
<1>1. AgreeingOf(g, <<t, ok>>) = UNION {At(i) : i \in D}
  BY DEF AgreeingOf
<1>2. \A x, i : x \in At(i) <=> \E p \in g[<<t.subs[i], Under(i, ok)>>] : x = <<i>> \o p
  OBVIOUS
<1> HIDE DEF D, At
<1>3. \A x : x \in AgreeingOf(g, <<t, ok>>) <=> \E i \in D : x \in At(i)
  BY <1>1
<1> QED
  BY <1>2, <1>3, Zenon DEF D, AgreesIn

LEMMA AgreeingLocal ==
    ASSUME NEW t \in Tree, NEW ok \in SUBSET Path, NEW g, NEW h,
           \A y \in Asked : Size[y[1]] < Size[t] => g[y] = h[y]
    PROVE  AgreeingOf(g, <<t, ok>>) = AgreeingOf(h, <<t, ok>>)
<1>1. CASE t.op # "leaf" /\ Holds[<<t, ok>>]
  <2>1. \A i \in DOMAIN t.subs : g[<<t.subs[i], Under(i, ok)>>] = h[<<t.subs[i], Under(i, ok)>>]
    BY <1>1, SubAsked
  <2>2. \A x : AgreesIn(g, t, ok, x) <=> AgreesIn(h, t, ok, x)
    BY <2>1, Zenon DEF AgreesIn
  <2>3. \A x : x \in AgreeingOf(g, <<t, ok>>) <=> x \in AgreeingOf(h, <<t, ok>>)
    BY <1>1, <2>2, InAgreeing
  <2> QED
    BY <1>1, <2>3, Zenon DEF AgreeingOf
<1> QED
  BY <1>1 DEF AgreeingOf

LEMMA AgreeingPaths ==
    ASSUME NEW t \in Tree, NEW ok \in SUBSET Path, NEW g,
           \A y \in Asked : Size[y[1]] < Size[t] => g[y] \in SUBSET Path
    PROVE  AgreeingOf(g, <<t, ok>>) \in SUBSET Path
<1>1. CASE t.op # "leaf" /\ Holds[<<t, ok>>]
  <2>1. \A i \in DOMAIN t.subs : i \in Nat /\ g[<<t.subs[i], Under(i, ok)>>] \in SUBSET Path
    BY <1>1, SubAsked
  <2>2. \A x : AgreesIn(g, t, ok, x) => x \in Path
    BY <2>1, PathOf DEF AgreesIn
  <2> QED
    BY <1>1, <2>2, InAgreeing
<1> QED
  BY <1>1, <<>> \in Path, Zenon DEF AgreeingOf, Path

LEMMA AgreeingDefined == AgreeingTable(Agreeing)
<1> DEFINE V == SUBSET Path
           m == [x \in Asked |-> Size[x[1]]]
           F == [z \in Asked \X [Asked -> V] |-> AgreeingOf(z[2], z[1])]
<1>1. m \in [Asked -> Nat] /\ V # {}
  BY SizeAssumption DEF Asked
<1>2. \A x \in Asked : \A g \in [Asked -> V] : F[<<x, g>>] = AgreeingOf(g, x)
  OBVIOUS
<1>3. \A x \in Asked : m[x] = Size[x[1]]
  OBVIOUS
<1>4. \A x \in Asked : \E t \in Tree, ok \in SUBSET Path : x = <<t, ok>>
  BY DEF Asked
<1> HIDE DEF F, m
<1>5. \A x \in Asked : \A g \in [Asked -> V] : F[<<x, g>>] \in V
  <2> SUFFICES ASSUME NEW x \in Asked, NEW g \in [Asked -> V] PROVE AgreeingOf(g, x) \in V
    BY <1>2, Zenon
  <2> QED
    BY <1>4, AgreeingPaths
<1>6. \A x \in Asked : \A g, h \in [Asked -> V] :
        (\A s \in Asked : m[s] < m[x] => g[s] = h[s]) => F[<<x, g>>] = F[<<x, h>>]
  <2> SUFFICES ASSUME NEW x \in Asked, NEW g \in [Asked -> V], NEW h \in [Asked -> V],
                      \A y \in Asked : m[y] < m[x] => g[y] = h[y]
               PROVE  AgreeingOf(g, x) = AgreeingOf(h, x)
    BY <1>2
  <2>1. PICK t \in Tree, ok \in SUBSET Path : x = <<t, ok>>
    BY <1>4
  <2>2. \A y \in Asked : Size[y[1]] < Size[t] => g[y] = h[y]
    BY <1>3, <2>1
  <2> QED
    BY <2>1, <2>2, AgreeingLocal
<1> HIDE DEF V
<1>7. Computes(F, Asked, m, V)
  BY <1>5, <1>6 DEF Computes
<1>8. PICK f \in [Asked -> V] : Solves(f, F, Asked)
  BY <1>1, <1>7, RecursiveFunction
<1>9. \A x \in Asked : f[x] = AgreeingOf(f, x)
  BY <1>2, <1>8, Zenon DEF Solves
<1>10. AgreeingTable(f)
  BY <1>8, <1>9 DEF AgreeingTable
<1>11. Agreeing = CHOOSE g : AgreeingTable(g)
  BY DEF Agreeing, AgreeingTable, AgreeingOf, Asked
<1> QED
  BY <1>10, <1>11

LEMMA AgreeingType == \A x \in Asked : Agreeing[x] \in SUBSET Path
<1> DEFINE Odd == {x \in Asked : Agreeing[x] \notin SUBSET Path}
           Sizes == {Size[x[1]] : x \in Odd}
<1>1. \A x \in Asked : \E t \in Tree, ok \in SUBSET Path : x = <<t, ok>>
  BY DEF Asked
<1>2. \A x \in Asked : Size[x[1]] \in Nat
  BY <1>1, SizeAssumption
<1>3. ASSUME Odd # {} PROVE FALSE
  <2>1. Sizes \in SUBSET Nat /\ Sizes # {}
    BY <1>2, <1>3
  <2>2. \A y \in Odd : Size[y[1]] \in Sizes
    OBVIOUS
  <2>3. \A n \in Sizes : \E y \in Odd : n = Size[y[1]]
    OBVIOUS
  <2> HIDE DEF Sizes
  <2>4. PICK n \in Sizes : \A k \in Sizes : n <= k
    BY <2>1, LeastNatural
  <2>5. PICK x \in Odd : n = Size[x[1]]
    BY <2>3
  <2>6. PICK t \in Tree, ok \in SUBSET Path : x = <<t, ok>>
    BY <1>1
  <2>7. \A y \in Asked : Size[y[1]] < Size[t] => Agreeing[y] \in SUBSET Path
    <3> SUFFICES ASSUME NEW y \in Asked, Size[y[1]] < Size[t], y \in Odd PROVE FALSE
      OBVIOUS
    <3>1. n <= Size[y[1]] /\ n = Size[t]
      BY <2>2, <2>4, <2>5, <2>6
    <3> QED
      BY <1>2, <2>6, <3>1
  <2>8. AgreeingOf(Agreeing, x) \in SUBSET Path
    BY <2>6, <2>7, AgreeingPaths
  <2> QED
    BY <2>8, AgreeingDefined DEF AgreeingTable
<1> QED
  BY <1>3

\* The recursion equation of Authenticates.
Turn == Tree \X (SUBSET Path) \X (Nat \ {0})

AuthenticatesOf(g, x) ==
    LET t == x[1]  ok == x[2]  i == x[3] IN
    IF t.op = "leaf" THEN <<>> \in ok
    ELSE IF i > Len(t.subs) THEN t.op = "AllOf"
    ELSE LET sub == g[<<t.subs[i], Under(i, ok), 1>>]
         IN IF t.op = "AllOf" THEN sub /\ g[<<t, ok, i + 1>>]
                              ELSE sub \/ g[<<t, ok, i + 1>>]
AuthenticatesTable(g) == g = [x \in Turn |-> AuthenticatesOf(g, x)]

\* What is asked next has a smaller rank.
LEMMA NextTurn ==
    ASSUME NEW t \in Tree, t.op # "leaf", NEW ok \in SUBSET Path, NEW i \in Nat \ {0},
           ~ (i > Len(t.subs))
    PROVE  /\ <<t.subs[i], Under(i, ok), 1>> \in Turn /\ <<t, ok, i + 1>> \in Turn
           /\ Rank(t.subs[i], 1) < Rank(t, i) /\ Rank(t, i + 1) < Rank(t, i)
           /\ t.subs[i] \in Tree /\ Under(i, ok) \in SUBSET Path /\ i + 1 \in Nat \ {0}
           /\ i \in DOMAIN t.subs
<1>1. DOMAIN t.subs = 1 .. Len(t.subs) /\ Len(t.subs) \in Nat /\ i \in 1 .. Len(t.subs)
  BY SubAsked
<1>2. t.subs[i] \in Tree
  BY <1>1, SubTree
<1> QED
  BY <1>1, <1>2, RankFalls, UnderPaths DEF Turn

LEMMA AuthenticatesLocal ==
    ASSUME NEW t \in Tree, NEW ok \in SUBSET Path, NEW i \in Nat \ {0}, NEW g, NEW h,
           \A y \in Turn : Rank(y[1], y[3]) < Rank(t, i) => g[y] = h[y]
    PROVE  AuthenticatesOf(g, <<t, ok, i>>) = AuthenticatesOf(h, <<t, ok, i>>)
<1>1. CASE t.op # "leaf" /\ ~ (i > Len(t.subs))
  <2>1. /\ g[<<t.subs[i], Under(i, ok), 1>>] = h[<<t.subs[i], Under(i, ok), 1>>]
        /\ g[<<t, ok, i + 1>>] = h[<<t, ok, i + 1>>]
    BY <1>1, NextTurn
  <2> QED
    BY <2>1 DEF AuthenticatesOf
<1> QED
  BY <1>1 DEF AuthenticatesOf

LEMMA AuthenticatesBool ==
    ASSUME NEW x \in Turn, NEW g
    PROVE  AuthenticatesOf(g, x) \in BOOLEAN
<1>1. \A e, S : (e \in S) \in BOOLEAN
  OBVIOUS
<1>2. \A e, f : (e = f) \in BOOLEAN
  OBVIOUS
<1>3. \A e, f : (e /\ f) \in BOOLEAN /\ (e \/ f) \in BOOLEAN
  OBVIOUS
<1> QED
  BY <1>1, <1>2, <1>3, Zenon DEF AuthenticatesOf

LEMMA AuthenticatesDefined == AuthenticatesTable(Authenticates)
<1> DEFINE V == BOOLEAN
           m == [x \in Turn |-> Rank(x[1], x[3])]
           F == [z \in Turn \X [Turn -> V] |-> AuthenticatesOf(z[2], z[1])]
<1>1. m \in [Turn -> Nat] /\ V # {}
  BY RankNat, Zenon DEF Turn
<1>2. \A x \in Turn : \A g \in [Turn -> V] : F[<<x, g>>] = AuthenticatesOf(g, x)
  OBVIOUS
<1>3. \A x \in Turn : m[x] = Rank(x[1], x[3])
  OBVIOUS
<1>4. \A x \in Turn : \E t \in Tree, ok \in SUBSET Path, i \in Nat \ {0} : x = <<t, ok, i>>
  BY DEF Turn
<1> HIDE DEF F, m
<1>5. \A x \in Turn : \A g \in [Turn -> V] : F[<<x, g>>] \in V
  BY <1>2, AuthenticatesBool, Zenon
<1>6. \A x \in Turn : \A g, h \in [Turn -> V] :
        (\A s \in Turn : m[s] < m[x] => g[s] = h[s]) => F[<<x, g>>] = F[<<x, h>>]
  <2> SUFFICES ASSUME NEW x \in Turn, NEW g \in [Turn -> V], NEW h \in [Turn -> V],
                      \A y \in Turn : m[y] < m[x] => g[y] = h[y]
               PROVE  AuthenticatesOf(g, x) = AuthenticatesOf(h, x)
    BY <1>2
  <2>1. PICK t \in Tree, ok \in SUBSET Path, i \in Nat \ {0} : x = <<t, ok, i>>
    BY <1>4
  <2>2. \A y \in Turn : Rank(y[1], y[3]) < Rank(t, i) => g[y] = h[y]
    BY <1>3, <2>1
  <2> QED
    BY <2>1, <2>2, AuthenticatesLocal
<1> HIDE DEF V
<1>7. Computes(F, Turn, m, V)
  BY <1>5, <1>6 DEF Computes
<1>8. PICK f \in [Turn -> V] : Solves(f, F, Turn)
  BY <1>1, <1>7, RecursiveFunction
<1>9. \A x \in Turn : f[x] = AuthenticatesOf(f, x)
  BY <1>2, <1>8, Zenon DEF Solves
<1>10. AuthenticatesTable(f)
  BY <1>8, <1>9 DEF AuthenticatesTable
<1>11. Authenticates = CHOOSE g : AuthenticatesTable(g)
  BY DEF Authenticates, AuthenticatesTable, AuthenticatesOf, Turn
<1> QED
  BY <1>10, <1>11

\* The recursion equation of Confirms.
Confirming == Tree \X (SUBSET Path) \X (Nat \ {0}) \X Path \X (SUBSET Path)
Outcome == [ok : BOOLEAN, writes : SUBSET Path]

ConfirmsOf(g, x) ==
    LET t == x[1]  ok == x[2]  i == x[3]  p == x[4]  w == x[5] IN
    IF t.op = "leaf" THEN [ok |-> <<>> \in ok, writes |-> w \cup {p}]
    ELSE IF i > Len(t.subs) THEN [ok |-> t.op = "AllOf", writes |-> w]
    ELSE LET sub == g[<<t.subs[i], Under(i, ok), 1, Append(p, i), w>>]
         IN IF t.op = "AllOf"
            THEN IF sub.ok THEN g[<<t, ok, i + 1, p, sub.writes>>] ELSE sub
            ELSE IF sub.ok THEN sub ELSE g[<<t, ok, i + 1, p, w>>]
ConfirmsTable(g) == g = [x \in Confirming |-> ConfirmsOf(g, x)]

\* What is asked next has a smaller rank.
LEMMA NextStep ==
    ASSUME NEW t \in Tree, t.op # "leaf", NEW ok \in SUBSET Path, NEW i \in Nat \ {0},
           NEW p \in Path, NEW w \in SUBSET Path, ~ (i > Len(t.subs))
    PROVE  /\ <<t.subs[i], Under(i, ok), 1, Append(p, i), w>> \in Confirming
           /\ \A v \in SUBSET Path : <<t, ok, i + 1, p, v>> \in Confirming
           /\ Append(p, i) \in Path
           /\ Rank(t.subs[i], 1) < Rank(t, i) /\ Rank(t, i + 1) < Rank(t, i)
           /\ t.subs[i] \in Tree /\ Under(i, ok) \in SUBSET Path /\ i + 1 \in Nat \ {0}
           /\ i \in DOMAIN t.subs
<1>1. /\ Rank(t.subs[i], 1) < Rank(t, i) /\ Rank(t, i + 1) < Rank(t, i)
      /\ t.subs[i] \in Tree /\ Under(i, ok) \in SUBSET Path /\ i + 1 \in Nat \ {0}
      /\ i \in DOMAIN t.subs
  BY NextTurn, Zenon
<1>2. Append(p, i) \in Path
  BY PathOf, Zenon
<1>3. \A a \in Tree, b \in SUBSET Path, c \in Nat \ {0}, d \in Path, e \in SUBSET Path :
        <<a, b, c, d, e>> \in Confirming
  BY DEF Confirming
<1>4. 1 \in Nat \ {0}
  OBVIOUS
<1> QED
  BY <1>1, <1>2, <1>3, <1>4, Zenon

LEMMA ConfirmsLocal ==
    ASSUME NEW t \in Tree, NEW ok \in SUBSET Path, NEW i \in Nat \ {0},
           NEW p \in Path, NEW w \in SUBSET Path,
           NEW g \in [Confirming -> Outcome], NEW h \in [Confirming -> Outcome],
           \A y \in Confirming : Rank(y[1], y[3]) < Rank(t, i) => g[y] = h[y]
    PROVE  ConfirmsOf(g, <<t, ok, i, p, w>>) = ConfirmsOf(h, <<t, ok, i, p, w>>)
<1>1. CASE t.op # "leaf" /\ ~ (i > Len(t.subs))
  <2> DEFINE y == <<t.subs[i], Under(i, ok), 1, Append(p, i), w>>
             z(v) == <<t, ok, i + 1, p, v>>
             Of(f) == IF t.op = "AllOf" THEN IF f[y].ok THEN f[z(f[y].writes)] ELSE f[y]
                      ELSE IF f[y].ok THEN f[y] ELSE f[z(w)]
  <2>1. g[y] = h[y] /\ g[y] \in Outcome
    BY <1>1, NextStep, Zenon
  <2>2. \A v \in SUBSET Path : g[z(v)] = h[z(v)]
    BY <1>1, NextStep, Zenon
  <2>3. g[y].writes \in SUBSET Path
    BY <2>1, Zenon DEF Outcome
  <2>4. \A f : ConfirmsOf(f, <<t, ok, i, p, w>>) = Of(f)
    BY <1>1 DEF ConfirmsOf
  <2> HIDE DEF y, z
  <2>5. Of(g) = Of(h)
    BY <2>1, <2>2, <2>3
  <2> QED
    BY <2>4, <2>5
<1> QED
  BY <1>1, Zenon DEF ConfirmsOf

LEMMA ConfirmsOutcome ==
    ASSUME NEW t \in Tree, NEW ok \in SUBSET Path, NEW i \in Nat \ {0},
           NEW p \in Path, NEW w \in SUBSET Path, NEW g,
           \A y \in Confirming : Rank(y[1], y[3]) < Rank(t, i) => g[y] \in Outcome
    PROVE  ConfirmsOf(g, <<t, ok, i, p, w>>) \in Outcome
<1>1. CASE t.op = "leaf"
  <2>1. (<<>> \in ok) \in BOOLEAN
    OBVIOUS
  <2>2. [ok |-> <<>> \in ok, writes |-> w \cup {p}] \in Outcome
    BY <2>1 DEF Outcome
  <2> QED
    BY <1>1, <2>2 DEF ConfirmsOf
<1>2. CASE t.op # "leaf" /\ i > Len(t.subs)
  <2>1. (t.op = "AllOf") \in BOOLEAN
    OBVIOUS
  <2>2. [ok |-> t.op = "AllOf", writes |-> w] \in Outcome
    BY <2>1 DEF Outcome
  <2> QED
    BY <1>2, <2>2 DEF ConfirmsOf
<1>3. CASE t.op # "leaf" /\ ~ (i > Len(t.subs))
  <2> DEFINE y == <<t.subs[i], Under(i, ok), 1, Append(p, i), w>>
  <2>1. g[y] \in Outcome
    BY <1>3, NextStep, Zenon
  <2>2. g[y].writes \in SUBSET Path
    BY <2>1, Zenon DEF Outcome
  <2>3. \A v \in SUBSET Path : g[<<t, ok, i + 1, p, v>>] \in Outcome
    BY <1>3, NextStep, Zenon
  <2> QED
    BY <1>3, <2>1, <2>2, <2>3, Zenon DEF ConfirmsOf
<1> QED
  BY <1>1, <1>2, <1>3

LEMMA ConfirmsDefined == ConfirmsTable(Confirms) /\ Confirms \in [Confirming -> Outcome]
<1> DEFINE m == [x \in Confirming |-> Rank(x[1], x[3])]
           F == [z \in Confirming \X [Confirming -> Outcome] |-> ConfirmsOf(z[2], z[1])]
<1>1. m \in [Confirming -> Nat] /\ [ok |-> TRUE, writes |-> {}] \in Outcome
  BY RankNat DEF Confirming, Outcome
<1>2. \A x \in Confirming : \A g \in [Confirming -> Outcome] : F[<<x, g>>] = ConfirmsOf(g, x)
  OBVIOUS
<1>3. \A x \in Confirming : m[x] = Rank(x[1], x[3])
  OBVIOUS
<1>4. \A x \in Confirming : \E t \in Tree, ok \in SUBSET Path, i \in Nat \ {0}, p \in Path, w \in SUBSET Path :
                         x = <<t, ok, i, p, w>>
  BY DEF Confirming
<1> HIDE DEF F, m
<1>5. \A x \in Confirming : \A g \in [Confirming -> Outcome] : F[<<x, g>>] \in Outcome
  <2> SUFFICES ASSUME NEW x \in Confirming, NEW g \in [Confirming -> Outcome]
               PROVE  ConfirmsOf(g, x) \in Outcome
    BY <1>2, Zenon
  <2>1. PICK t \in Tree, ok \in SUBSET Path, i \in Nat \ {0}, p \in Path, w \in SUBSET Path :
             x = <<t, ok, i, p, w>>
    BY <1>4
  <2>2. \A y \in Confirming : g[y] \in Outcome
    OBVIOUS
  <2> QED
    BY <2>1, <2>2, ConfirmsOutcome
<1>6. \A x \in Confirming : \A g, h \in [Confirming -> Outcome] :
        (\A s \in Confirming : m[s] < m[x] => g[s] = h[s]) => F[<<x, g>>] = F[<<x, h>>]
  <2> SUFFICES ASSUME NEW x \in Confirming, NEW g \in [Confirming -> Outcome], NEW h \in [Confirming -> Outcome],
                      \A y \in Confirming : m[y] < m[x] => g[y] = h[y]
               PROVE  ConfirmsOf(g, x) = ConfirmsOf(h, x)
    BY <1>2
  <2>1. PICK t \in Tree, ok \in SUBSET Path, i \in Nat \ {0}, p \in Path, w \in SUBSET Path :
             x = <<t, ok, i, p, w>>
    BY <1>4
  <2>2. \A y \in Confirming : Rank(y[1], y[3]) < Rank(t, i) => g[y] = h[y]
    BY <1>3, <2>1
  <2> QED
    BY <2>1, <2>2, ConfirmsLocal
<1>7. Computes(F, Confirming, m, Outcome)
  BY <1>5, <1>6 DEF Computes
<1>8. PICK f \in [Confirming -> Outcome] : Solves(f, F, Confirming)
  BY <1>1, <1>7, RecursiveFunction
<1>9. \A x \in Confirming : f[x] = ConfirmsOf(f, x)
  BY <1>2, <1>8, Zenon DEF Solves
<1>10. ConfirmsTable(f)
  BY <1>8, <1>9 DEF ConfirmsTable
<1>11. Confirms = CHOOSE g : ConfirmsTable(g)
  BY DEF Confirms, ConfirmsTable, ConfirmsOf, Confirming
<1>12. ConfirmsTable(Confirms)
  BY <1>10, <1>11
<1> DEFINE Odd == {x \in Confirming : Confirms[x] \notin Outcome}
           Ranks == {m[x] : x \in Odd}
<1>13. ASSUME Odd # {} PROVE FALSE
  <2>1. Ranks \in SUBSET Nat /\ Ranks # {}
    BY <1>1, <1>13
  <2> HIDE DEF Ranks
  <2>2. PICK n \in Ranks : \A k \in Ranks : n <= k
    BY <2>1, LeastNatural
  <2>3. PICK x \in Odd : n = m[x]
    BY <2>2 DEF Ranks
  <2>4. \A y \in Confirming : m[y] < m[x] => Confirms[y] \in Outcome
    <3> SUFFICES ASSUME NEW y \in Confirming, m[y] < m[x], y \in Odd PROVE FALSE
      OBVIOUS
    <3>1. m[x] <= m[y]
      BY <2>2, <2>3 DEF Ranks
    <3> QED
      BY <1>1, <3>1
  <2>5. PICK t \in Tree, ok \in SUBSET Path, i \in Nat \ {0}, p \in Path, w \in SUBSET Path :
             x = <<t, ok, i, p, w>>
    BY <1>4
  <2>6. \A y \in Confirming : Rank(y[1], y[3]) < Rank(t, i) => Confirms[y] \in Outcome
    BY <1>3, <2>4, <2>5
  <2>7. ConfirmsOf(Confirms, x) \in Outcome
    BY <2>5, <2>6, ConfirmsOutcome
  <2> QED
    BY <1>12, <2>7 DEF ConfirmsTable
<1> QED
  BY <1>12, <1>13 DEF ConfirmsTable

\* The answer that tree t owes when its sub-authenticator i is next.
HoldsFrom(t, ok, i) ==
    IF t.op = "leaf" THEN <<>> \in ok
    ELSE IF t.op = "AllOf"
         THEN \A j \in DOMAIN t.subs : j >= i => Holds[<<t.subs[j], Under(j, ok)>>]
         ELSE \E j \in DOMAIN t.subs : j >= i /\ Holds[<<t.subs[j], Under(j, ok)>>]

LEMMA HoldsWhole ==
    ASSUME NEW t \in Tree, NEW ok \in SUBSET Path
    PROVE  HoldsFrom(t, ok, 1) <=> Holds[<<t, ok>>]
<1>1. <<t, ok>> \in Asked
  BY DEF Asked
<1>2. Holds[<<t, ok>>] = HoldsOf(Holds, <<t, ok>>)
  BY <1>1, HoldsDefined DEF HoldsTable
<1>3. CASE t.op = "leaf"
  BY <1>2, <1>3, Zenon DEF HoldsOf, HoldsFrom
<1>4. CASE t.op # "leaf"
  <2>1. DOMAIN t.subs = 1 .. Len(t.subs) /\ Len(t.subs) \in Nat
    BY <1>4, SubAsked
  <2>2. \A j \in DOMAIN t.subs : j >= 1
    BY <2>1
  <2> QED
    BY <1>2, <1>4, <2>2 DEF HoldsOf, HoldsFrom
<1> QED
  BY <1>3, <1>4

\* If the next one answers yes and so do all (for AnyOf: or one of) those after it.
LEMMA HoldsNext ==
    ASSUME NEW t \in Tree, t.op # "leaf", NEW ok \in SUBSET Path, NEW i \in Nat \ {0},
           ~ (i > Len(t.subs))
    PROVE  LET sub == Holds[<<t.subs[i], Under(i, ok)>>] IN
           HoldsFrom(t, ok, i) <=> IF t.op = "AllOf" THEN sub /\ HoldsFrom(t, ok, i + 1)
                                                     ELSE sub \/ HoldsFrom(t, ok, i + 1)
<1>1. i \in DOMAIN t.subs /\ DOMAIN t.subs = 1 .. Len(t.subs) /\ Len(t.subs) \in Nat
  BY SubAsked
<1>2. \A j \in DOMAIN t.subs : j >= i <=> j = i \/ j >= i + 1
  BY <1>1
<1> QED
  BY <1>1, <1>2 DEF HoldsFrom

LEMMA HoldsPast ==
    ASSUME NEW t \in Tree, t.op # "leaf", NEW ok \in SUBSET Path, NEW i \in Nat \ {0},
           i > Len(t.subs)
    PROVE  HoldsFrom(t, ok, i) <=> t.op = "AllOf"
<1>1. DOMAIN t.subs = 1 .. Len(t.subs) /\ Len(t.subs) \in Nat
  BY SubAsked
<1>2. \A j \in DOMAIN t.subs : ~ (j >= i)
  BY <1>1
<1> QED
  BY <1>2, Zenon DEF HoldsFrom

LEMMA AuthenticatesHolds ==
    ASSUME NEW t \in Tree, NEW ok \in SUBSET Path, NEW i \in Nat \ {0}
    PROVE  Authenticates[<<t, ok, i>>] <=> HoldsFrom(t, ok, i)
<1> DEFINE Right(x) == Authenticates[x] <=> HoldsFrom(x[1], x[2], x[3])
           Odd == {x \in Turn : ~Right(x)}
           Ranks == {Rank(x[1], x[3]) : x \in Odd}
<1>1. \A x \in Turn : \E s \in Tree, o \in SUBSET Path, j \in Nat \ {0} : x = <<s, o, j>>
  BY DEF Turn
<1>2. \A x \in Turn : Rank(x[1], x[3]) \in Nat
  BY <1>1, RankNat
<1>3. ASSUME Odd # {} PROVE FALSE
  <2>1. Ranks \in SUBSET Nat /\ Ranks # {}
    BY <1>2, <1>3
  <2>2. \A y \in Odd : Rank(y[1], y[3]) \in Ranks
    OBVIOUS
  <2>3. \A n \in Ranks : \E y \in Odd : n = Rank(y[1], y[3])
    OBVIOUS
  <2> HIDE DEF Ranks
  <2>4. PICK n \in Ranks : \A k \in Ranks : n <= k
    BY <2>1, LeastNatural
  <2>5. PICK x \in Odd : n = Rank(x[1], x[3])
    BY <2>3
  <2>6. PICK s \in Tree, o \in SUBSET Path, j \in Nat \ {0} : x = <<s, o, j>>
    BY <1>1
  <2>7. \A y \in Turn : Rank(y[1], y[3]) < Rank(s, j) => Right(y)
    <3> SUFFICES ASSUME NEW y \in Turn, Rank(y[1], y[3]) < Rank(s, j), ~Right(y) PROVE FALSE
      OBVIOUS
    <3>1. n <= Rank(y[1], y[3]) /\ n = Rank(s, j)
      BY <2>2, <2>4, <2>5, <2>6
    <3> QED
      BY <1>2, <2>6, <3>1
  <2>8. Authenticates[x] = AuthenticatesOf(Authenticates, x)
    BY AuthenticatesDefined DEF AuthenticatesTable
  <2>9. ~ (Authenticates[<<s, o, j>>] <=> HoldsFrom(s, o, j))
    BY <2>6
  <2>10. CASE s.op = "leaf"
    BY <2>6, <2>8, <2>9, <2>10, Zenon DEF AuthenticatesOf, HoldsFrom
  <2>11. CASE s.op # "leaf" /\ j > Len(s.subs)
    BY <2>6, <2>8, <2>9, <2>11, HoldsPast, Zenon DEF AuthenticatesOf
  <2>12. CASE s.op # "leaf" /\ ~ (j > Len(s.subs))
    <3> DEFINE y == <<s.subs[j], Under(j, o), 1>>
               z == <<s, o, j + 1>>
    <3>1. Right(y) /\ Right(z)
      BY <2>7, <2>12, NextTurn, Zenon
    <3>2. Authenticates[z] <=> HoldsFrom(s, o, j + 1)
      BY <3>1
    <3>3. Authenticates[y] <=> Holds[<<s.subs[j], Under(j, o)>>]
      BY <2>12, <3>1, NextTurn, HoldsWhole, Zenon
    <3>4. Authenticates[x] = IF s.op = "AllOf" THEN Authenticates[y] /\ Authenticates[z]
                                              ELSE Authenticates[y] \/ Authenticates[z]
      BY <2>6, <2>8, <2>12 DEF AuthenticatesOf
    <3> HIDE DEF y, z
    <3> QED
      BY <2>6, <2>9, <2>12, <3>2, <3>3, <3>4, HoldsNext, Zenon
  <2> QED
    BY <2>10, <2>11, <2>12
<1>4. <<t, ok, i>> \in Turn
  BY DEF Turn
<1> QED
  BY <1>3, <1>4

\* Authenticate of a tree answers what its leaves make it answer.
LEMMA AuthenticateHolds ==
    ASSUME NEW t \in Tree, NEW ok \in SUBSET Path
    PROVE  Authenticate(t, ok) <=> Holds[<<t, ok>>]
<1>1. 1 \in Nat \ {0}
  OBVIOUS
<1> QED
  BY <1>1, AuthenticatesHolds, HoldsWhole DEF Authenticate

\* Path x is that of a leaf of tree t, at path p, that agrees.
Agrees(t, ok, p, x) == \E q \in Agreeing[<<t, ok>>] : x = p \o q

\* What may have been written when tree t at path p, asked from its
\* sub-authenticator i on, has said yes.
Kept(t, ok, i, p, w, x) ==
    \/ x \in w
    \/ t.op = "leaf" /\ x = p
    \/ t.op # "leaf" /\ \E j \in DOMAIN t.subs : j >= i /\
          Agrees(t.subs[j], Under(j, ok), Append(p, j), x)

LEMMA KeptWhole ==
    ASSUME NEW t \in Tree, NEW ok \in SUBSET Path, NEW p \in Path, NEW w,
           Holds[<<t, ok>>], NEW x, Kept(t, ok, 1, p, w, x)
    PROVE  x \in w \/ Agrees(t, ok, p, x)
<1>1. <<t, ok>> \in Asked
  BY DEF Asked
<1>2. Agreeing[<<t, ok>>] = AgreeingOf(Agreeing, <<t, ok>>)
  BY <1>1, AgreeingDefined DEF AgreeingTable
<1>3. CASE t.op = "leaf"
  <2>1. <<>> \in Agreeing[<<t, ok>>]
    BY <1>2, <1>3 DEF AgreeingOf
  <2>2. p \o <<>> = p
    BY DEF Path
  <2> QED
    BY <1>3, <2>1, <2>2, Zenon DEF Kept, Agrees
<1>4. CASE t.op # "leaf" /\ x \notin w
  <2>1. PICK j \in DOMAIN t.subs : \E q \in Agreeing[<<t.subs[j], Under(j, ok)>>] : x = Append(p, j) \o q
    BY <1>4 DEF Kept, Agrees
  <2>2. PICK q \in Agreeing[<<t.subs[j], Under(j, ok)>>] : x = Append(p, j) \o q
    BY <2>1
  <2>3. j \in Nat /\ <<t.subs[j], Under(j, ok)>> \in Asked
    BY <1>4, SubAsked
  <2>4. q \in Path
    BY <2>3, AgreeingType
  <2>5. AgreesIn(Agreeing, t, ok, <<j>> \o q)
    BY Zenon DEF AgreesIn
  <2>6. <<j>> \o q \in Agreeing[<<t, ok>>]
    BY <1>2, <1>4, <2>5, InAgreeing
  <2>7. Append(p, j) \o q = p \o (<<j>> \o q)
    BY <2>3, <2>4 DEF Path
  <2> QED
    BY <2>2, <2>6, <2>7, Zenon DEF Agrees
<1> QED
  BY <1>3, <1>4

\* A step of the loop keeps what may be kept.
LEMMA KeptNext ==
    ASSUME NEW t \in Tree, t.op # "leaf", NEW ok \in SUBSET Path, NEW i \in Nat \ {0},
           NEW p \in Path, NEW w, NEW v, ~ (i > Len(t.subs)),
           \A x \in v : x \in w \/ Agrees(t.subs[i], Under(i, ok), Append(p, i), x)
    PROVE  /\ \A x \in v : Kept(t, ok, i, p, w, x)
           /\ \A x : Kept(t, ok, i + 1, p, v, x) => Kept(t, ok, i, p, w, x)
           /\ \A x : Kept(t, ok, i + 1, p, w, x) => Kept(t, ok, i, p, w, x)
<1>1. i \in DOMAIN t.subs /\ DOMAIN t.subs = 1 .. Len(t.subs) /\ Len(t.subs) \in Nat
  BY SubAsked
<1>2. \A j \in DOMAIN t.subs : j >= i <=> j = i \/ j >= i + 1
  BY <1>1
<1>3. \A x \in v : Kept(t, ok, i, p, w, x)
  BY <1>1, <1>2 DEF Kept
<1>4. \A x : Kept(t, ok, i + 1, p, w, x) => Kept(t, ok, i, p, w, x)
  BY <1>2 DEF Kept
<1>5. \A x : Kept(t, ok, i + 1, p, v, x) => Kept(t, ok, i, p, w, x)
  BY <1>2, <1>3 DEF Kept
<1> QED
  BY <1>3, <1>4, <1>5

\* A tree that confirms holds, and only leaves that agree have written.
Rightly(x) ==
    Confirms[x].ok => /\ HoldsFrom(x[1], x[2], x[3])
                      /\ \A e \in Confirms[x].writes : Kept(x[1], x[2], x[3], x[4], x[5], e)

LEMMA RightlySub ==
    ASSUME NEW t \in Tree, NEW ok \in SUBSET Path, NEW p \in Path, NEW w \in SUBSET Path,
           Rightly(<<t, ok, 1, p, w>>), Confirms[<<t, ok, 1, p, w>>].ok
    PROVE  /\ Holds[<<t, ok>>]
           /\ \A x \in Confirms[<<t, ok, 1, p, w>>].writes :
                 x \in w \/ Agrees(t, ok, p, x)
<1>1. HoldsFrom(t, ok, 1) /\ \A e \in Confirms[<<t, ok, 1, p, w>>].writes : Kept(t, ok, 1, p, w, e)
  BY DEF Rightly
<1>2. Holds[<<t, ok>>]
  BY <1>1, HoldsWhole
<1>3. \A e : Kept(t, ok, 1, p, w, e) => e \in w \/ Agrees(t, ok, p, e)
  BY <1>2, KeptWhole
<1> QED
  BY <1>1, <1>2, <1>3

LEMMA ConfirmsRightly ==
    ASSUME NEW s \in Tree, NEW o \in SUBSET Path, NEW j \in Nat \ {0},
           NEW p \in Path, NEW w \in SUBSET Path,
           \A y \in Confirming : Rank(y[1], y[3]) < Rank(s, j) => Rightly(y)
    PROVE  Rightly(<<s, o, j, p, w>>)
<1> DEFINE x == <<s, o, j, p, w>>
<1>1. x \in Confirming
  BY DEF Confirming
<1>2. Confirms[x] = ConfirmsOf(Confirms, x)
  BY <1>1, ConfirmsDefined DEF ConfirmsTable
<1>3. CASE s.op = "leaf"
  <2> DEFINE yes == <<>> \in o
  <2>1. Confirms[x] = [ok |-> yes, writes |-> w \cup {p}]
    BY <1>2, <1>3 DEF ConfirmsOf
  <2> HIDE DEF yes
  <2>2. Confirms[x].ok <=> yes
    BY <2>1
  <2>3. Confirms[x].writes = w \cup {p}
    BY <2>1
  <2> QED
    BY <1>3, <2>2, <2>3 DEF Rightly, HoldsFrom, Kept, yes
<1>4. CASE s.op # "leaf" /\ j > Len(s.subs)
  <2>1. Confirms[x] = [ok |-> s.op = "AllOf", writes |-> w]
    BY <1>2, <1>4 DEF ConfirmsOf
  <2>2. Confirms[x].ok <=> s.op = "AllOf"
    BY <2>1, \A a, b : [ok |-> a, writes |-> b].ok = a, Zenon
  <2>3. Confirms[x].writes = w
    BY <2>1
  <2> QED
    BY <1>4, <2>2, <2>3, HoldsPast DEF Rightly, Kept
<1>5. CASE s.op # "leaf" /\ ~ (j > Len(s.subs))
  <2> DEFINE u == s.subs[j]
             uok == Under(j, o)
             y == <<u, uok, 1, Append(p, j), w>>
             z(v) == <<s, o, j + 1, p, v>>
             sub == Confirms[y]
  <2>1. /\ y \in Confirming /\ u \in Tree /\ uok \in SUBSET Path /\ Append(p, j) \in Path
        /\ \A v \in SUBSET Path : z(v) \in Confirming
        /\ Rank(u, 1) < Rank(s, j) /\ Rank(s, j + 1) < Rank(s, j)
    BY <1>5, NextStep, Zenon
  <2>2. Rightly(y) /\ sub.writes \in SUBSET Path
    BY <2>1, ConfirmsDefined, Zenon DEF Outcome
  <2>3. ASSUME NEW v \in SUBSET Path, Confirms[z(v)].ok
        PROVE  HoldsFrom(s, o, j + 1) /\ \A e \in Confirms[z(v)].writes : Kept(s, o, j + 1, p, v, e)
    <3>1. Rightly(z(v))
      BY <2>1
    <3> QED
      BY <2>3, <3>1 DEF Rightly
  <2>4. Confirms[x] = IF s.op = "AllOf"
                      THEN IF sub.ok THEN Confirms[z(sub.writes)] ELSE sub
                      ELSE IF sub.ok THEN sub ELSE Confirms[z(w)]
    BY <1>2, <1>5 DEF ConfirmsOf
  <2>5. sub.ok => /\ Holds[<<u, uok>>]
                  /\ \A e \in sub.writes : e \in w \/ Agrees(u, uok, Append(p, j), e)
    <3> DEFINE pj == Append(p, j)
    <3> SUFFICES ASSUME sub.ok
                 PROVE  /\ Holds[<<u, uok>>]
                        /\ \A e \in sub.writes : e \in w \/ Agrees(u, uok, pj, e)
      BY Zenon
    <3>1. /\ u \in Tree /\ uok \in SUBSET Path /\ pj \in Path
          /\ Rightly(<<u, uok, 1, pj, w>>) /\ Confirms[<<u, uok, 1, pj, w>>].ok
      BY <2>1, <2>2
    <3>2. sub = Confirms[<<u, uok, 1, pj, w>>]
      OBVIOUS
    <3> HIDE DEF u, uok, pj, sub
    <3> QED
      BY <3>1, <3>2, RightlySub
  <2>6. sub.ok => /\ \A e \in sub.writes : Kept(s, o, j, p, w, e)
                  /\ \A e : Kept(s, o, j + 1, p, sub.writes, e) => Kept(s, o, j, p, w, e)
    BY <1>5, <2>5, KeptNext, Zenon
  <2>7. \A e : Kept(s, o, j + 1, p, w, e) => Kept(s, o, j, p, w, e)
    <3>1. \A e \in {} : e \in w \/ Agrees(u, uok, Append(p, j), e)
      OBVIOUS
    <3> QED
      BY <1>5, <3>1, KeptNext, Zenon
  <2>8. HoldsFrom(s, o, j) <=> IF s.op = "AllOf" THEN Holds[<<u, uok>>] /\ HoldsFrom(s, o, j + 1)
                                                ELSE Holds[<<u, uok>>] \/ HoldsFrom(s, o, j + 1)
    BY <1>5, HoldsNext
  <2> HIDE DEF sub, u, uok, z
  <2>9. Confirms[x].ok => HoldsFrom(s, o, j)
    BY <2>2, <2>3, <2>4, <2>5, <2>8
  <2>10. Confirms[x].ok => \A e \in Confirms[x].writes : Kept(s, o, j, p, w, e)
    BY <2>2, <2>3, <2>4, <2>6, <2>7
  <2> QED
    BY <2>9, <2>10 DEF Rightly
<1> QED
  BY <1>3, <1>4, <1>5

LEMMA ConfirmsAlways ==
    ASSUME NEW x \in Confirming
    PROVE  Rightly(x)
<1> DEFINE Odd == {y \in Confirming : ~Rightly(y)}
           Ranks == {Rank(y[1], y[3]) : y \in Odd}
<1>1. \A y \in Confirming : \E s \in Tree, o \in SUBSET Path, j \in Nat \ {0}, p \in Path, w \in SUBSET Path :
                         y = <<s, o, j, p, w>>
  BY DEF Confirming
<1>2. \A y \in Confirming : Rank(y[1], y[3]) \in Nat
  BY <1>1, RankNat
<1>3. ASSUME Odd # {} PROVE FALSE
  <2>1. Ranks \in SUBSET Nat /\ Ranks # {}
    BY <1>2, <1>3
  <2>2. \A y \in Odd : Rank(y[1], y[3]) \in Ranks
    OBVIOUS
  <2>3. \A n \in Ranks : \E y \in Odd : n = Rank(y[1], y[3])
    OBVIOUS
  <2> HIDE DEF Ranks
  <2>4. PICK n \in Ranks : \A k \in Ranks : n <= k
    BY <2>1, LeastNatural
  <2>5. PICK z \in Odd : n = Rank(z[1], z[3])
    BY <2>3
  <2>6. PICK s \in Tree, o \in SUBSET Path, j \in Nat \ {0}, p \in Path, w \in SUBSET Path :
             z = <<s, o, j, p, w>>
    BY <1>1
  <2>7. \A y \in Confirming : Rank(y[1], y[3]) < Rank(s, j) => Rightly(y)
    <3> SUFFICES ASSUME NEW y \in Confirming, Rank(y[1], y[3]) < Rank(s, j), ~Rightly(y) PROVE FALSE
      OBVIOUS
    <3>1. n <= Rank(y[1], y[3]) /\ n = Rank(s, j)
      BY <2>2, <2>4, <2>5, <2>6
    <3> QED
      BY <1>2, <2>6, <3>1
  <2>8. Rightly(z)
    BY <2>6, <2>7, ConfirmsRightly
  <2> QED
    BY <2>8
<1> QED
  BY <1>3
-----------------------------------------------------------------------------
(***************************************************************************)
(* The course of a transaction.                                            *)
(***************************************************************************)

\* The answers given make their trees answer yes.
Answered(answers) ==
    \A i \in DOMAIN answers : Holds[<<answers[i].tree, answers[i].ok>>]

\* The leaves, of authenticators that answered, that may keep what they wrote.
Written(answers) ==
    UNION {{<<i>> \o p : p \in Agreeing[<<answers[i].tree, answers[i].ok>>]} : i \in DOMAIN answers}

\* What a state records of the transaction has its type.
TypedRecord(s) ==
    /\ s.active \in BOOLEAN /\ s.fee \in Nat
    /\ s.tracked \in SUBSET Path /\ s.done \in SUBSET Nat /\ s.confirmed \in SUBSET Path

Records ==
    /\ TypedRecord(chain) /\ TypedRecord(cache)
    /\ tracks \in Seq(Answer) /\ votes \in Seq(Answer)
    /\ failed \in BOOLEAN

NoTrace(s) == s.tracked = {} /\ s.done = {} /\ s.confirmed = {}

\* Before the ante handlers, nothing is recorded.
Before ==
    phase \in {"idle", "classic"} =>
        /\ cache = chain /\ NoTrace(chain) /\ chain.fee = 0
        /\ tracks = <<>> /\ votes = <<>> /\ ~failed
        /\ at = IF phase = "idle" THEN 0 ELSE 1

\* While messages are authenticated, those before the next one have been, and
\* the fee is paid with the first.
Authenticating ==
    phase = "ante" =>
        /\ cache = chain /\ NoTrace(chain) /\ votes = <<>> /\ ~failed
        /\ at \in 1 .. Count + 1 /\ Len(tracks) = at - 1 /\ Answered(tracks)
        /\ chain.fee = IF tracks = <<>> THEN 0 ELSE 1

\* What the ante handlers wrote stays as it is until the transaction ends.
Committed ==
    phase \in Executing =>
        /\ chain.fee = 1 /\ cache.fee = 1
        /\ chain.tracked = AllLeaves(tracks) /\ cache.tracked = chain.tracked
        /\ tracks = <<>> \/ AllHold(tracks)
        /\ chain.done = {} /\ chain.confirmed = {}

\* The messages before the next one are executed.
InMessages ==
    phase = "messages" =>
        cache.done = 1 .. at - 1 /\ cache.confirmed = {} /\ votes = <<>> /\ ~failed

\* The messages before the next one are confirmed.
InPost ==
    phase = "post" =>
        /\ at \in 1 .. Count /\ Len(votes) = at - 1 /\ Answered(votes)
        /\ cache.confirmed \subseteq Written(votes)
        /\ ~failed => cache.done = 1 .. Count

\* All messages are confirmed, or one of them failed.
AtEnd ==
    phase = "end" =>
        /\ at \in 1 .. Count + 1 /\ Len(votes) <= Count
        /\ ~failed => /\ cache.done = 1 .. Count
                      /\ BreakActive(cache) \/ AllHold(votes)
                      /\ cache.confirmed \subseteq Written(votes)

AfterTx ==
    phase = "over" =>
        /\ at \in 1 .. Count + 1 /\ Len(tracks) <= Count /\ Len(votes) <= Count
        /\ ExecutedIfApproved /\ OnlyAgreeingWrote /\ TrackedTogether
        /\ chain.fee \in {0, 1}
        /\ chain.tracked # {} \/ chain.done # {} \/ tracks # <<>> => chain.fee = 1

\* The invariant of the course of a transaction.
Course ==
    /\ Records /\ Before /\ Authenticating /\ Committed
    /\ InMessages /\ InPost /\ AtEnd /\ AfterTx

LEMMA AnswerOf ==
    ASSUME NEW row \in Row, NEW ok \in SUBSET Leaves[row.tree]
    PROVE  /\ row.tree \in Tree /\ ok \in SUBSET Path
           /\ [tree |-> row.tree, ok |-> ok] \in Answer
<1>1. row.tree \in Tree
  BY DEF Row
<1>2. Leaves[row.tree] \in SUBSET Path
  BY <1>1, LeavesType
<1> QED
  BY <1>1, <1>2 DEF Answer

LEMMA AnswersIn ==
    ASSUME NEW answers \in Seq(Answer), NEW i \in DOMAIN answers
    PROVE  i \in Nat /\ answers[i].tree \in Tree /\ answers[i].ok \in SUBSET Path
<1>1. i \in 1 .. Len(answers) /\ Len(answers) \in Nat
  BY LenProperties
<1>2. answers[i] \in Answer
  BY <1>1, ElementOfSeq
<1> QED
  BY <1>1, <1>2 DEF Answer

LEMMA AllLeavesType ==
    ASSUME NEW answers \in Seq(Answer)
    PROVE  AllLeaves(answers) \in SUBSET Path
<1> DEFINE D == DOMAIN answers
           At(i) == {<<i>> \o p : p \in Leaves[answers[i].tree]}
<1>1. AllLeaves(answers) = UNION {At(i) : i \in D}
  BY DEF AllLeaves
<1>2. \A i \in D : At(i) \in SUBSET Path
  BY AnswersIn, LeavesType, PathOf, Zenon
<1> HIDE DEF At, D
<1> QED
  BY <1>1, <1>2

LEMMA NoLeaves == AllLeaves(<<>>) = {}
BY DEF AllLeaves

\* One more answer.
LEMMA AnswerMore ==
    ASSUME NEW answers \in Seq(Answer), NEW a \in Answer
    PROVE  /\ Append(answers, a) \in Seq(Answer)
           /\ Len(Append(answers, a)) = Len(answers) + 1
           /\ Append(answers, a) # <<>>
           /\ DOMAIN Append(answers, a) = DOMAIN answers \cup {Len(answers) + 1}
           /\ \A i \in DOMAIN answers : Append(answers, a)[i] = answers[i]
           /\ Append(answers, a)[Len(answers) + 1] = a
<1> DEFINE more == Append(answers, a)
<1>1. /\ more \in Seq(Answer) /\ more # <<>> /\ Len(more) = Len(answers) + 1
      /\ \A i \in 1 .. Len(answers) : more[i] = answers[i]
      /\ more[Len(answers) + 1] = a
  BY AppendProperties
<1>2. DOMAIN more = 1 .. Len(more) /\ DOMAIN answers = 1 .. Len(answers) /\ Len(answers) \in Nat
  BY <1>1, LenProperties
<1> HIDE DEF more
<1>3. DOMAIN more = DOMAIN answers \cup {Len(answers) + 1}
  BY <1>1, <1>2
<1> QED
  BY <1>1, <1>2, <1>3 DEF more

LEMMA AnsweredMore ==
    ASSUME NEW answers \in Seq(Answer), NEW a \in Answer,
           Answered(answers), Holds[<<a.tree, a.ok>>]
    PROVE  Answered(Append(answers, a))
<1> DEFINE more == Append(answers, a)
<1>1. /\ DOMAIN more = DOMAIN answers \cup {Len(answers) + 1}
      /\ \A i \in DOMAIN answers : more[i] = answers[i]
      /\ more[Len(answers) + 1] = a
  BY AnswerMore
<1> HIDE DEF more
<1>2. Answered(more)
  BY <1>1 DEF Answered
<1> QED
  BY <1>2 DEF more

LEMMA InWritten ==
    ASSUME NEW answers
    PROVE  \A x : x \in Written(answers) <=>
               \E i \in DOMAIN answers : Agrees(answers[i].tree, answers[i].ok, <<i>>, x)
<1> DEFINE D == DOMAIN answers
           At(i) == {<<i>> \o p : p \in Agreeing[<<answers[i].tree, answers[i].ok>>]}
<1>1. Written(answers) = UNION {At(i) : i \in D}
  BY DEF Written
<1>2. \A x, i : x \in At(i) <=> Agrees(answers[i].tree, answers[i].ok, <<i>>, x)
  BY DEF Agrees
<1> HIDE DEF At, D
<1>3. \A x : x \in Written(answers) <=> \E i \in D : x \in At(i)
  BY <1>1
<1> QED
  BY <1>2, <1>3, Zenon DEF D

LEMMA WrittenMore ==
    ASSUME NEW answers \in Seq(Answer), NEW a \in Answer, NEW x,
           x \in Written(answers) \/ Agrees(a.tree, a.ok, <<Len(answers) + 1>>, x)
    PROVE  x \in Written(Append(answers, a))
<1> DEFINE more == Append(answers, a)
           n == Len(answers) + 1
<1>1. /\ DOMAIN more = DOMAIN answers \cup {n}
      /\ \A i \in DOMAIN answers : more[i] = answers[i]
      /\ more[n] = a
  BY AnswerMore
<1> HIDE DEF more
<1>2. \E i \in DOMAIN more : Agrees(more[i].tree, more[i].ok, <<i>>, x)
  <2>1. CASE x \in Written(answers)
    <3>1. PICK i \in DOMAIN answers : Agrees(answers[i].tree, answers[i].ok, <<i>>, x)
      BY <2>1, InWritten
    <3>2. i \in DOMAIN more /\ more[i] = answers[i]
      BY <1>1
    <3> QED
      BY <3>1, <3>2
  <2>2. CASE Agrees(a.tree, a.ok, <<n>>, x)
    <3> HIDE DEF n
    <3> QED
      BY <1>1, <2>2
  <2> QED
    BY <2>1, <2>2
<1>3. x \in Written(more)
  BY <1>2, InWritten
<1> QED
  BY <1>3 DEF more

\* ConfirmExecution of the authenticator of message i.
LEMMA ConfirmExecutionRight ==
    ASSUME NEW t \in Tree, NEW ok \in SUBSET Path, NEW i \in Nat, NEW w \in SUBSET Path
    PROVE  LET result == ConfirmExecution(t, ok, i, w) IN
           /\ result.ok \in BOOLEAN /\ result.writes \in SUBSET Path
           /\ result.ok => /\ Holds[<<t, ok>>]
                           /\ \A x \in result.writes : x \in w \/ Agrees(t, ok, <<i>>, x)
<1> DEFINE p == <<i>>
           x == <<t, ok, 1, p, w>>
<1>1. p \in Path
  BY DEF Path
<1>2. ConfirmExecution(t, ok, i, w) = Confirms[x]
  BY DEF ConfirmExecution
<1> HIDE DEF p
<1>3. x \in Confirming
  BY <1>1 DEF Confirming
<1>4. Confirms[x] \in Outcome
  BY <1>3, ConfirmsDefined
<1>5. Confirms[x].ok \in BOOLEAN /\ Confirms[x].writes \in SUBSET Path
  BY <1>4 DEF Outcome
<1>6. Rightly(x)
  BY <1>3, ConfirmsAlways
<1>7. Confirms[x].ok => /\ Holds[<<t, ok>>]
                        /\ \A e \in Confirms[x].writes : e \in w \/ Agrees(t, ok, p, e)
  BY <1>1, <1>6, RightlySub
<1> QED
  BY <1>2, <1>5, <1>7 DEF p

\* What the handlers do to what a state records.
LEMMA DeductFeeRecord ==
    ASSUME NEW s, IsState(s), TypedRecord(s)
    PROVE  LET u == DeductFee(s) IN
           /\ TypedRecord(u) /\ u.fee = s.fee + 1
           /\ u.tracked = s.tracked /\ u.done = s.done /\ u.confirmed = s.confirmed
BY DEF DeductFee, IsState, TypedRecord

LEMMA IncrementRecord ==
    ASSUME NEW s, IsState(s), TypedRecord(s)
    PROVE  LET u == IncrementSequence(s) IN
           /\ TypedRecord(u) /\ u.fee = s.fee
           /\ u.tracked = s.tracked /\ u.done = s.done /\ u.confirmed = s.confirmed
<1> DEFINE new == [a \in Account |-> IF a \in Signers THEN s.seq[a] + 1 ELSE s.seq[a]]
<1>1. IncrementSequence(s) = [s EXCEPT !.seq = new]
  BY DEF IncrementSequence, IsState
<1> HIDE DEF new
<1> QED
  BY <1>1 DEF IsState, TypedRecord

LEMMA FieldRecord ==
    ASSUME NEW s, IsState(s), TypedRecord(s), NEW w \in SUBSET Path
    PROVE  /\ LET u == [s EXCEPT !.tracked = w] IN
              /\ TypedRecord(u) /\ u.fee = s.fee
              /\ u.tracked = w /\ u.done = s.done /\ u.confirmed = s.confirmed
           /\ LET u == [s EXCEPT !.confirmed = w] IN
              /\ TypedRecord(u) /\ u.fee = s.fee /\ u.active = s.active
              /\ u.tracked = s.tracked /\ u.done = s.done /\ u.confirmed = w
BY DEF IsState, TypedRecord

LEMMA HandleRecord ==
    ASSUME NEW s, IsState(s), TypedRecord(s), NEW m \in Message, NEW u \in Handle(s, m)
    PROVE  /\ TypedRecord(u) /\ u.fee = s.fee
           /\ u.tracked = s.tracked /\ u.done = s.done /\ u.confirmed = s.confirmed
<1>1. CASE m.do = "other"
  BY <1>1 DEF Handle
<1>2. CASE m.do = "add"
  <2>1. PICK rows, next : u = [s EXCEPT !.rows = rows, !.nextId = next]
    BY <1>2, Zenon DEF Handle, AddAuthenticator, IsState
  <2> QED
    BY <2>1 DEF IsState, TypedRecord
<1>3. CASE m.do = "remove"
  <2>1. PICK row : u = [s EXCEPT !.rows = @ \ {row}]
    BY <1>3 DEF Handle, RemoveAuthenticator
  <2> QED
    BY <2>1 DEF IsState, TypedRecord
<1>4. CASE m.do = "active"
  <2>1. u = [s EXCEPT !.active = m.to] /\ m.to \in BOOLEAN
    BY <1>4, MessageAssumption DEF Handle, SetActiveState
  <2> QED
    BY <2>1 DEF IsState, TypedRecord
<1> QED
  BY <1>1, <1>2, <1>3, <1>4, MessageAssumption

LEMMA DoneRecord ==
    ASSUME NEW s, IsState(s), TypedRecord(s), NEW n \in Nat
    PROVE  LET u == [s EXCEPT !.done = @ \cup {n}] IN
           /\ TypedRecord(u) /\ u.fee = s.fee
           /\ u.tracked = s.tracked /\ u.done = s.done \cup {n} /\ u.confirmed = s.confirmed
<1> DEFINE done == s.done \cup {n}
           u == [s EXCEPT !.done = done]
<1>1. done \in SUBSET Nat
  BY DEF TypedRecord
<1>2. u = [s EXCEPT !.done = @ \cup {n}]
  OBVIOUS
<1> HIDE DEF done
<1>3. /\ TypedRecord(u) /\ u.fee = s.fee
      /\ u.tracked = s.tracked /\ u.done = done /\ u.confirmed = s.confirmed
  BY <1>1 DEF IsState, TypedRecord
<1> QED
  BY <1>2, <1>3 DEF done

LEMMA NewTxRecord ==
    ASSUME NEW s, TypedRecord(s)
    PROVE  TypedRecord(NewTx(s)) /\ NoTrace(NewTx(s)) /\ NewTx(s).fee = 0
BY Zenon DEF NewTx, TypedRecord, NoTrace

LEMMA InitCourse == Init => Course
<1> SUFFICES ASSUME Init PROVE Course
  OBVIOUS
<1>1. /\ chain.fee = 0 /\ NoTrace(chain) /\ TypedRecord(chain)
      /\ cache = chain /\ phase = "idle" /\ at = 0 /\ tracks = <<>> /\ votes = <<>>
      /\ failed = FALSE
  BY DEF Init, NoTrace, TypedRecord
<1>2. Records /\ Before
  BY <1>1, EmptySeq, Zenon DEF Records, Before
<1> QED
  BY <1>1, <1>2 DEF Course, Authenticating, Committed, InMessages, InPost, AtEnd, AfterTx,
                    Executing

\* While messages run, and after, what the ante handlers wrote stays.
LEMMA CommittedStays ==
    ASSUME Committed, phase \in Executing, cache'.fee = cache.fee, cache'.tracked = cache.tracked,
           UNCHANGED <<chain, tx, tracks>>
    PROVE  Committed'
<1>1. AllHold(tracks) => AllHold(tracks)'
  BY DEF AllHold, Count
<1> QED
  BY <1>1 DEF Committed

\* What the steps use of IInv.
LEMMA CourseFacts ==
    ASSUME IInv, Records
    PROVE  /\ IsState(chain) /\ IsState(cache) /\ TypedRecord(chain) /\ TypedRecord(cache)
           /\ Count \in Nat /\ at \in Nat
           /\ \A i \in 1 .. Count : tx.msgs[i] \in Message
           /\ phase # "idle" => Count >= 1
BY SignersAreAccounts DEF IInv, Types, Records, Position

LEMMA ActivateCourse == IInv /\ Course /\ Activate => Course'
<1>a. SUFFICES ASSUME IInv, Course, Activate PROVE Course'
  OBVIOUS
<1>b. /\ Records /\ Before /\ Authenticating /\ Committed
      /\ InMessages /\ InPost /\ AtEnd /\ AfterTx
  BY <1>a DEF Course
<1>0. /\ IsState(chain) /\ IsState(cache) /\ TypedRecord(chain) /\ TypedRecord(cache)
      /\ Count \in Nat /\ at \in Nat
      /\ \A i \in 1 .. Count : tx.msgs[i] \in Message
      /\ phase # "idle" => Count >= 1
  BY <1>a, <1>b, CourseFacts
<1>1. /\ chain' = [chain EXCEPT !.active = TRUE] /\ cache' = chain'
      /\ phase = "idle" /\ UNCHANGED <<tx, phase, at, tracks, votes, failed, used>>
  BY <1>a DEF Activate, SetActiveState
<1>2. /\ TypedRecord(chain') /\ chain'.fee = chain.fee /\ chain'.tracked = chain.tracked
      /\ chain'.done = chain.done /\ chain'.confirmed = chain.confirmed
  BY <1>0, <1>1 DEF TypedRecord, IsState
<1>3. Records' /\ Before'
  BY <1>b, <1>1, <1>2 DEF Records, Before, NoTrace
<1> QED
  BY <1>1, <1>3 DEF Course, Authenticating, Committed, InMessages, InPost, AtEnd, AfterTx, Executing

LEMMA BeginTxCourse == IInv /\ Course /\ BeginTx => Course'
<1>a. SUFFICES ASSUME IInv, Course, BeginTx PROVE Course'
  OBVIOUS
<1>b. /\ Records /\ Before /\ Authenticating /\ Committed
      /\ InMessages /\ InPost /\ AtEnd /\ AfterTx
  BY <1>a DEF Course
<1>1. /\ phase = "idle" /\ phase' \in {"classic", "ante"} /\ at' = 1
      /\ cache' = chain /\ UNCHANGED <<chain, tracks, votes, failed, used>>
  BY <1>a DEF BeginTx
<1>2. /\ chain.fee = 0 /\ NoTrace(chain)
      /\ tracks = <<>> /\ votes = <<>> /\ ~failed
  BY <1>b, <1>1 DEF Before
<1>3. Records' /\ Before'
  BY <1>b, <1>1, <1>2 DEF Records, Before, NoTrace
<1>4. Count' \in Nat
  <2>1. tx'.msgs \in Seq(Message)
    BY <1>a, NextIInv DEF IInv, Types, Next
  <2> QED
    BY <2>1, LenProperties DEF Count
<1>5. Authenticating'
  <2>1. tracks' = <<>> /\ Len(tracks') = 0 /\ Answered(tracks)'
    BY <1>1, <1>2 DEF Answered
  <2>2. at' \in 1 .. Count' + 1 /\ Len(tracks') = at' - 1
    <3>1. PICK n \in Nat : n = Count'
      BY <1>4
    <3>2. 1 \in 1 .. n + 1 /\ 0 = 1 - 1
      OBVIOUS
    <3> QED
      BY <1>1, <2>1, <3>1, <3>2, Zenon
  <2>3. cache' = chain' /\ NoTrace(chain') /\ votes' = <<>> /\ ~failed'
        /\ chain'.fee = IF tracks' = <<>> THEN 0 ELSE 1
    BY <1>1, <1>2
  <2> QED
    BY <2>1, <2>2, <2>3 DEF Authenticating
<1> QED
  BY <1>1, <1>3, <1>5 DEF Course, Committed, InMessages, InPost, AtEnd, AfterTx, Executing

LEMMA RejectCourse == IInv /\ Course /\ Reject => Course'
<1>a. SUFFICES ASSUME IInv, Course, Reject PROVE Course'
  OBVIOUS
<1>b. /\ Records /\ Before /\ Authenticating /\ Committed
      /\ InMessages /\ InPost /\ AtEnd /\ AfterTx
  BY <1>a DEF Course
<1>0. /\ IsState(chain) /\ IsState(cache) /\ TypedRecord(chain) /\ TypedRecord(cache)
      /\ Count \in Nat /\ at \in Nat
      /\ \A i \in 1 .. Count : tx.msgs[i] \in Message
      /\ phase # "idle" => Count >= 1
  BY <1>a, <1>b, CourseFacts
<1>1. /\ phase \in {"classic", "ante"} /\ phase' = "over"
      /\ UNCHANGED <<chain, cache, tx, at, tracks, votes, failed, used>>
  BY <1>a DEF Reject
<1>2. /\ NoTrace(chain) /\ votes = <<>> /\ ~failed /\ chain.fee \in {0, 1}
      /\ tracks # <<>> => chain.fee = 1
      /\ at \in 1 .. Count + 1 /\ Len(tracks) <= Count
  <2>1. CASE phase = "classic"
    <3>1. Len(tracks) = 0
      BY <1>b, <2>1 DEF Before
    <3> QED
      BY <1>b, <1>0, <2>1, <3>1 DEF Before
  <2>2. CASE phase = "ante"
    BY <1>b, <1>0, <2>2 DEF Authenticating
  <2> QED
    BY <1>1, <2>1, <2>2
<1>3. Records'
  BY <1>b, <1>1 DEF Records
<1>4. AfterTx'
  <2>1. Count' = Count /\ Len(votes) = 0
    BY <1>1, <1>2 DEF Count
  <2>2. ExecutedIfApproved' /\ OnlyAgreeingWrote' /\ TrackedTogether'
    BY <1>1, <1>2 DEF ExecutedIfApproved, OnlyAgreeingWrote, TrackedTogether, NoTrace
  <2> QED
    BY <1>0, <1>1, <1>2, <2>1, <2>2 DEF AfterTx, NoTrace
<1> QED
  BY <1>1, <1>3, <1>4 DEF Course, Before, Authenticating, Committed, InMessages, InPost, AtEnd, Executing

LEMMA ClassicAnteCourse == IInv /\ Course /\ ClassicAnte => Course'
<1>a. SUFFICES ASSUME IInv, Course, ClassicAnte PROVE Course'
  OBVIOUS
<1>b. /\ Records /\ Before /\ Authenticating /\ Committed
      /\ InMessages /\ InPost /\ AtEnd /\ AfterTx
  BY <1>a DEF Course
<1>0. /\ IsState(chain) /\ IsState(cache) /\ TypedRecord(chain) /\ TypedRecord(cache)
      /\ Count \in Nat /\ at \in Nat
      /\ \A i \in 1 .. Count : tx.msgs[i] \in Message
      /\ phase # "idle" => Count >= 1
  BY <1>a, <1>b, CourseFacts
<1> DEFINE paid == DeductFee(cache)
<1>1. /\ phase = "classic" /\ phase' = "messages" /\ chain' = IncrementSequence(paid)
      /\ cache' = chain' /\ UNCHANGED <<tx, at, tracks, votes, failed, used>>
  BY <1>a DEF ClassicAnte
<1>2. cache = chain /\ NoTrace(chain) /\ chain.fee = 0 /\ tracks = <<>> /\ votes = <<>>
      /\ ~failed /\ at = 1
  BY <1>b, <1>1 DEF Before
<1>3. IsState(paid) /\ TypedRecord(paid) /\ paid.fee = 1 /\ NoTrace(paid)
  BY <1>0, <1>2, DeductFeeType, DeductFeeRecord DEF NoTrace
<1> HIDE DEF paid
<1>4. TypedRecord(chain') /\ chain'.fee = 1 /\ NoTrace(chain')
  BY <1>1, <1>3, IncrementRecord DEF NoTrace
<1>5. Records'
  BY <1>b, <1>1, <1>4 DEF Records
<1>6. Committed'
  BY <1>1, <1>2, <1>4, NoLeaves DEF Committed, NoTrace
<1>7. InMessages'
  BY <1>1, <1>2, <1>4 DEF InMessages, NoTrace
<1> QED
  BY <1>1, <1>5, <1>6, <1>7 DEF Course, Before, Authenticating, InPost, AtEnd, AfterTx

LEMMA AuthenticateMessageCourse == IInv /\ Course /\ AuthenticateMessage => Course'
<1>a. SUFFICES ASSUME IInv, Course, AuthenticateMessage PROVE Course'
  OBVIOUS
<1>b. /\ Records /\ Before /\ Authenticating /\ Committed
      /\ InMessages /\ InPost /\ AtEnd /\ AfterTx
  BY <1>a DEF Course
<1>0. /\ IsState(chain) /\ IsState(cache) /\ TypedRecord(chain) /\ TypedRecord(cache)
      /\ Count \in Nat /\ at \in Nat
      /\ \A i \in 1 .. Count : tx.msgs[i] \in Message
      /\ phase # "idle" => Count >= 1
  BY <1>a, <1>b, CourseFacts
<1>1. PICK row \in Selected(cache, at) : \E ok \in SUBSET Leaves[row.tree] :
           /\ Authenticate(row.tree, ok)
           /\ tracks' = Append(tracks, [tree |-> row.tree, ok |-> ok])
  BY <1>a, Zenon DEF AuthenticateMessage
<1>2. PICK ok \in SUBSET Leaves[row.tree] :
           /\ Authenticate(row.tree, ok)
           /\ tracks' = Append(tracks, [tree |-> row.tree, ok |-> ok])
  BY <1>1, Zenon
<1> DEFINE a == [tree |-> row.tree, ok |-> ok]
<1>3. row \in Row
  BY <1>0 DEF Selected, IsState
<1>4. a \in Answer /\ a.tree \in Tree /\ a.ok \in SUBSET Path /\ a.tree = row.tree /\ a.ok = ok
  BY <1>3, AnswerOf
<1>5. tracks' = Append(tracks, a) /\ Authenticate(a.tree, a.ok)
  BY <1>2
<1> HIDE DEF a
<1>6. Holds[<<a.tree, a.ok>>]
  BY <1>4, <1>5, AuthenticateHolds
<1>7. /\ phase = "ante" /\ at <= Count /\ at' = at + 1
      /\ UNCHANGED <<tx, phase, votes, failed, used>>
      /\ IF PaysFee(cache, at) THEN cache' = DeductFee(cache) /\ chain' = cache'
                               ELSE UNCHANGED <<chain, cache>>
  BY <1>a DEF AuthenticateMessage
<1>8. /\ cache = chain /\ NoTrace(chain) /\ votes = <<>> /\ ~failed
      /\ at \in 1 .. Count + 1 /\ Len(tracks) = at - 1 /\ Answered(tracks)
      /\ chain.fee = IF tracks = <<>> THEN 0 ELSE 1
      /\ tracks \in Seq(Answer)
  BY <1>b, <1>7 DEF Authenticating, Records
<1>9. chain' = cache' /\ NoTrace(chain') /\ chain'.fee = 1 /\ TypedRecord(chain')
  <2>1. CASE tracks = <<>>
    <3>1. at = 1
      BY <1>0, <1>8, <2>1
    <3>2. PaysFee(cache, at)
      BY <1>8, <2>1, <3>1 DEF PaysFee
    <3> QED
      BY <1>0, <1>7, <1>8, <2>1, <3>2, DeductFeeRecord DEF NoTrace
  <2>2. CASE tracks # <<>>
    <3>1. ~PaysFee(cache, at)
      BY <1>8, <2>2 DEF PaysFee
    <3> QED
      BY <1>0, <1>7, <1>8, <2>2, <3>1 DEF NoTrace
  <2> QED
    BY <2>1, <2>2
<1>10. /\ tracks' \in Seq(Answer) /\ Len(tracks') = Len(tracks) + 1 /\ tracks' # <<>>
       /\ Answered(tracks')
  BY <1>4, <1>5, <1>6, <1>8, AnswerMore, AnsweredMore
<1>11. Records'
  BY <1>b, <1>7, <1>9, <1>10 DEF Records
<1>12. Authenticating'
  <2>1. Count' = Count /\ at' \in 1 .. Count + 1 /\ Len(tracks') = at' - 1
    <3>1. Count' = Count
      BY <1>7 DEF Count
    <3>2. at + 1 \in 1 .. Count + 1 /\ Len(tracks) + 1 = (at + 1) - 1
      BY <1>0, <1>7, <1>8
    <3> QED
      BY <1>7, <1>10, <3>1, <3>2
  <2> QED
    BY <1>7, <1>8, <1>9, <1>10, <2>1 DEF Authenticating
<1> QED
  BY <1>7, <1>11, <1>12, Zenon DEF Course, Before, Committed, InMessages, InPost, AtEnd, AfterTx, Executing

LEMMA TrackCourse == IInv /\ Course /\ Track => Course'
<1>a. SUFFICES ASSUME IInv, Course, Track PROVE Course'
  OBVIOUS
<1>b. /\ Records /\ Before /\ Authenticating /\ Committed
      /\ InMessages /\ InPost /\ AtEnd /\ AfterTx
  BY <1>a DEF Course
<1>0. /\ IsState(chain) /\ IsState(cache) /\ TypedRecord(chain) /\ TypedRecord(cache)
      /\ Count \in Nat /\ at \in Nat
      /\ \A i \in 1 .. Count : tx.msgs[i] \in Message
      /\ phase # "idle" => Count >= 1
  BY <1>a, <1>b, CourseFacts
<1> DEFINE leaves == AllLeaves(tracks)
           told == [cache EXCEPT !.tracked = leaves]
<1>1. /\ phase = "ante" /\ phase' = "messages" /\ at > Count /\ at' = 1
      /\ chain' = IncrementSequence(told) /\ cache' = chain'
      /\ UNCHANGED <<tx, tracks, votes, failed, used>>
  BY <1>a DEF Track
<1>2. /\ cache = chain /\ NoTrace(chain) /\ votes = <<>> /\ ~failed
      /\ at \in 1 .. Count + 1 /\ Len(tracks) = at - 1 /\ Answered(tracks)
      /\ chain.fee = IF tracks = <<>> THEN 0 ELSE 1
      /\ tracks \in Seq(Answer)
  BY <1>b, <1>1 DEF Authenticating, Records
<1>3. Len(tracks) = Count /\ tracks # <<>> /\ Count >= 1
  BY <1>0, <1>1, <1>2
<1>4. leaves \in SUBSET Path
  BY <1>2, AllLeavesType
<1>5. leaves = AllLeaves(tracks')
  BY <1>1
<1> HIDE DEF leaves
<1>6. /\ IsState(told) /\ TypedRecord(told) /\ told.fee = 1 /\ told.tracked = leaves
      /\ told.done = {} /\ told.confirmed = {}
  <2>1. IsState(told)
    BY <1>0, OtherField
  <2>2. TypedRecord(told) /\ told.fee = cache.fee /\ told.tracked = leaves
        /\ told.done = cache.done /\ told.confirmed = cache.confirmed
    BY <1>0, <1>4, FieldRecord, Zenon
  <2> HIDE DEF told
  <2> QED
    BY <1>2, <1>3, <2>1, <2>2 DEF NoTrace
<1> HIDE DEF told
<1>7. /\ TypedRecord(chain') /\ chain'.fee = 1 /\ chain'.tracked = leaves
      /\ chain'.done = {} /\ chain'.confirmed = {}
  BY <1>1, <1>6, IncrementRecord
<1>8. Records'
  BY <1>b, <1>1, <1>7 DEF Records
<1>9. AllHold(tracks)'
  BY <1>1, <1>2, <1>3 DEF AllHold, Answered, Count
<1>10. Committed'
  BY <1>1, <1>5, <1>7, <1>9 DEF Committed
<1>11. InMessages'
  BY <1>1, <1>2, <1>7 DEF InMessages
<1> QED
  BY <1>1, <1>8, <1>10, <1>11 DEF Course, Before, Authenticating, InPost, AtEnd, AfterTx

LEMMA RunMessageCourse == IInv /\ Course /\ RunMessage => Course'
<1>a. SUFFICES ASSUME IInv, Course, RunMessage PROVE Course'
  OBVIOUS
<1>b. /\ Records /\ Before /\ Authenticating /\ Committed
      /\ InMessages /\ InPost /\ AtEnd /\ AfterTx
  BY <1>a DEF Course
<1>0. /\ IsState(chain) /\ IsState(cache) /\ TypedRecord(chain) /\ TypedRecord(cache)
      /\ Count \in Nat /\ at \in Nat
      /\ \A i \in 1 .. Count : tx.msgs[i] \in Message
      /\ phase # "idle" => Count >= 1
  BY <1>a, <1>b, CourseFacts
<1>1. PICK s \in Handle(cache, tx.msgs[at]) : cache' = [s EXCEPT !.done = @ \cup {at}]
  BY <1>a, Zenon DEF RunMessage
<1>2. /\ phase = "messages" /\ phase' = IF at = Count THEN "post" ELSE phase
      /\ at' = IF at = Count THEN 1 ELSE at + 1
      /\ UNCHANGED <<chain, tx, tracks, votes, failed, used>>
  BY <1>a DEF RunMessage
<1>3. at \in 1 .. Count /\ tx.msgs[at] \in Message
  BY <1>a, <1>0, <1>2 DEF IInv, Position
<1>4. /\ IsState(s) /\ TypedRecord(s) /\ s.fee = cache.fee /\ s.tracked = cache.tracked
      /\ s.done = cache.done /\ s.confirmed = cache.confirmed
  BY <1>a, <1>0, <1>3, HandleFollows, HandleRecord DEF IInv, Ids
<1>5. /\ TypedRecord(cache') /\ cache'.fee = cache.fee /\ cache'.tracked = cache.tracked
      /\ cache'.done = cache.done \cup {at} /\ cache'.confirmed = cache.confirmed
  BY <1>0, <1>1, <1>4, DoneRecord
<1>6. /\ cache.done = 1 .. at - 1 /\ cache.confirmed = {} /\ votes = <<>> /\ ~failed
  BY <1>b, <1>2 DEF InMessages
<1>7. cache'.done = 1 .. at
  BY <1>0, <1>3, <1>5, <1>6
<1>8. Records'
  BY <1>b, <1>2, <1>5 DEF Records
<1>9. Committed'
  BY <1>b, <1>2, <1>5, CommittedStays DEF Executing
<1>10. InMessages'
  BY <1>0, <1>2, <1>5, <1>6, <1>7 DEF InMessages
<1>11. InPost'
  <2>1. Answered(<<>>) /\ Len(votes') = 0 /\ Count' = Count
    BY <1>2, <1>6 DEF Answered, Count
  <2> QED
    BY <1>0, <1>2, <1>3, <1>5, <1>6, <1>7, <2>1 DEF InPost
<1> QED
  BY <1>2, <1>8, <1>9, <1>10, <1>11 DEF Course, Before, Authenticating, AtEnd, AfterTx

LEMMA MessageFailsCourse == IInv /\ Course /\ MessageFails => Course'
<1>a. SUFFICES ASSUME IInv, Course, MessageFails PROVE Course'
  OBVIOUS
<1>b. /\ Records /\ Before /\ Authenticating /\ Committed
      /\ InMessages /\ InPost /\ AtEnd /\ AfterTx
  BY <1>a DEF Course
<1>0. /\ IsState(chain) /\ IsState(cache) /\ TypedRecord(chain) /\ TypedRecord(cache)
      /\ Count \in Nat /\ at \in Nat
      /\ \A i \in 1 .. Count : tx.msgs[i] \in Message
      /\ phase # "idle" => Count >= 1
  BY <1>a, <1>b, CourseFacts
<1>1. /\ phase = "messages" /\ phase' = "post" /\ failed' = TRUE /\ at' = 1
      /\ UNCHANGED <<chain, cache, tx, tracks, votes, used>>
  BY <1>a DEF MessageFails
<1>2. cache.confirmed = {} /\ votes = <<>>
  BY <1>b, <1>1 DEF InMessages
<1>3. Records'
  BY <1>b, <1>1 DEF Records
<1>4. Committed'
  BY <1>b, <1>1, CommittedStays DEF Executing
<1>5. InPost'
  <2>1. Answered(<<>>) /\ Len(votes') = 0 /\ Count' = Count
    BY <1>1, <1>2 DEF Answered, Count
  <2> QED
    BY <1>0, <1>1, <1>2, <2>1 DEF InPost
<1> QED
  BY <1>1, <1>3, <1>4, <1>5, Zenon DEF Course, Before, Authenticating, InMessages, AtEnd, AfterTx

LEMMA SkipPostCourse == IInv /\ Course /\ SkipPost => Course'
<1>a. SUFFICES ASSUME IInv, Course, SkipPost PROVE Course'
  OBVIOUS
<1>b. /\ Records /\ Before /\ Authenticating /\ Committed
      /\ InMessages /\ InPost /\ AtEnd /\ AfterTx
  BY <1>a DEF Course
<1>0. /\ IsState(chain) /\ IsState(cache) /\ TypedRecord(chain) /\ TypedRecord(cache)
      /\ Count \in Nat /\ at \in Nat
      /\ \A i \in 1 .. Count : tx.msgs[i] \in Message
      /\ phase # "idle" => Count >= 1
  BY <1>a, <1>b, CourseFacts
<1>1. /\ phase = "post" /\ BreakActive(cache) /\ phase' = "end"
      /\ UNCHANGED <<chain, cache, tx, at, tracks, votes, failed, used>>
  BY <1>a DEF SkipPost
<1>2. Records'
  BY <1>b, <1>1 DEF Records
<1>3. Committed'
  BY <1>b, <1>1, CommittedStays DEF Executing
<1>4. AtEnd'
  <2>1. Count' = Count /\ BreakActive(cache)'
    BY <1>1 DEF Count, BreakActive
  <2> QED
    BY <1>b, <1>0, <1>1, <2>1 DEF AtEnd, InPost
<1> QED
  BY <1>1, <1>2, <1>3, <1>4 DEF Course, Before, Authenticating, InMessages, InPost, AfterTx

LEMMA ConfirmMessageCourse == IInv /\ Course /\ ConfirmMessage => Course'
<1>a. SUFFICES ASSUME IInv, Course, ConfirmMessage PROVE Course'
  OBVIOUS
<1>b. /\ Records /\ Before /\ Authenticating /\ Committed
      /\ InMessages /\ InPost /\ AtEnd /\ AfterTx
  BY <1>a DEF Course
<1>0. /\ IsState(chain) /\ IsState(cache) /\ TypedRecord(chain) /\ TypedRecord(cache)
      /\ Count \in Nat /\ at \in Nat
      /\ \A i \in 1 .. Count : tx.msgs[i] \in Message
      /\ phase # "idle" => Count >= 1
  BY <1>a, <1>b, CourseFacts
<1>1. PICK row \in Selected(cache, at) : \E ok \in SUBSET Leaves[row.tree] :
        LET result == ConfirmExecution(row.tree, ok, at, cache.confirmed)
        IN /\ votes' = Append(votes, [tree |-> row.tree, ok |-> ok])
           /\ cache' = [cache EXCEPT !.confirmed = result.writes]
           /\ failed' = (failed \/ ~result.ok)
           /\ phase' = IF result.ok /\ at < Count THEN phase ELSE "end"
           /\ at' = at + 1
  BY <1>a, Zenon DEF ConfirmMessage
<1>2. PICK ok \in SUBSET Leaves[row.tree] :
        LET result == ConfirmExecution(row.tree, ok, at, cache.confirmed)
        IN /\ votes' = Append(votes, [tree |-> row.tree, ok |-> ok])
           /\ cache' = [cache EXCEPT !.confirmed = result.writes]
           /\ failed' = (failed \/ ~result.ok)
           /\ phase' = IF result.ok /\ at < Count THEN phase ELSE "end"
           /\ at' = at + 1
  BY <1>1
<1> DEFINE a == [tree |-> row.tree, ok |-> ok]
           result == ConfirmExecution(row.tree, ok, at, cache.confirmed)
<1>3. row \in Row
  BY <1>0 DEF Selected, IsState
<1>4. a \in Answer /\ a.tree = row.tree /\ a.ok = ok /\ row.tree \in Tree /\ ok \in SUBSET Path
  BY <1>3, AnswerOf
<1>5. /\ result.ok \in BOOLEAN /\ result.writes \in SUBSET Path
      /\ result.ok => /\ Holds[<<a.tree, a.ok>>]
                      /\ \A x \in result.writes : x \in cache.confirmed \/ Agrees(a.tree, a.ok, <<at>>, x)
  <2>1. cache.confirmed \in SUBSET Path
    BY <1>0 DEF TypedRecord
  <2> QED
    BY <1>0, <1>4, <2>1, ConfirmExecutionRight, Zenon
<1>6. /\ votes' = Append(votes, a) /\ cache' = [cache EXCEPT !.confirmed = result.writes]
      /\ failed' = (failed \/ ~result.ok)
      /\ phase' = IF result.ok /\ at < Count THEN phase ELSE "end"
      /\ at' = at + 1
  BY <1>2
<1> HIDE DEF a, result
<1>7. phase = "post" /\ UNCHANGED <<chain, tx, tracks, used>>
  BY <1>a DEF ConfirmMessage
<1>8. /\ at \in 1 .. Count /\ Len(votes) = at - 1 /\ Answered(votes)
      /\ cache.confirmed \subseteq Written(votes)
      /\ ~failed => cache.done = 1 .. Count
      /\ votes \in Seq(Answer) /\ failed \in BOOLEAN
  BY <1>b, <1>7 DEF InPost, Records
<1>9. /\ TypedRecord(cache') /\ cache'.fee = cache.fee /\ cache'.tracked = cache.tracked
      /\ cache'.done = cache.done /\ cache'.confirmed = result.writes
  BY <1>0, <1>5, <1>6, FieldRecord, Zenon
<1>10. votes' \in Seq(Answer) /\ Len(votes') = at
  BY <1>0, <1>4, <1>6, <1>8, AnswerMore
<1>11. result.ok => Answered(votes') /\ cache'.confirmed \subseteq Written(votes')
  <2> SUFFICES ASSUME result.ok PROVE Answered(votes') /\ cache'.confirmed \subseteq Written(votes')
    OBVIOUS
  <2>1. Answered(votes')
    BY <1>4, <1>5, <1>6, <1>8, AnsweredMore
  <2>2. ASSUME NEW x \in result.writes PROVE x \in Written(votes')
    <3>1. at = Len(votes) + 1
      BY <1>0, <1>8
    <3>2. x \in Written(votes) \/ Agrees(a.tree, a.ok, <<Len(votes) + 1>>, x)
      BY <1>5, <1>8, <3>1
    <3> QED
      BY <1>4, <1>6, <1>8, <3>2, WrittenMore
  <2> QED
    BY <1>9, <2>1, <2>2
<1>12. Records'
  BY <1>b, <1>5, <1>6, <1>7, <1>8, <1>9, <1>10 DEF Records
<1>13. Committed' /\ Count' = Count
  BY <1>b, <1>6, <1>7, <1>9, CommittedStays DEF Executing, Count
<1>14. InPost'
  BY <1>0, <1>5, <1>6, <1>7, <1>8, <1>9, <1>10, <1>11, <1>13 DEF InPost
<1>15. AtEnd'
  <2> SUFFICES ASSUME phase' = "end" PROVE AtEnd'
    BY DEF AtEnd
  <2>1. at' \in 1 .. Count + 1 /\ Len(votes') <= Count
    BY <1>0, <1>6, <1>8, <1>10
  <2>2. ASSUME ~failed'
        PROVE  cache'.done = 1 .. Count /\ AllHold(votes)' /\ cache'.confirmed \subseteq Written(votes')
    <3>1. ~failed /\ result.ok
      BY <1>5, <1>6, <1>8, <2>2, Zenon
    <3>2. at = Count
      BY <1>0, <1>6, <1>7, <1>8, <3>1
    <3>3. AllHold(votes)'
      BY <1>10, <1>11, <1>13, <3>1, <3>2 DEF AllHold, Answered
    <3> QED
      BY <1>8, <1>9, <1>11, <3>1, <3>3
  <2> QED
    BY <1>13, <2>1, <2>2 DEF AtEnd
<1>16. phase' \in {"post", "end"}
  BY <1>6, <1>7
<1> QED
  BY <1>12, <1>13, <1>14, <1>15, <1>16 DEF Course, Before, Authenticating, InMessages, AfterTx

LEMMA ConfirmMissingCourse == IInv /\ Course /\ ConfirmMissing => Course'
<1>a. SUFFICES ASSUME IInv, Course, ConfirmMissing PROVE Course'
  OBVIOUS
<1>b. /\ Records /\ Before /\ Authenticating /\ Committed
      /\ InMessages /\ InPost /\ AtEnd /\ AfterTx
  BY <1>a DEF Course
<1>0. /\ IsState(chain) /\ IsState(cache) /\ TypedRecord(chain) /\ TypedRecord(cache)
      /\ Count \in Nat /\ at \in Nat
      /\ \A i \in 1 .. Count : tx.msgs[i] \in Message
      /\ phase # "idle" => Count >= 1
  BY <1>a, <1>b, CourseFacts
<1>1. /\ phase = "post" /\ phase' = "end" /\ failed' = TRUE
      /\ UNCHANGED <<chain, cache, tx, at, tracks, votes, used>>
  BY <1>a DEF ConfirmMissing
<1>2. Records'
  BY <1>b, <1>1 DEF Records
<1>3. Committed'
  BY <1>b, <1>1, CommittedStays DEF Executing
<1>4. AtEnd'
  <2>1. Count' = Count
    BY <1>1 DEF Count
  <2> QED
    BY <1>b, <1>0, <1>1, <2>1 DEF AtEnd, InPost
<1> QED
  BY <1>1, <1>2, <1>3, <1>4 DEF Course, Before, Authenticating, InMessages, InPost, AfterTx

LEMMA EndTxCourse == IInv /\ Course /\ EndTx => Course'
<1>a. SUFFICES ASSUME IInv, Course, EndTx PROVE Course'
  OBVIOUS
<1>b. /\ Records /\ Before /\ Authenticating /\ Committed
      /\ InMessages /\ InPost /\ AtEnd /\ AfterTx
  BY <1>a DEF Course
<1>0. /\ IsState(chain) /\ IsState(cache) /\ TypedRecord(chain) /\ TypedRecord(cache)
      /\ Count \in Nat /\ at \in Nat
      /\ \A i \in 1 .. Count : tx.msgs[i] \in Message
      /\ phase # "idle" => Count >= 1
  BY <1>a, <1>b, CourseFacts
<1>1. /\ phase = "end" /\ phase' = "over" /\ chain' = IF failed THEN chain ELSE cache
      /\ UNCHANGED <<cache, tx, at, tracks, votes, failed>>
  BY <1>a DEF EndTx
<1>2. /\ chain.fee = 1 /\ cache.fee = 1
      /\ chain.tracked = AllLeaves(tracks) /\ cache.tracked = chain.tracked
      /\ tracks = <<>> \/ AllHold(tracks)
      /\ chain.done = {} /\ chain.confirmed = {}
  BY <1>b, <1>1 DEF Committed, Executing
<1>3. chain'.fee = 1 /\ chain'.tracked = AllLeaves(tracks')
  BY <1>1, <1>2
<1>4. Count' = Count /\ (tracks = <<>> \/ AllHold(tracks)')
  BY <1>1, <1>2 DEF Count, AllHold
<1>5. ExecutedIfApproved'
  <2>1. CASE failed
    BY <1>1, <1>2, <2>1 DEF ExecutedIfApproved
  <2>2. CASE ~failed
    <3>1. cache.done = 1 .. Count /\ (BreakActive(cache) \/ AllHold(votes))
      BY <1>b, <1>1, <2>2 DEF AtEnd
    <3>2. BreakActive(chain)' \/ AllHold(votes)'
      BY <1>1, <2>2, <3>1 DEF BreakActive, AllHold, Count
    <3> QED
      BY <1>1, <1>4, <2>2, <3>1, <3>2 DEF ExecutedIfApproved
  <2> QED
    BY <2>1, <2>2
<1>6. OnlyAgreeingWrote'
  <2>1. chain'.confirmed \subseteq Written(votes')
    BY <1>b, <1>1, <1>2 DEF AtEnd
  <2> QED
    BY <2>1, Zenon DEF OnlyAgreeingWrote, Written
<1>7. TrackedTogether'
  <2>1. chain'.tracked # {} => tracks # <<>>
    BY <1>1, <1>3, NoLeaves
  <2> QED
    BY <1>3, <1>4, <2>1 DEF TrackedTogether
<1>8. Records'
  BY <1>b, <1>1 DEF Records
<1>9. Len(tracks) <= Count /\ Len(votes) <= Count /\ at \in 1 .. Count + 1
  <2>1. tracks = <<>> => Len(tracks) = 0
    OBVIOUS
  <2> QED
    BY <1>b, <1>0, <1>1, <1>2, <2>1 DEF AtEnd, AllHold
<1>10. AfterTx'
  BY <1>1, <1>3, <1>4, <1>5, <1>6, <1>7, <1>9 DEF AfterTx
<1> QED
  BY <1>1, <1>8, <1>10 DEF Course, Before, Authenticating, Committed, InMessages, InPost, AtEnd, Executing

LEMMA NextTxCourse == IInv /\ Course /\ NextTx => Course'
<1>a. SUFFICES ASSUME IInv, Course, NextTx PROVE Course'
  OBVIOUS
<1>b. /\ Records /\ Before /\ Authenticating /\ Committed
      /\ InMessages /\ InPost /\ AtEnd /\ AfterTx
  BY <1>a DEF Course
<1>0. /\ IsState(chain) /\ IsState(cache) /\ TypedRecord(chain) /\ TypedRecord(cache)
      /\ Count \in Nat /\ at \in Nat
      /\ \A i \in 1 .. Count : tx.msgs[i] \in Message
      /\ phase # "idle" => Count >= 1
  BY <1>a, <1>b, CourseFacts
<1>1. /\ phase' = "idle" /\ chain' = NewTx(chain) /\ cache' = chain' /\ at' = 0
      /\ tracks' = <<>> /\ votes' = <<>> /\ failed' = FALSE
  BY <1>a DEF NextTx
<1>2. TypedRecord(chain') /\ NoTrace(chain') /\ chain'.fee = 0
  BY <1>0, <1>1, NewTxRecord
<1>3. Records' /\ Before'
  BY <1>1, <1>2, EmptySeq, Zenon DEF Records, Before
<1> QED
  BY <1>1, <1>3 DEF Course, Authenticating, Committed, InMessages, InPost, AtEnd, AfterTx, Executing

LEMMA StutterCourse == IInv /\ Course /\ UNCHANGED vars => Course'
<1>a. SUFFICES ASSUME IInv, Course, UNCHANGED vars PROVE Course'
  OBVIOUS
<1>b. /\ Records /\ Before /\ Authenticating /\ Committed
      /\ InMessages /\ InPost /\ AtEnd /\ AfterTx
  BY <1>a DEF Course
<1>1. UNCHANGED <<chain, cache, tx, phase, at, tracks, votes, failed>>
  BY <1>a DEF vars
<1>2. Count' = Count
  BY <1>1 DEF Count
<1>3. /\ AllHold(tracks)' <=> AllHold(tracks)
      /\ AllHold(votes)' <=> AllHold(votes)
      /\ BreakActive(cache)' <=> BreakActive(cache)
  BY <1>1, <1>2 DEF AllHold, BreakActive
<1>4. Records' /\ Before' /\ Authenticating'
  BY <1>b, <1>1, <1>2 DEF Records, Before, Authenticating
<1>5. Committed' /\ InMessages' /\ InPost' /\ AtEnd'
  BY <1>b, <1>1, <1>2, <1>3 DEF Committed, InMessages, InPost, AtEnd
<1>6. AfterTx'
  <2>1. BreakActive(chain)' <=> BreakActive(chain)
    BY <1>1 DEF BreakActive
  <2>2. ExecutedIfApproved => ExecutedIfApproved'
    <3>1. (1 .. Count)' = 1 .. Count
      BY <1>2
    <3> QED
      BY <1>1, <1>3, <2>1, <3>1 DEF ExecutedIfApproved
  <2>3. OnlyAgreeingWrote => OnlyAgreeingWrote'
    <3>1. OnlyAgreeingWrote <=> chain.confirmed \subseteq Written(votes)
      BY DEF OnlyAgreeingWrote, Written
    <3>2. OnlyAgreeingWrote' <=> chain'.confirmed \subseteq Written(votes')
      BY DEF OnlyAgreeingWrote, Written
    <3> QED
      BY <1>1, <3>1, <3>2
  <2>4. TrackedTogether => TrackedTogether'
    BY <1>1, <1>3 DEF TrackedTogether
  <2>5. (1 .. Count + 1)' = 1 .. Count + 1
    BY <1>2
  <2> QED
    BY <1>b, <1>1, <1>2, <2>2, <2>3, <2>4, <2>5 DEF AfterTx
<1> QED
  BY <1>4, <1>5, <1>6 DEF Course

\* One step of the specification.
LEMMA NextCourse == IInv /\ Course /\ [Next]_vars => Course'
BY ActivateCourse, BeginTxCourse, RejectCourse, ClassicAnteCourse, AuthenticateMessageCourse, TrackCourse,
   RunMessageCourse, MessageFailsCourse, SkipPostCourse, ConfirmMessageCourse, ConfirmMissingCourse,
   EndTxCourse, NextTxCourse, StutterCourse DEF Next

LEMMA CourseHolds == Spec => [](IInv /\ Course)
BY InitIInv, NextIInv, InitCourse, NextCourse, PTL DEF Spec

\* In every phase but the last, no message has taken effect on the chain.
LEMMA NothingYet ==
    ASSUME IInv, Course, phase # "over"
    PROVE  chain.done = {} /\ chain.confirmed = {}
BY DEF IInv, Types, Course, Before, Authenticating, Committed, NoTrace, Executing

\* Messages take effect only if all of their authenticators, each as its AllOf
\* and AnyOf say, agreed before them and after them (AnteHandle, PostHandle).
THEOREM ApprovedBeforeAndAfter == Spec => []ExecutedIfApproved
<1>1. IInv /\ Course => ExecutedIfApproved
  BY NothingYet DEF Course, AfterTx, ExecutedIfApproved
<1> QED
  BY <1>1, CourseHolds, PTL

\* What an authenticator wrote on confirming lasts only if it agreed, and all
\* those it is part of did (AnyOf.ConfirmExecution).
THEOREM DissentersUndone == Spec => []OnlyAgreeingWrote
<1>1. IInv /\ Course => OnlyAgreeingWrote
  <2> SUFFICES ASSUME IInv, Course PROVE OnlyAgreeingWrote
    OBVIOUS
  <2>1. CASE phase = "over"
    BY <2>1 DEF Course, AfterTx
  <2>2. CASE phase # "over"
    BY <2>2, NothingYet DEF OnlyAgreeingWrote
  <2> QED
    BY <2>1, <2>2
<1> QED
  BY <1>1, CourseHolds, PTL

\* Track is called for all messages or for none (AnteHandle).
THEOREM AllTracked == Spec => []TrackedTogether
<1>1. IInv /\ Course => TrackedTogether
  <2> SUFFICES ASSUME IInv, Course PROVE TrackedTogether
    OBVIOUS
  <2>1. CASE phase = "over"
    BY <2>1 DEF Course, AfterTx
  <2>2. CASE phase \in {"idle", "classic", "ante"}
    BY <2>2 DEF Course, Before, Authenticating, NoTrace, TrackedTogether
  <2>3. CASE phase \in Executing
    <3>1. chain.tracked = AllLeaves(tracks) /\ (tracks = <<>> \/ AllHold(tracks))
      BY <2>3 DEF Course, Committed
    <3>2. chain.tracked # {} => tracks # <<>>
      BY <3>1, NoLeaves
    <3> QED
      BY <3>1, <3>2 DEF TrackedTogether
  <2> QED
    BY <2>1, <2>2, <2>3 DEF IInv, Types
<1> QED
  BY <1>1, CourseHolds, PTL

LEMMA StateType ==
    ASSUME NEW s, IsState(s), TypedRecord(s)
    PROVE  s \in State
BY DEF IsState, TypedRecord, State

LEMMA CourseType == IInv /\ Course => TypeOK
<1> SUFFICES ASSUME IInv, Course PROVE TypeOK
  OBVIOUS
<1>1. Count \in Nat
  BY SignersAreAccounts DEF IInv, Types
<1>2. chain \in State /\ cache \in State
  BY StateType DEF IInv, Types, Course, Records
<1>3. Len(<<>>) = 0
  OBVIOUS
<1>4. at \in 0 .. Count + 1 /\ Len(tracks) <= Count /\ Len(votes) <= Count
  <2>1. CASE phase = "idle"
    BY <1>1, <1>3, <2>1 DEF Course, Before
  <2>2. CASE phase = "classic"
    BY <1>1, <1>3, <2>2 DEF Course, Before
  <2>3. CASE phase = "ante"
    BY <1>1, <1>3, <2>3 DEF Course, Authenticating
  <2>4. CASE phase \in Executing
    <3>1. Len(tracks) <= Count
      BY <1>1, <1>3, <2>4 DEF Course, Committed, AllHold
    <3>2. CASE phase = "messages"
      BY <1>1, <1>3, <3>1, <3>2 DEF Course, InMessages, IInv, Position
    <3>3. CASE phase = "post"
      BY <1>1, <3>1, <3>3 DEF Course, InPost
    <3>4. CASE phase = "end"
      BY <1>1, <3>1, <3>4 DEF Course, AtEnd
    <3> QED
      BY <2>4, <3>2, <3>3, <3>4 DEF Executing
  <2>5. CASE phase = "over"
    BY <1>1, <2>5 DEF Course, AfterTx
  <2> QED
    BY <2>1, <2>2, <2>3, <2>4, <2>5 DEF IInv, Types
<1> QED
  BY <1>2, <1>4 DEF TypeOK, IInv, Types, Executing, Course, Records

\* The fee is paid once, by every transaction that leaves a trace and by every
\* one whose fee payer was authenticated (AnteHandle, DeductFee).
THEOREM FeeOnce == Spec => []FeePaidOnce
<1>1. IInv /\ Course => FeePaidOnce
  <2> SUFFICES ASSUME IInv, Course PROVE FeePaidOnce
    OBVIOUS
  <2>1. TypeOK
    BY CourseType
  <2>2. CASE phase \in {"idle", "classic", "ante"}
    BY <2>1, <2>2 DEF Course, Before, Authenticating, NoTrace, FeePaidOnce
  <2>3. CASE phase \in Executing
    BY <2>1, <2>3 DEF Course, Committed, FeePaidOnce, Executing
  <2>4. CASE phase = "over"
    BY <2>1, <2>4 DEF Course, AfterTx, FeePaidOnce
  <2> QED
    BY <2>2, <2>3, <2>4 DEF IInv, Types
<1> QED
  BY <1>1, CourseHolds, PTL
=============================================================================
