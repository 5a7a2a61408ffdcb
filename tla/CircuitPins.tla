---------------------------- MODULE CircuitPins ----------------------------
(***************************************************************************)
(* Pinned codes and circuits (x/wasm/keeper).                              *)
(*                                                                         *)
(* The store remembers what is pinned in one row per id; the wasm engine   *)
(* keeps the pinned modules in memory.  Codes and circuits are numbered    *)
(* separately, but PinnedCodeIndexPrefix and PinnedCircuitsIndexPrefix are *)
(* both 0x07, so code n and circuit n share a row.  The engine is changed  *)
(* while a message runs and is not rolled back when the transaction fails. *)
(* Circuit keys are taken to be distinct; two codes may share a checksum.  *)
(***************************************************************************)
EXTENDS Integers, FiniteSets

CONSTANTS
    Checksum,      \* code checksums
    MaxCodes,      \* bound: codes ever stored
    MaxCircuits    \* bound: circuits ever stored

ASSUME BoundAssumption == MaxCodes \in Nat /\ MaxCircuits \in Nat

CodeIds    == 1..MaxCodes
CircuitIds == 1..MaxCircuits

VARIABLES
    codeHash,        \* CodeInfo rows: stored code ids -> checksum
    circuits,        \* ids of stored CircuitInfo rows
    nextZk,          \* KeySequenceCircuitID
    row,             \* ids with a row under 0x07
    engineCodes,     \* checksums the engine has pinned
    engineCircuits,  \* circuits the engine has pinned
    restore          \* outcome of the last restore from a snapshot

stored  == <<codeHash, circuits, nextZk>>
pinVars == <<stored, row, engineCodes, engineCircuits, restore>>

Codes == DOMAIN codeHash

PinsTyped ==
    /\ \E n \in 0..MaxCodes : codeHash \in [1..n -> Checksum]
    /\ nextZk \in 1..(MaxCircuits + 1)
    /\ circuits \subseteq 1..(nextZk - 1)
    /\ row \subseteq CodeIds \cup CircuitIds
    /\ engineCodes \subseteq Checksum
    /\ engineCircuits \subseteq CircuitIds
    /\ restore \in {"none", "ok", "failed"}

PinsInit ==
    /\ codeHash = <<>> /\ circuits = {} /\ nextZk = 1
    /\ row = {} /\ engineCodes = {} /\ engineCircuits = {}
    /\ restore = "none"

-----------------------------------------------------------------------------
\* create: the sequence hands out the next id; several ids may have one checksum.
StoreCode(h) ==
    /\ Cardinality(Codes) < MaxCodes
    /\ codeHash' = [c \in 1..(Cardinality(Codes) + 1) |->
                      IF c \in Codes THEN codeHash[c] ELSE h]
    /\ UNCHANGED <<circuits, nextZk, row, engineCodes, engineCircuits, restore>>

StoreCircuit ==
    /\ nextZk <= MaxCircuits
    /\ nextZk' = nextZk + 1
    /\ circuits' = circuits \cup {nextZk}
    /\ UNCHANGED <<codeHash, row, engineCodes, engineCircuits, restore>>

\* collectPinnedChecksums fails on a row that is not a stored code ...
ChecksumsKnown(ids) == ids \subseteq Codes
ChecksumsOf(ids)    == {codeHash[c] : c \in ids}

\* ... and collectPinnedCircuitKeys on one that is not a stored circuit.
CircuitKeysKnown(ids) == ids \subseteq circuits

\* Fault: pinCode does not look the code up first.
PinUnknownCodes(done, commit) ==
    /\ done # {} /\ ChecksumsKnown(row)
    /\ engineCodes' = ChecksumsOf((row \cup done) \cap Codes)
    /\ row' = IF commit THEN row \cup done ELSE row
    /\ UNCHANGED <<stored, engineCircuits, restore>>

\* PinCodes pins the codes of `done' one after the other, each with a bulk sync
\* of the engine.  The message may fail at the next id, or the transaction after
\* it; then the rows are rolled back and the engine keeps the last sync.
PinCodes(done, commit) ==
    /\ done # {} /\ done \subseteq Codes /\ ChecksumsKnown(row)
    /\ engineCodes' = ChecksumsOf(row \cup done)
    /\ row' = IF commit THEN row \cup done ELSE row
    /\ UNCHANGED <<stored, engineCircuits, restore>>

\* Fault: the engine drops the unpinned checksum, shared or not.
UnpinByChecksum(done, commit) ==
    /\ done # {} /\ done \subseteq Codes /\ ChecksumsKnown(row \ done)
    /\ engineCodes' = engineCodes \ ChecksumsOf(done)
    /\ row' = IF commit THEN row \ done ELSE row
    /\ UNCHANGED <<stored, engineCircuits, restore>>

UnpinCodes(done, commit) ==
    /\ done # {} /\ done \subseteq Codes /\ ChecksumsKnown(row \ done)
    /\ engineCodes' = ChecksumsOf(row \ done)
    /\ row' = IF commit THEN row \ done ELSE row
    /\ UNCHANGED <<stored, engineCircuits, restore>>

UnpinCircuits(done, commit) ==
    /\ done # {} /\ done \subseteq circuits /\ CircuitKeysKnown(row \ done)
    /\ engineCircuits' = row \ done
    /\ row' = IF commit THEN row \ done ELSE row
    /\ UNCHANGED <<stored, engineCodes, restore>>

\* The garbage collection of deposits removes a circuit.
removeCircuit(z) ==
    /\ z \in circuits
    /\ circuits' = circuits \ {z}
    /\ row' = row \ {z}
    /\ engineCircuits' = engineCircuits \ {z}
    /\ UNCHANGED <<codeHash, nextZk, engineCodes, restore>>

\* Fault: the node comes up without filling the engine again.
RestartCold ==
    /\ engineCodes' = {} /\ engineCircuits' = {}
    /\ UNCHANGED <<stored, row, restore>>

\* The node restarts: the engine starts empty and app.New pins the codes again.
Restart ==
    /\ ChecksumsKnown(row)
    /\ engineCodes' = ChecksumsOf(row) /\ engineCircuits' = {}
    /\ UNCHANGED <<stored, row, restore>>

\* A fresh node restores a snapshot of this state (finalizeV1): codes first,
\* then circuits; an error there fails the restore.
RestoreSnapshot ==
    /\ restore' = IF ChecksumsKnown(row) /\ CircuitKeysKnown(row) THEN "ok" ELSE "failed"
    /\ UNCHANGED <<stored, row, engineCodes, engineCircuits>>

Messages ==
    \/ \E h \in Checksum : StoreCode(h)
    \/ StoreCircuit
    \/ \E done \in SUBSET CodeIds, commit \in BOOLEAN :
          PinCodes(done, commit) \/ UnpinCodes(done, commit)
    \/ \E done \in SUBSET CircuitIds, commit \in BOOLEAN : UnpinCircuits(done, commit)

PinsNext ==
    \/ Messages
    \/ \E z \in CircuitIds : removeCircuit(z)
    \/ Restart
    \/ RestoreSnapshot

PinsSpec == PinsInit /\ [][PinsNext]_pinVars

-----------------------------------------------------------------------------
(* Properties *)

\* The state has its type and every row is a stored code, so neither a restart
\* nor a pin message can fail on rows left behind by earlier messages, whichever
\* of them failed half way.
RowsAreCodes == PinsTyped /\ ChecksumsKnown(row)

Agree == engineCodes = ChecksumsOf(row)

\* A message that commits and a restart leave the engine with exactly the pinned
\* codes, whatever drift an earlier failed message left; codes that share a
\* checksum with an unpinned code stay pinned.
SyncRepairsEngine ==
    [][\/ \E done \in SUBSET Codes : PinCodes(done, TRUE) \/ UnpinCodes(done, TRUE)
       \/ Restart
       => Agree']_pinVars

\* Only a message that is rolled back, a removed circuit or UnpinCircuits lets the
\* engine and the rows disagree.
DriftSources ==
    [][Agree /\ ~ Agree' =>
          \/ row' = row
          \/ \E gone \in SUBSET circuits : row' = row \ gone /\ engineCodes' = engineCodes]_pinVars

\* A snapshot of a reachable state can be restored: "restart-safe rehydrate"
\* (keeper.go, InitalizedPinnedCodesAndCircuits).
SnapshotsRestore == restore # "failed"
=============================================================================
