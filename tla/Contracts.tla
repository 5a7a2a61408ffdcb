------------------------------ MODULE Contracts ------------------------------
(***************************************************************************)
(* The life of codes and contracts (x/wasm/keeper): who may store a code,  *)
(* instantiate, migrate or administer a contract, and the indexes by code  *)
(* and by creator that the keeper maintains beside the contract rows.      *)
(*                                                                         *)
(* A called contract answers with messages of its own, which the keeper    *)
(* runs one by one before the call returns; `stack' holds the calls under  *)
(* way, each with the policy its messages are judged by.  A message that   *)
(* fails takes no step here.  Labels, funds and gas are left out.          *)
(***************************************************************************)
EXTENDS Integers, Sequences, FiniteSets, SequencesExt, AccessConfig

CONSTANTS
    Account,      \* external accounts
    Gov,          \* the authority of the module
    NoAdmin,      \* the admin of a contract without admin
    Binary,       \* wasm binaries, by checksum
    IBCBinary,    \* those with IBC entry points
    Propagate,    \* propagateGovAuthorization
    MaxCallDepth, \* maxCallDepth
    Configs,      \* access configurations that messages carry for codes
    Uploads,      \* ... and for the upload of codes and circuits
    Defaults,     \* default permissions that messages carry
    ListEdits,    \* address lists that messages carry
    NewAdmins,    \* accounts that messages name as admin
    MaxCodes, MaxContracts, MaxHistory, MaxPos   \* bounds

ASSUME AccountAssumption == Gov \in Account /\ NoAdmin \notin Account
ASSUME BinaryAssumption == IBCBinary \subseteq Binary
ASSUME PropagateAssumption == Propagate \subseteq {"instantiate", "migrate"}
ASSUME ConfigAssumption ==
    /\ \A config \in Configs \cup Uploads : config.permission \in AccessTypes
    /\ Defaults \subseteq AccessTypes
ASSUME BoundAssumption ==
    /\ MaxCallDepth \in Nat /\ MaxCodes \in Nat /\ MaxContracts \in Nat
    /\ MaxHistory \in Nat \ {0} /\ MaxPos \in Nat \ {0}

VARIABLES
    upload, circuitUpload,  \* CodeUploadAccess, CircuitUploadAccess
    instDefault,            \* InstantiateDefaultPermission
    codes,                  \* CodeInfo rows, by code id
    nextInstance,           \* KeySequenceInstanceID
    contracts,              \* ContractInfo rows, by address
    history,                \* ContractCodeHistory, by address
    byCode, byCreator,      \* secondary indexes
    pos,                    \* AbsoluteTxPosition of the transaction
    sender,                 \* who sent the current message
    stack                   \* calls under way

params == <<upload, circuitUpload, instDefault>>
rows   == <<codes, nextInstance, contracts, history, byCode, byCreator>>
vars   == <<params, rows, pos, sender, stack>>

CodeIds == DOMAIN codes
Deployed == DOMAIN contracts

Entry == [code : 1..MaxCodes, pos : 1..MaxPos]

TypeOK ==
    /\ instDefault \in AccessTypes
    /\ upload.permission \in AccessTypes /\ circuitUpload.permission \in AccessTypes
    /\ Len(codes) <= MaxCodes /\ \A i \in CodeIds : codes[i].binary \in Binary
    /\ nextInstance \in 1..(MaxContracts + 1)
    /\ DOMAIN history = Deployed
    /\ \A c \in Deployed :
          /\ contracts[c].code \in CodeIds
          /\ history[c] \in Seq(Entry) /\ Len(history[c]) \in 1..MaxHistory
    /\ pos \in 1..MaxPos /\ sender \in Account
    /\ Len(stack) <= MaxCallDepth
    /\ \A i \in DOMAIN stack : stack[i].self \in Deployed

Init ==
    /\ upload \in Uploads /\ circuitUpload \in Uploads
    /\ instDefault \in Defaults
    /\ codes = <<>> /\ nextInstance = 1
    /\ contracts = <<>> /\ history = <<>> /\ byCode = {} /\ byCreator = {}
    /\ pos = 1 /\ sender = Gov /\ stack = <<>>

-----------------------------------------------------------------------------
(* Who acts, and by which policy *)

\* Outside of a call any account sends a message, inside only the called contract.
Acting(a) ==
    IF stack = <<>> THEN a \in Account /\ sender' = a
                    ELSE a = Last(stack).self /\ UNCHANGED sender

Actors == Account \cup {stack[i].self : i \in DOMAIN stack}

\* Fault: the context of the last sender is still in use.
policyOfLastSender(a) ==
    IF a = Gov \/ sender = Gov THEN "gov"
    ELSE IF stack = <<>> THEN "default" ELSE Last(stack).policy

selectAuthorizationPolicy(a) ==
    IF a = Gov THEN "gov"
    ELSE IF stack = <<>> THEN "default" ELSE Last(stack).policy

\* Fault: the depth of calls is not checked.
CallUnbounded(c, policy) ==
    stack' = Append(stack, [self |-> c, policy |-> policy])

\* handleContractResponse: the answer of contract c is dispatched.
Call(c, policy) ==
    /\ Len(stack) < MaxCallDepth
    /\ stack' = Append(stack, [self |-> c, policy |-> policy])

Return ==
    /\ stack # <<>>
    /\ stack' = Front(stack)
    /\ UNCHANGED <<params, rows, pos, sender>>

NextTx ==
    /\ stack = <<>> /\ pos < MaxPos
    /\ pos' = pos + 1
    /\ UNCHANGED <<params, rows, sender, stack>>

-----------------------------------------------------------------------------
(* Codes *)

create(a, binary, config) ==
    /\ Len(codes) < MaxCodes
    /\ CanCreateCode(selectAuthorizationPolicy(a), upload, With(instDefault, a), a, config)
    /\ codes' = Append(codes, [creator |-> a, access |-> config, binary |-> binary])

StoreCode(a, binary, config) ==
    /\ Acting(a)
    /\ create(a, binary, config)
    /\ UNCHANGED <<params, nextInstance, contracts, history, byCode, byCreator, pos, stack>>

setAccessConfig(a, id, config) ==
    /\ Acting(a) /\ id \in CodeIds
    /\ CanModifyCodeAccessConfig(selectAuthorizationPolicy(a), codes[id].creator, a,
                                 TypeIsSubset(config.permission, instDefault))
    /\ codes' = [codes EXCEPT ![id].access = config]
    /\ UNCHANGED <<params, nextInstance, contracts, history, byCode, byCreator, pos, stack>>

-----------------------------------------------------------------------------
(* Contracts *)

ClassicAddress == <<nextInstance>>
PredictableAddress(a, binary) == <<a, binary>>

addToSecondaryIndexes(a, c, entry) ==
    /\ byCode' = byCode \cup {<<entry.code, entry.pos, c>>}
    /\ byCreator' = byCreator \cup {<<a, entry.pos, c>>}

\* code is the row of code id; it may have been stored by the same message.  The
\* new address is not that of a contract or of an account with a key.
instantiate(a, id, code, admin, c) ==
    LET policy == selectAuthorizationPolicy(a)
        entry  == [code |-> id, pos |-> pos]
    IN  /\ CanInstantiateContract(policy, code.access, a)
        /\ c \notin Deployed \cup Account \cup {NoAdmin}
        /\ Cardinality(Deployed) < MaxContracts
        /\ contracts' = [d \in Deployed \cup {c} |->
              IF d = c THEN [code |-> id, creator |-> a, admin |-> admin,
                             port |-> code.binary \in IBCBinary]
                       ELSE contracts[d]]
        /\ history' = [d \in Deployed \cup {c} |-> IF d = c THEN <<entry>> ELSE history[d]]
        /\ addToSecondaryIndexes(a, c, entry)
        /\ Call(c, SubMessageAuthorizationPolicy(policy, "instantiate", Propagate))

NextInstance == nextInstance' = nextInstance + 1

InstantiateContract(a, id, admin) ==
    /\ Acting(a) /\ id \in CodeIds
    /\ NextInstance
    /\ instantiate(a, id, codes[id], admin, ClassicAddress)
    /\ UNCHANGED <<params, codes, pos>>

InstantiateContract2(a, id, admin) ==
    /\ Acting(a) /\ id \in CodeIds
    /\ instantiate(a, id, codes[id], admin, PredictableAddress(a, codes[id].binary))
    /\ UNCHANGED <<params, codes, nextInstance, pos>>

StoreAndInstantiateContract(a, binary, config, admin) ==
    /\ Acting(a)
    /\ create(a, binary, config)
    /\ NextInstance
    /\ instantiate(a, Len(codes) + 1, codes'[Len(codes) + 1], admin, ClassicAddress)
    /\ UNCHANGED <<params, pos>>

ExecuteContract(a, c) ==
    /\ Acting(a) /\ c \in Deployed
    /\ Call(c, IF stack = <<>> THEN "default" ELSE Last(stack).policy)
    /\ UNCHANGED <<params, rows, pos>>

SudoContract(c) ==
    /\ Acting(Gov) /\ c \in Deployed
    /\ Call(c, "default")
    /\ UNCHANGED <<params, rows, pos>>

\* Fault: the row to remove is looked up by the first entry of the history.
reindexFromFirst(c, entry) ==
    byCode' = (byCode \ {<<Head(history[c]).code, Head(history[c]).pos, c>>})
                \cup {<<entry.code, entry.pos, c>>}

reindex(c, entry) ==
    byCode' = (byCode \ {<<Last(history[c]).code, Last(history[c]).pos, c>>})
                \cup {<<entry.code, entry.pos, c>>}

\* Fault: any code will do.
keepsNoPort(c, code) == TRUE

\* A contract that has a port must keep its IBC entry points.
keepsPort(c, code) == contracts[c].port => code.binary \in IBCBinary

storeMigratedInfo(c, id, code) ==
    contracts' = [contracts EXCEPT ![c].code = id,
                                   ![c].port = @ \/ code.binary \in IBCBinary]

\* The migrate entry point is not called when both codes name the same version.
migrate(a, c, id, code, called) ==
    LET policy == selectAuthorizationPolicy(a)
        entry  == [code |-> id, pos |-> pos]
    IN  /\ CanModifyContract(policy, contracts[c].admin, a)
        /\ CanInstantiateContract(policy, code.access, a)
        /\ keepsPort(c, code)
        /\ Len(history[c]) < MaxHistory
        /\ reindex(c, entry)
        /\ history' = [history EXCEPT ![c] = Append(@, entry)]
        /\ storeMigratedInfo(c, id, code)
        /\ IF called
           THEN Call(c, SubMessageAuthorizationPolicy(policy, "migrate", Propagate))
           ELSE UNCHANGED stack

MigrateContract(a, c, id, called) ==
    /\ Acting(a) /\ c \in Deployed /\ id \in CodeIds
    /\ migrate(a, c, id, codes[id], called)
    /\ UNCHANGED <<params, codes, nextInstance, byCreator, pos>>

StoreAndMigrateContract(a, binary, config, c, called) ==
    /\ Acting(a) /\ c \in Deployed
    /\ create(a, binary, config)
    /\ migrate(a, c, Len(codes) + 1, codes'[Len(codes) + 1], called)
    /\ UNCHANGED <<params, nextInstance, byCreator, pos>>

\* UpdateAdmin, and ClearAdmin with NoAdmin.
setContractAdmin(a, c, new) ==
    /\ Acting(a) /\ c \in Deployed
    /\ CanModifyContract(selectAuthorizationPolicy(a), contracts[c].admin, a)
    /\ contracts' = [contracts EXCEPT ![c].admin = new]
    /\ UNCHANGED <<params, codes, nextInstance, history, byCode, byCreator, pos, stack>>

-----------------------------------------------------------------------------
(* Parameters, changed by governance alone *)

UpdateParams(codeConfig, circuitConfig, default) ==
    /\ Acting(Gov)
    /\ upload' = codeConfig /\ circuitUpload' = circuitConfig /\ instDefault' = default
    /\ UNCHANGED <<rows, pos, stack>>

\* The four list messages edit CodeUploadAccess, those named for circuits too.
editUploadList(addresses) ==
    /\ Acting(Gov) /\ upload.permission = "AnyOfAddresses"
    /\ upload' = AnyOf(addresses)
    /\ UNCHANGED <<circuitUpload, instDefault, rows, pos, stack>>

AddCodeUploadParamsAddresses(S)       == editUploadList(upload.addresses \cup S)
RemoveCodeUploadParamsAddresses(S)    == editUploadList(upload.addresses \ S)
AddCircuitUploadParamsAddresses(S)    == editUploadList(upload.addresses \cup S)
RemoveCircuitUploadParamsAddresses(S) == editUploadList(upload.addresses \ S)

ParamsMessage ==
    \/ \E codeConfig, circuitConfig \in Uploads, default \in Defaults :
          UpdateParams(codeConfig, circuitConfig, default)
    \/ \E S \in ListEdits :
          \/ AddCodeUploadParamsAddresses(S) \/ RemoveCodeUploadParamsAddresses(S)
          \/ AddCircuitUploadParamsAddresses(S) \/ RemoveCircuitUploadParamsAddresses(S)

Admins == NewAdmins \cup {NoAdmin} \cup Deployed

CodeMessage(a) ==
    \/ \E binary \in Binary, config \in Configs : StoreCode(a, binary, config)
    \/ \E id \in CodeIds, config \in Configs : setAccessConfig(a, id, config)

ContractMessage(a) ==
    \/ \E id \in CodeIds, admin \in Admins :
          InstantiateContract(a, id, admin) \/ InstantiateContract2(a, id, admin)
    \/ \E binary \in Binary, config \in Configs, admin \in Admins :
          StoreAndInstantiateContract(a, binary, config, admin)
    \/ \E c \in Deployed :
          \/ ExecuteContract(a, c)
          \/ \E id \in CodeIds, called \in BOOLEAN : MigrateContract(a, c, id, called)
          \/ \E binary \in Binary, config \in Configs, called \in BOOLEAN :
                StoreAndMigrateContract(a, binary, config, c, called)
          \/ \E new \in Admins : setContractAdmin(a, c, new)

Next ==
    \/ \E a \in Actors : CodeMessage(a) \/ ContractMessage(a)
    \/ \E c \in Deployed : SudoContract(c)
    \/ ParamsMessage
    \/ Return
    \/ NextTx

Spec == Init /\ [][Next]_vars

-----------------------------------------------------------------------------
(* Properties *)

\* The indexes have one row per contract: by code under the code it runs now, which
\* the last history entry names, and the transaction that put it there; by creator
\* under the transaction of the first entry.  However often it is migrated to and
\* fro, in one transaction too.
ContractsIndexed ==
    /\ byCode = {<<contracts[c].code, Last(history[c]).pos, c>> : c \in Deployed}
    /\ byCreator = {<<contracts[c].creator, Head(history[c]).pos, c>> : c \in Deployed}
    /\ \A c \in Deployed : Last(history[c]).code = contracts[c].code

\* A contract with an IBC port always runs a code with IBC entry points.
PortBacked ==
    \A c \in Deployed : contracts[c].port => codes[contracts[c].code].binary \in IBCBinary

\* A contract without an admin is changed by governance itself and by nobody else:
\* not by a contract that governance has called, unless migrations propagate.
LockedContracts ==
    [][\A c \in Deployed : contracts[c].admin = NoAdmin /\ contracts'[c] # contracts[c] =>
          /\ sender' = Gov
          /\ stack = <<>> \/ "migrate" \in Propagate]_vars

\* A code is instantiated by whom its configuration allows, or in a transaction
\* that governance sent; the power governance lends a contract ends with it.
InstantiatedByRight ==
    [][\A c \in (DOMAIN contracts') \ Deployed :
          \/ Allowed(codes'[contracts'[c].code].access, contracts'[c].creator)
          \/ sender' = Gov /\ (stack = <<>> \/ "instantiate" \in Propagate)]_vars

=============================================================================
