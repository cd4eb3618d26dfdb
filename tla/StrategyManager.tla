---------------------------- MODULE StrategyManager ----------------------------
(***************************************************************************)
(* contracts/StrategyManager.sol: the balances the platform keeps with     *)
(* yield protocols.  One action per function; a transaction is atomic, and *)
(* one that reverts changes nothing, so that require(), onlyRole and the   *)
(* checked arithmetic are guards.  The balances are the manager's own      *)
(* book: no function moves a token.  A protocol's name and maxAllocation   *)
(* are written and never read, and are left out.                           *)
(***************************************************************************)
EXTENDS Integers, Functions

CONSTANTS
  Callers,             \* who may be given a role
  ProtocolIds,         \* protocol numbers calls may name
  Addresses, NoAddress,\* protocolAddress; address(0)
  AllocationChoices,   \* maxAllocation arguments
  StrategyAmounts,     \* amounts calls may name
  MaxUint,             \* the largest value of a uint256
  MinInterval,         \* MIN_REBALANCE_INTERVAL
  MaxRebalanceAmount,  \* MAX_REBALANCE_AMOUNT
  LastSecond           \* bound: the model's last timestamp

ASSUME StrategyConstants ==
  /\ ProtocolIds \subseteq Nat /\ StrategyAmounts \subseteq Nat
  /\ NoAddress \notin Addresses
  /\ MaxUint \in Nat /\ MinInterval \in Nat \ {0} /\ MaxRebalanceAmount \in Nat

VARIABLES
  now,                \* block.timestamp
  protocols,          \* protocolId -> Protocol; the mapping's default where none was added
  protocolCount,
  rebalancedAt,       \* lastRebalanceTime
  emergencyMode,
  members,            \* role -> who has it (AccessControl)
  approved            \* allowances on the manager's tokens (ERC-20, external)

managerVars == <<protocols, protocolCount, rebalancedAt, emergencyMode, members, approved>>
svars == <<now, managerVars>>

Roles == {"KEEPER_ROLE", "CONTROLLER_ROLE"}
Protocols == [whitelisted : BOOLEAN, protocolAddress : Addresses \cup {NoAddress}, currentBalance : Nat]
NoProtocol == [whitelisted |-> FALSE, protocolAddress |-> NoAddress, currentBalance |-> 0]

(* At deployment the last rebalance, the year 1970, is long past.          *)
StrategyInit ==
  /\ now = 0
  /\ protocols = [id \in ProtocolIds |-> NoProtocol]
  /\ protocolCount = 0
  /\ rebalancedAt = -MinInterval
  /\ emergencyMode = FALSE
  /\ members = [role \in Roles |-> {}]
  /\ approved = [a \in Addresses \cup {NoAddress} |-> 0]

Balance(id) == protocols[id].currentBalance

GetTotalDeployed ==
  SumFunction([id \in {i \in ProtocolIds : i < protocolCount} |-> Balance(id)])

-----------------------------------------------------------------------------
(* By the admin: roles and protocols.                                      *)
GrantRole(role, caller) ==
  /\ members' = [members EXCEPT ![role] = @ \cup {caller}]
  /\ UNCHANGED <<now, protocols, protocolCount, rebalancedAt, emergencyMode, approved>>

RevokeRole(role, caller) ==
  /\ members' = [members EXCEPT ![role] = @ \ {caller}]
  /\ UNCHANGED <<now, protocols, protocolCount, rebalancedAt, emergencyMode, approved>>

AddProtocol(address, maxAllocation) ==
  /\ address # NoAddress
  /\ maxAllocation <= 10000
  /\ protocolCount \in ProtocolIds
  /\ protocols' = [protocols EXCEPT ![protocolCount] =
                     [whitelisted |-> TRUE, protocolAddress |-> address, currentBalance |-> 0]]
  /\ protocolCount' = protocolCount + 1
  /\ UNCHANGED <<now, rebalancedAt, emergencyMode, members, approved>>

RemoveAnyProtocol(id) ==
  /\ protocols' = [protocols EXCEPT ![id].whitelisted = FALSE]
  /\ UNCHANGED <<now, protocolCount, rebalancedAt, emergencyMode, members, approved>>
RemoveProtocol(id) ==
  /\ Balance(id) = 0
  /\ protocols' = [protocols EXCEPT ![id].whitelisted = FALSE]
  /\ UNCHANGED <<now, protocolCount, rebalancedAt, emergencyMode, members, approved>>

(* By holders of CONTROLLER_ROLE.  No token backs what is deployed, so the *)
(* checked addition is all that limits it.                                 *)
DeployToProtocol(caller, id, amount) ==
  /\ caller \in members["CONTROLLER_ROLE"]
  /\ protocols[id].whitelisted
  /\ ~emergencyMode
  /\ Balance(id) + amount <= MaxUint
  /\ approved' = [approved EXCEPT ![protocols[id].protocolAddress] = amount]
  /\ protocols' = [protocols EXCEPT ![id].currentBalance = @ + amount]
  /\ UNCHANGED <<now, protocolCount, rebalancedAt, emergencyMode, members>>

WithdrawFromProtocol(caller, id, amount) ==
  /\ caller \in members["CONTROLLER_ROLE"]
  /\ Balance(id) >= amount
  /\ protocols' = [protocols EXCEPT ![id].currentBalance = @ - amount]
  /\ UNCHANGED <<now, protocolCount, rebalancedAt, emergencyMode, members, approved>>

(* By keepers.  Both protocols are references to storage: what is added to *)
(* the second is added to what the subtraction has left, one protocol or   *)
(* two.                                                                    *)
MovedByCopy(from, to, amount) ==
  [protocols EXCEPT ![from].currentBalance = @ - amount,
                    ![to].currentBalance = protocols[to].currentBalance + amount]
Moved(from, to, amount) ==
  [protocols EXCEPT ![from].currentBalance = @ - amount,
                    ![to].currentBalance = @ + amount]

Rebalance(caller, from, to, amount) ==
  /\ caller \in members["KEEPER_ROLE"]
  /\ now >= rebalancedAt + MinInterval
  /\ amount <= MaxRebalanceAmount
  /\ ~emergencyMode
  /\ protocols[from].whitelisted /\ protocols[to].whitelisted
  /\ Balance(from) >= amount
  /\ protocols' = Moved(from, to, amount)
  /\ protocols'[to].currentBalance <= MaxUint
  /\ rebalancedAt' = now
  /\ UNCHANGED <<now, protocolCount, emergencyMode, members, approved>>

(* By the admin.  The withdrawals are summed for the event, with a checked *)
(* addition.                                                               *)
EmergencyWithdrawAll ==
  /\ GetTotalDeployed <= MaxUint
  /\ emergencyMode' = TRUE
  /\ protocols' = [id \in ProtocolIds |->
                     IF id < protocolCount THEN [protocols[id] EXCEPT !.currentBalance = 0]
                     ELSE protocols[id]]
  /\ UNCHANGED <<now, protocolCount, rebalancedAt, members, approved>>

DisableEmergencyMode ==
  /\ emergencyMode' = FALSE
  /\ UNCHANGED <<now, protocols, protocolCount, rebalancedAt, members, approved>>

StrategyCall ==
  \/ \E role \in Roles, caller \in Callers : GrantRole(role, caller) \/ RevokeRole(role, caller)
  \/ \E address \in Addresses \cup {NoAddress}, maxAllocation \in AllocationChoices :
       AddProtocol(address, maxAllocation)
  \/ \E id \in ProtocolIds :
       \/ RemoveProtocol(id)
       \/ \E caller \in Callers, amount \in StrategyAmounts :
            \/ DeployToProtocol(caller, id, amount)
            \/ WithdrawFromProtocol(caller, id, amount)
            \/ \E to \in ProtocolIds : Rebalance(caller, id, to, amount)
  \/ EmergencyWithdrawAll
  \/ DisableEmergencyMode

Second ==
  /\ now < LastSecond
  /\ now' = now + 1
  /\ UNCHANGED managerVars

StrategySpec == StrategyInit /\ [][StrategyCall \/ Second]_svars

-----------------------------------------------------------------------------
(* Types: balances stay unsigned and within a uint256, no number is given  *)
(* out beyond the protocols added, and no rebalance is in the future.      *)
StrategyTypeOK ==
  /\ now \in Nat
  /\ protocols \in [ProtocolIds -> Protocols]
  /\ protocolCount \in Nat
  /\ rebalancedAt \in Int /\ rebalancedAt <= now
  /\ emergencyMode \in BOOLEAN
  /\ members \in [Roles -> SUBSET Callers]
  /\ approved \in [Addresses \cup {NoAddress} -> Nat]
  /\ \A id \in ProtocolIds : Balance(id) <= MaxUint

(* Money is only where it can be seen and taken out: a protocol that is    *)
(* not on the whitelist holds none, so none is left behind by a removal;   *)
(* and in emergency mode no protocol holds any, so that the emergency      *)
(* withdrawal is complete and stays so until the mode is lifted, whatever  *)
(* is called meanwhile (removeProtocol, deployToProtocol, rebalance,       *)
(* emergencyWithdrawAll).                                                  *)
NothingLeftBehind ==
  \A id \in ProtocolIds :
    Balance(id) > 0 => id < protocolCount /\ protocols[id].whitelisted /\ ~emergencyMode

(* A rebalance moves money between protocols and neither makes nor loses   *)
(* any, from one to another or to itself, and comes no sooner than the     *)
(* interval after the one before (rebalance).                              *)
RebalanceConserves ==
  [][rebalancedAt' # rebalancedAt =>
       /\ GetTotalDeployed' = GetTotalDeployed
       /\ rebalancedAt' >= rebalancedAt + MinInterval]_svars
=============================================================================
