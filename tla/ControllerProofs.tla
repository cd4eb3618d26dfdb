--------------------------- MODULE ControllerProofs ---------------------------
(***************************************************************************)
(* Proofs about the strategy manager, and about the platform: the          *)
(* manager's books stay in order whatever the controller and the vault do  *)
(* beside it, an allocation that goes through has moved nothing, and a     *)
(* rebalance conserves the sum of the balances (two changes of one term    *)
(* each: Arithmetic's SumChanges, twice).                                  *)
(* NothingLeftBehind is not inductive by itself: a deployment asks for a   *)
(* whitelisted protocol, and only Numbered says that such a protocol has a *)
(* number emergencyWithdrawAll comes by.                                   *)
(***************************************************************************)
EXTENDS VaultController, Arithmetic, TLAPS

Numbered == \A id \in ProtocolIds : protocols[id].whitelisted => id < protocolCount

StrategyInv == StrategyTypeOK /\ Numbered /\ NothingLeftBehind

LEMMA StrategyInitHolds == StrategyInit => StrategyInv
<1> SUFFICES ASSUME StrategyInit PROVE StrategyInv
  OBVIOUS
<1>1. NoProtocol \in Protocols /\ ~NoProtocol.whitelisted /\ NoProtocol.currentBalance = 0
  BY DEF NoProtocol, Protocols
<1>2. /\ protocols \in [ProtocolIds -> Protocols]
      /\ \A id \in ProtocolIds : protocols[id] = NoProtocol
  BY <1>1 DEF StrategyInit
<1>3. now = 0 /\ rebalancedAt \in Int /\ rebalancedAt <= now
  BY StrategyConstants DEF StrategyInit
<1>4. members \in [Roles -> SUBSET Callers]
  BY DEF StrategyInit
<1>5. approved \in [Addresses \cup {NoAddress} -> Nat]
  BY DEF StrategyInit
<1>6. protocolCount \in Nat /\ emergencyMode \in BOOLEAN
  BY DEF StrategyInit
<1>7. \A id \in ProtocolIds : ~protocols[id].whitelisted /\ Balance(id) = 0
  BY <1>1, <1>2 DEF Balance
<1>8. QED
  BY <1>2, <1>3, <1>4, <1>5, <1>6, <1>7, StrategyConstants
  DEF StrategyInv, StrategyTypeOK, Numbered, NothingLeftBehind

(* Roles and the mode change nothing about the books.                      *)
LEMMA RolesStep ==
  ASSUME StrategyInv, NEW role \in Roles, NEW caller \in Callers,
         GrantRole(role, caller) \/ RevokeRole(role, caller)
  PROVE  StrategyInv'
<1>1. members' \in [Roles -> SUBSET Callers]
  BY DEF GrantRole, RevokeRole, StrategyInv, StrategyTypeOK
<1>2. UNCHANGED <<now, protocols, protocolCount, rebalancedAt, emergencyMode, approved>>
  BY DEF GrantRole, RevokeRole
<1>3. QED
  BY <1>1, <1>2 DEF StrategyInv, StrategyTypeOK, Numbered, NothingLeftBehind, Balance

(* A new protocol is empty and takes the next number.                      *)
LEMMA AddStep ==
  ASSUME StrategyInv, NEW address \in Addresses \cup {NoAddress},
         NEW maxAllocation \in AllocationChoices, AddProtocol(address, maxAllocation)
  PROVE  StrategyInv'
<1> DEFINE new == [whitelisted |-> TRUE, protocolAddress |-> address, currentBalance |-> 0]
<1>1. /\ protocolCount \in ProtocolIds /\ protocolCount \in Nat /\ MaxUint \in Nat
      /\ protocols \in [ProtocolIds -> Protocols]
      /\ protocols' = [protocols EXCEPT ![protocolCount] = new]
      /\ protocolCount' = protocolCount + 1
      /\ ProtocolIds \subseteq Nat
  BY StrategyConstants DEF AddProtocol, StrategyInv, StrategyTypeOK
<1>2. new \in Protocols
  BY DEF Protocols
<1>3. protocols' \in [ProtocolIds -> Protocols]
  BY <1>1, <1>2
<1>4. \A id \in ProtocolIds :
        protocols'[id] = IF id = protocolCount THEN new ELSE protocols[id]
  BY <1>1
<1>5. StrategyTypeOK'
  BY <1>1, <1>3, <1>4 DEF AddProtocol, StrategyInv, StrategyTypeOK, Balance
<1>6. Numbered' /\ NothingLeftBehind'
  BY <1>1, <1>4 DEF AddProtocol, StrategyInv, Numbered, NothingLeftBehind, Balance
<1>7. QED
  BY <1>5, <1>6 DEF StrategyInv

(* Only an empty protocol leaves the whitelist.                            *)
LEMMA RemoveStep ==
  ASSUME StrategyInv, NEW id \in ProtocolIds, RemoveProtocol(id)
  PROVE  StrategyInv'
<1>1. /\ protocols \in [ProtocolIds -> Protocols]
      /\ protocols' = [protocols EXCEPT ![id].whitelisted = FALSE]
      /\ protocols[id].currentBalance = 0
  BY DEF RemoveProtocol, Balance, StrategyInv, StrategyTypeOK
<1>2. protocols' \in [ProtocolIds -> Protocols]
  BY <1>1 DEF Protocols
<1>3. \A i \in ProtocolIds :
        /\ protocols'[i].currentBalance = protocols[i].currentBalance
        /\ i # id => protocols'[i] = protocols[i]
        /\ protocols'[i].whitelisted => protocols[i].whitelisted
  BY <1>1 DEF Protocols
<1>4. UNCHANGED <<now, protocolCount, rebalancedAt, emergencyMode, members, approved>>
  BY DEF RemoveProtocol
<1>5. StrategyTypeOK'
  BY <1>2, <1>3, <1>4 DEF StrategyInv, StrategyTypeOK, Balance
<1>6. Numbered' /\ NothingLeftBehind'
  BY <1>1, <1>3, <1>4 DEF StrategyInv, Numbered, NothingLeftBehind, Balance
<1>7. QED
  BY <1>5, <1>6 DEF StrategyInv

(* Money is deployed to whitelisted protocols, outside an emergency.       *)
LEMMA DeployStep ==
  ASSUME StrategyInv, NEW caller \in Callers, NEW id \in ProtocolIds,
         NEW amount \in StrategyAmounts, DeployToProtocol(caller, id, amount)
  PROVE  StrategyInv'
<1>1. /\ protocols \in [ProtocolIds -> Protocols]
      /\ protocols[id] \in Protocols
      /\ amount \in Nat /\ MaxUint \in Nat
      /\ protocols' = [protocols EXCEPT ![id].currentBalance = @ + amount]
      /\ protocols[id].whitelisted /\ ~emergencyMode
      /\ protocols[id].currentBalance + amount <= MaxUint
  BY StrategyConstants DEF DeployToProtocol, Balance, StrategyInv, StrategyTypeOK
<1>2. protocols' \in [ProtocolIds -> Protocols]
  BY <1>1 DEF Protocols
<1>3. \A i \in ProtocolIds :
        /\ protocols'[i].whitelisted = protocols[i].whitelisted
        /\ i # id => protocols'[i] = protocols[i]
  BY <1>1 DEF Protocols
<1>4. protocols'[id].currentBalance = protocols[id].currentBalance + amount
  BY <1>1 DEF Protocols
<1>5. approved' \in [Addresses \cup {NoAddress} -> Nat]
  BY <1>1 DEF DeployToProtocol, StrategyInv, StrategyTypeOK, Protocols
<1>6. UNCHANGED <<now, protocolCount, rebalancedAt, emergencyMode, members>>
  BY DEF DeployToProtocol
<1>7. StrategyTypeOK'
  BY <1>1, <1>2, <1>3, <1>4, <1>5, <1>6 DEF StrategyInv, StrategyTypeOK, Balance
<1>8. Numbered' /\ NothingLeftBehind'
  BY <1>1, <1>3, <1>4, <1>6 DEF StrategyInv, Numbered, NothingLeftBehind, Balance
<1>9. QED
  BY <1>7, <1>8 DEF StrategyInv

LEMMA WithdrawStep ==
  ASSUME StrategyInv, NEW caller \in Callers, NEW id \in ProtocolIds,
         NEW amount \in StrategyAmounts, WithdrawFromProtocol(caller, id, amount)
  PROVE  StrategyInv'
<1>1. /\ protocols \in [ProtocolIds -> Protocols]
      /\ protocols[id] \in Protocols
      /\ amount \in Nat /\ MaxUint \in Nat
      /\ protocols' = [protocols EXCEPT ![id].currentBalance = @ - amount]
      /\ protocols[id].currentBalance >= amount
  BY StrategyConstants DEF WithdrawFromProtocol, Balance, StrategyInv, StrategyTypeOK
<1>2. protocols' \in [ProtocolIds -> Protocols]
  BY <1>1 DEF Protocols
<1>3. \A i \in ProtocolIds :
        /\ protocols'[i].whitelisted = protocols[i].whitelisted
        /\ i # id => protocols'[i] = protocols[i]
  BY <1>1 DEF Protocols
<1>4. protocols'[id].currentBalance = protocols[id].currentBalance - amount
  BY <1>1 DEF Protocols
<1>5. /\ protocols[id].currentBalance \in Nat
      /\ UNCHANGED <<now, protocolCount, rebalancedAt, emergencyMode, members, approved>>
  BY <1>1 DEF WithdrawFromProtocol, Protocols
<1>6. StrategyTypeOK'
  BY <1>1, <1>2, <1>3, <1>4, <1>5 DEF StrategyInv, StrategyTypeOK, Balance
<1>7. Numbered' /\ NothingLeftBehind'
  BY <1>1, <1>3, <1>4, <1>5 DEF StrategyInv, Numbered, NothingLeftBehind, Balance
<1>8. QED
  BY <1>6, <1>7 DEF StrategyInv

(* A rebalance goes between whitelisted protocols, outside an emergency;   *)
(* from and to may be the same.                                            *)
LEMMA RebalanceStep ==
  ASSUME StrategyInv, NEW caller \in Callers, NEW from \in ProtocolIds,
         NEW to \in ProtocolIds, NEW amount \in StrategyAmounts,
         Rebalance(caller, from, to, amount)
  PROVE  StrategyInv'
<1>1. /\ protocols \in [ProtocolIds -> Protocols]
      /\ protocols[from] \in Protocols /\ protocols[to] \in Protocols
      /\ amount \in Nat /\ MaxUint \in Nat
      /\ protocols' = Moved(from, to, amount)
      /\ protocols[from].whitelisted /\ protocols[to].whitelisted /\ ~emergencyMode
      /\ protocols[from].currentBalance >= amount
      /\ protocols'[to].currentBalance <= MaxUint
  BY StrategyConstants DEF Rebalance, Balance, StrategyInv, StrategyTypeOK
<1>2. protocols' \in [ProtocolIds -> Protocols]
  BY <1>1 DEF Moved, Protocols
<1>3. \A i \in ProtocolIds :
        /\ protocols'[i].whitelisted = protocols[i].whitelisted
        /\ i # from /\ i # to => protocols'[i] = protocols[i]
  BY <1>1 DEF Moved, Protocols
<1>4. from # to => protocols'[from].currentBalance = protocols[from].currentBalance - amount
  BY <1>1 DEF Moved, Protocols
<1>5. /\ protocols[from].currentBalance \in Nat
      /\ now \in Nat /\ rebalancedAt' = now
      /\ UNCHANGED <<now, protocolCount, emergencyMode, members, approved>>
  BY <1>1 DEF Rebalance, StrategyInv, StrategyTypeOK, Protocols
<1>6. StrategyTypeOK'
  BY <1>1, <1>2, <1>3, <1>4, <1>5 DEF StrategyInv, StrategyTypeOK, Balance
<1>7. Numbered' /\ NothingLeftBehind'
  BY <1>1, <1>3, <1>4, <1>5 DEF StrategyInv, Numbered, NothingLeftBehind, Balance
<1>8. QED
  BY <1>6, <1>7 DEF StrategyInv

(* The loop over the numbers given out reaches every balance there is.     *)
LEMMA EmergencyStep ==
  ASSUME StrategyInv, EmergencyWithdrawAll
  PROVE  StrategyInv'
<1>1. /\ protocols \in [ProtocolIds -> Protocols]
      /\ MaxUint \in Nat
      /\ protocols' = [id \in ProtocolIds |->
                         IF id < protocolCount THEN [protocols[id] EXCEPT !.currentBalance = 0]
                         ELSE protocols[id]]
  BY StrategyConstants DEF EmergencyWithdrawAll, StrategyInv, StrategyTypeOK
<1>2. protocols' \in [ProtocolIds -> Protocols]
  BY <1>1 DEF Protocols
<1>3. \A i \in ProtocolIds :
        /\ protocols'[i].whitelisted = protocols[i].whitelisted
        /\ i < protocolCount => protocols'[i].currentBalance = 0
        /\ ~(i < protocolCount) => protocols'[i] = protocols[i]
  BY <1>1 DEF Protocols
<1>4. \A i \in ProtocolIds : protocols'[i].currentBalance = 0
  <2>1. TAKE i \in ProtocolIds
  <2>2. protocols[i].currentBalance \in Nat
    BY <1>1 DEF Protocols
  <2>3. QED
    BY <1>3, <2>2 DEF StrategyInv, NothingLeftBehind, Balance
<1>5. emergencyMode' = TRUE
      /\ UNCHANGED <<now, protocolCount, rebalancedAt, members, approved>>
  BY DEF EmergencyWithdrawAll
<1>6. StrategyTypeOK'
  BY <1>1, <1>2, <1>4, <1>5 DEF StrategyInv, StrategyTypeOK, Balance
<1>7. Numbered' /\ NothingLeftBehind'
  BY <1>3, <1>4, <1>5 DEF StrategyInv, Numbered, NothingLeftBehind, Balance
<1>8. QED
  BY <1>6, <1>7 DEF StrategyInv

LEMMA DisableStep ==
  ASSUME StrategyInv, DisableEmergencyMode PROVE StrategyInv'
  BY DEF DisableEmergencyMode, StrategyInv, StrategyTypeOK, Numbered, NothingLeftBehind, Balance

LEMMA SecondStep ==
  ASSUME StrategyInv, Second PROVE StrategyInv'
<1>1. /\ now \in Nat /\ rebalancedAt \in Int /\ rebalancedAt <= now /\ now' = now + 1
      /\ UNCHANGED managerVars
  BY DEF Second, StrategyInv, StrategyTypeOK
<1>2. QED
  BY <1>1 DEF managerVars, StrategyInv, StrategyTypeOK, Numbered, NothingLeftBehind, Balance

LEMMA StrategyStepHolds == StrategyInv /\ [StrategyCall \/ Second]_svars => StrategyInv'
<1> SUFFICES ASSUME StrategyInv, [StrategyCall \/ Second]_svars PROVE StrategyInv'
  OBVIOUS
<1>1. CASE StrategyCall
  BY <1>1, RolesStep, AddStep, RemoveStep, DeployStep, WithdrawStep, RebalanceStep,
     EmergencyStep, DisableStep DEF StrategyCall
<1>2. CASE Second
  BY <1>2, SecondStep
<1>3. CASE UNCHANGED svars
  BY <1>3 DEF svars, managerVars, StrategyInv, StrategyTypeOK, Numbered, NothingLeftBehind,
              Balance
<1>4. QED
  BY <1>1, <1>2, <1>3

(* The books of the strategy manager keep their invariant for every set of *)
(* protocols, callers and amounts and for every width of a number.         *)
THEOREM StrategyInvariant == StrategySpec => []StrategyInv
  BY StrategyInitHolds, StrategyStepHolds, PTL DEF StrategySpec

(* No balance is left with a removed protocol, or anywhere in an emergency *)
(* (removeProtocol, emergencyWithdrawAll).                                 *)
THEOREM BooksLeaveNothing == StrategySpec => []NothingLeftBehind
<1>1. StrategyInv => NothingLeftBehind
  BY DEF StrategyInv
<1>2. QED
  BY <1>1, StrategyInvariant, PTL

-----------------------------------------------------------------------------
(* A step of the platform is, for the manager, a call of its own, the      *)
(* passing of a second, or nothing at all.                                 *)
LEMMA PlatformImplementsManager == [Next]_vars => [StrategyCall \/ Second]_svars
<1> SUFFICES ASSUME [Next]_vars PROVE [StrategyCall \/ Second]_svars
  OBVIOUS
<1>1. ASSUME NEW new \in Shares, UpdateAllocation(new) PROVE UNCHANGED svars
  BY <1>1 DEF UpdateAllocation
<1>2. ASSUME Pause \/ Unpause PROVE UNCHANGED svars
  BY <1>2 DEF Pause, Unpause
<1>3. ASSUME AllocateFunds PROVE UNCHANGED svars
  BY <1>3 DEF AllocateFunds, TakeFromVault, V!Withdraw, svars
<1>4. ASSUME DepositorCall PROVE UNCHANGED svars
  BY <1>4 DEF DepositorCall, V!Deposit, V!DepositFrom, V!Withdraw, svars
<1>5. ASSUME PoolLends PROVE UNCHANGED svars
  BY <1>5 DEF PoolLends
<1>6. ASSUME ManagerCall PROVE StrategyCall
  BY <1>6 DEF ManagerCall
<1>7. ASSUME Tick PROVE Second
  BY <1>7 DEF Tick, V!Tick, Second
<1>8. CASE UNCHANGED vars
  BY <1>8 DEF vars
<1>9. QED
  BY <1>1, <1>2, <1>3, <1>4, <1>5, <1>6, <1>7, <1>8 DEF Next

(* The platform keeps the books of the strategy manager as its             *)
(* specification does: whatever holds of them alone holds here.            *)
THEOREM PlatformKeepsBooks == Spec => StrategySpec
<1>1. Init => StrategyInit
  BY DEF Init
<1>2. QED
  BY <1>1, PlatformImplementsManager, PTL DEF Spec, StrategySpec

(* On the platform, too, no balance is left with a removed protocol, or    *)
(* anywhere in an emergency (removeProtocol, emergencyWithdrawAll).        *)
THEOREM PlatformLeavesNothing == Spec => []NothingLeftBehind
  BY PlatformKeepsBooks, BooksLeaveNothing, PTL

-----------------------------------------------------------------------------
(* The controller never has a deposit: only its owner's and the others'    *)
(* accounts are ever credited.                                             *)
EmptyHanded ==
  /\ DOMAIN deposits = Users \cup {Controller}
  /\ deposits = [u \in DOMAIN deposits |-> deposits[u]]
  /\ deposits[Controller].principal = 0

LEMMA InitEmptyHanded == Init => EmptyHanded
  BY DEF Init, V!Init, V!NoDeposit, EmptyHanded

LEMMA DepositorsKeepItEmpty ==
  ASSUME EmptyHanded, NEW u \in Users, NEW amount \in Amounts,
         V!Deposit(u, amount) \/ V!Withdraw(u, amount)
  PROVE  EmptyHanded'
<1>1. u # Controller /\ u \in DOMAIN deposits
  BY ControllerConstants DEF EmptyHanded
<1>2. \E entry : deposits' = [deposits EXCEPT ![u] = entry]
  BY DEF V!Deposit, V!DepositFrom, V!Withdraw, V!WithdrawAll, V!WithdrawPart
<1>3. QED
  BY <1>1, <1>2 DEF EmptyHanded

(* A withdrawal by the controller would need a deposit of its own.         *)
LEMMA NothingToTake ==
  ASSUME EmptyHanded, NEW amount, TakeFromVault(amount) PROVE FALSE
<1>1. deposits[Controller].principal > 0
  BY DEF TakeFromVault, V!Withdraw
<1>2. QED
  BY <1>1 DEF EmptyHanded

LEMMA AllocatingMovesNothing ==
  ASSUME EmptyHanded, AllocateFunds
  PROVE  /\ UNCHANGED <<deposits, tokens>>
         /\ fundsAllocated'.toLending <= totalBorrowed
         /\ fundsAllocated'.toFarming <= GetTotalDeployed
<1> DEFINE targetLending == (V!TotalAssets * allocation.lending) \div 10000
           targetFarming == (V!TotalAssets * allocation.farming) \div 10000
           met == targetLending <= totalBorrowed /\ targetFarming <= GetTotalDeployed
           amount == Missing(targetLending, totalBorrowed)
                       + Missing(targetFarming, GetTotalDeployed)
<1>1. IF met THEN UNCHANGED <<now, vaultVars, tokens>> ELSE TakeFromVault(amount)
  BY DEF AllocateFunds
<1>2. met /\ UNCHANGED <<now, vaultVars, tokens>>
  BY <1>1, NothingToTake
<1>3. fundsAllocated' = [toLending |-> targetLending, toFarming |-> targetFarming]
  BY DEF AllocateFunds
<1>4. QED
  BY <1>2, <1>3 DEF vaultVars

LEMMA StepKeepsItEmpty == EmptyHanded /\ [Next]_vars => EmptyHanded'
<1> SUFFICES ASSUME EmptyHanded, [Next]_vars PROVE EmptyHanded'
  OBVIOUS
<1>1. ASSUME UNCHANGED deposits PROVE EmptyHanded'
  BY <1>1 DEF EmptyHanded
<1>2. ASSUME AllocateFunds PROVE EmptyHanded'
  BY <1>1, <1>2, AllocatingMovesNothing
<1>3. ASSUME DepositorCall PROVE EmptyHanded'
  BY <1>3, DepositorsKeepItEmpty DEF DepositorCall
<1>4. ASSUME NEW new \in Shares, UpdateAllocation(new) PROVE EmptyHanded'
  BY <1>1, <1>4 DEF UpdateAllocation, vaultVars
<1>5. ASSUME Pause \/ Unpause \/ PoolLends \/ ManagerCall PROVE EmptyHanded'
  BY <1>1, <1>5 DEF Pause, Unpause, PoolLends, ManagerCall, vaultVars
<1>6. ASSUME Tick PROVE EmptyHanded'
  BY <1>1, <1>6 DEF Tick, V!Tick, V!vaultVars
<1>7. CASE UNCHANGED vars
  BY <1>1, <1>7 DEF vars, vaultVars
<1>8. QED
  BY <1>2, <1>3, <1>4, <1>5, <1>6, <1>7 DEF Next

LEMMA ControllerHasNothing == Spec => []EmptyHanded
  BY InitEmptyHanded, StepKeepsItEmpty, PTL DEF Spec

(* FundsAllocated is written only when both targets are already met, and   *)
(* nothing is moved then (allocateFunds), whatever the allocation and      *)
(* whatever is in the vault.                                               *)
THEOREM AllocationMet == Spec => AllocatedMeansMet
<1>1. EmptyHanded /\ [Next]_vars =>
        [fundsAllocated' # fundsAllocated =>
           /\ fundsAllocated'.toLending <= totalBorrowed
           /\ fundsAllocated'.toFarming <= GetTotalDeployed
           /\ UNCHANGED <<deposits, tokens>>]_vars
  <2> SUFFICES ASSUME EmptyHanded, Next, fundsAllocated' # fundsAllocated
               PROVE  /\ fundsAllocated'.toLending <= totalBorrowed
                      /\ fundsAllocated'.toFarming <= GetTotalDeployed
                      /\ UNCHANGED <<deposits, tokens>>
    OBVIOUS
  <2>1. AllocateFunds
    BY DEF Next, UpdateAllocation, Pause, Unpause, DepositorCall, PoolLends, ManagerCall, Tick,
           controllerVars
  <2>2. QED
    BY <2>1, AllocatingMovesNothing
<1>2. QED
  BY <1>1, ControllerHasNothing, PTL DEF Spec, AllocatedMeansMet

(* What a rebalance takes from one balance it adds to another, or to the   *)
(* same one.                                                               *)
LEMMA RebalanceMoves ==
  ASSUME StrategyInv, NEW caller \in Callers, NEW from \in ProtocolIds,
         NEW to \in ProtocolIds, NEW amount \in StrategyAmounts,
         Rebalance(caller, from, to, amount)
  PROVE  /\ \A id \in ProtocolIds : Balance(id) \in Nat
         /\ from < protocolCount /\ to < protocolCount /\ amount \in Nat
         /\ from = to => \A id \in ProtocolIds : Balance(id)' = Balance(id)
         /\ from # to => /\ Balance(from)' = Balance(from) - amount
                         /\ Balance(to)' = Balance(to) + amount
         /\ \A id \in ProtocolIds : id \notin {from, to} => Balance(id)' = Balance(id)
<1>1. /\ protocols \in [ProtocolIds -> Protocols] /\ amount \in Nat
      /\ protocols' = Moved(from, to, amount)
      /\ from < protocolCount /\ to < protocolCount
  BY StrategyConstants DEF Rebalance, StrategyInv, StrategyTypeOK, Numbered
<1>2. \A id \in ProtocolIds : /\ protocols[id] \in Protocols
                              /\ protocols[id].currentBalance \in Nat
  BY <1>1 DEF Protocols
<1>3. from # to => /\ protocols'[from].currentBalance = protocols[from].currentBalance - amount
                   /\ protocols'[to].currentBalance = protocols[to].currentBalance + amount
  BY <1>1 DEF Moved, Protocols
<1>4. \A id \in ProtocolIds : id \notin {from, to} => protocols'[id] = protocols[id]
  BY <1>1 DEF Moved, Protocols
<1>5. ASSUME from = to PROVE protocols'[from].currentBalance = protocols[from].currentBalance
  <2>1. protocols'[from].currentBalance = (protocols[from].currentBalance - amount) + amount
    BY <1>1, <1>5 DEF Moved, Protocols
  <2>2. QED
    BY <1>1, <1>2, <2>1
<1>6. QED
  BY <1>1, <1>2, <1>3, <1>4, <1>5 DEF Balance

LEMMA RebalanceKeepsTotal ==
  ASSUME StrategyInv, NEW caller \in Callers, NEW from \in ProtocolIds,
         NEW to \in ProtocolIds, NEW amount \in StrategyAmounts,
         Rebalance(caller, from, to, amount)
  PROVE  GetTotalDeployed' = GetTotalDeployed
<1> DEFINE added == {i \in ProtocolIds : i < protocolCount}
           before == [id \in added |-> Balance(id)]
           after == [id \in added |-> Balance(id)']
           between == [id \in added |-> IF id = from THEN Balance(id) - amount ELSE Balance(id)]
<1>1. protocolCount' = protocolCount /\ protocolCount \in Nat
  BY DEF Rebalance, StrategyInv, StrategyTypeOK
<1>2. GetTotalDeployed = SumFunction(before) /\ GetTotalDeployed' = SumFunction(after)
  BY <1>1 DEF GetTotalDeployed
<1>3. IsFiniteSet(added)
  <2>1. IsFiniteSet(0..protocolCount - 1)
    BY <1>1, FS_Interval
  <2>2. added \in SUBSET (0..protocolCount - 1)
    <3>1. ASSUME NEW i \in added PROVE i \in 0..protocolCount - 1
      <4>1. i \in Nat /\ i < protocolCount
        BY StrategyConstants
      <4>2. QED
        BY <1>1, <4>1
    <3> HIDE DEF added
    <3>2. QED
      BY <3>1
  <2>3. QED
    BY <2>1, <2>2, FS_Subset
<1>4. /\ from \in added /\ to \in added /\ amount \in Nat
      /\ \A id \in added : Balance(id) \in Nat
      /\ from = to => \A id \in added : Balance(id)' = Balance(id)
      /\ from # to => Balance(from)' = Balance(from) - amount /\ Balance(to)' = Balance(to) + amount
      /\ \A id \in added : id \notin {from, to} => Balance(id)' = Balance(id)
  BY RebalanceMoves
<1> HIDE DEF added
<1>5. CASE from = to
  <2>1. before = after
    BY <1>4, <1>5
  <2>2. QED
    BY <1>2, <2>1
<1>6. CASE from # to
  <2>1. /\ before \in [added -> Int] /\ between \in [added -> Int] /\ after \in [added -> Int]
        /\ \A id \in added : id # from => between[id] = before[id]
        /\ \A id \in added : id # to => after[id] = between[id]
        /\ before[from] = Balance(from) /\ between[from] = Balance(from) - amount
        /\ between[to] = Balance(to) /\ after[to] = Balance(to) + amount
    <3>1. \A id \in added : Balance(id)' \in Int
      BY <1>4
    <3>2. QED
      BY <1>4, <1>6, <3>1
  <2>2. Balance(from) \in Nat /\ Balance(to) \in Nat
    BY <1>4
  <2> HIDE DEF before, after, between
  <2>3. /\ SumFunction(before) \in Int /\ SumFunction(between) \in Int
        /\ SumFunction(between) = SumFunction(before) - before[from] + between[from]
    BY <1>3, <1>4, <2>1, SumChanges
  <2>4. SumFunction(after) = SumFunction(between) - between[to] + after[to]
    BY <1>3, <1>4, <2>1, SumChanges
  <2>5. QED
    BY <1>2, <1>4, <2>1, <2>2, <2>3, <2>4
<1>7. QED
  BY <1>5, <1>6

(* A rebalance neither makes nor loses money, from one protocol to another *)
(* or to itself, and keeps the interval, for any protocols and amounts     *)
(* (rebalance, getTotalDeployed).                                          *)
THEOREM BooksAreConserved == StrategySpec => RebalanceConserves
<1>1. StrategyInv /\ [StrategyCall \/ Second]_svars =>
        [rebalancedAt' # rebalancedAt =>
           /\ GetTotalDeployed' = GetTotalDeployed
           /\ rebalancedAt' >= rebalancedAt + MinInterval]_svars
  <2> SUFFICES ASSUME StrategyInv, StrategyCall \/ Second, rebalancedAt' # rebalancedAt
               PROVE  /\ GetTotalDeployed' = GetTotalDeployed
                      /\ rebalancedAt' >= rebalancedAt + MinInterval
    OBVIOUS
  <2>1. PICK caller \in Callers, from \in ProtocolIds, to \in ProtocolIds,
             amount \in StrategyAmounts : Rebalance(caller, from, to, amount)
    BY DEF StrategyCall, Second, managerVars, GrantRole, RevokeRole, AddProtocol, RemoveProtocol,
           DeployToProtocol, WithdrawFromProtocol, EmergencyWithdrawAll, DisableEmergencyMode
  <2>2. now >= rebalancedAt + MinInterval /\ rebalancedAt' = now
    BY <2>1 DEF Rebalance
  <2>3. QED
    BY <2>1, <2>2, RebalanceKeepsTotal
<1>2. QED
  BY <1>1, StrategyInvariant, PTL DEF StrategySpec, RebalanceConserves

(* So it is on the platform, whatever the controller and the vault do.     *)
THEOREM PlatformConserves == Spec => RebalanceConserves
  BY PlatformKeepsBooks, BooksAreConserved, PTL
=============================================================================
