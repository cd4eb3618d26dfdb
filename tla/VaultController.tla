---------------------------- MODULE VaultController ----------------------------
(***************************************************************************)
(* contracts/VaultController.sol: shares the vault's assets out between    *)
(* lending and farming, on top of the vault and the strategy manager; what *)
(* the lending pool has lent is an input.  harvestYield only writes an     *)
(* event.  rebalanceStrategy is nonReentrant and calls allocateFunds,      *)
(* which is nonReentrant too: it always reverts, and is no action.         *)
(***************************************************************************)
EXTENDS StrategyManager

CONSTANTS
  Users,               \* depositors of the vault
  Owner,               \* the controller's owner, a depositor as any other
  Controller,          \* the controller's own address
  Shares,              \* allocations the owner may ask for
  Lent,                \* amounts the lending pool may have lent
  VaultAddr, NoPool, ONE, BpsYear, MaxRateBps, DeployRateBps, DeployMinimum,
  Amounts, InitialTokens   \* of the vault

ASSUME ControllerConstants == Owner \in Users /\ Controller \notin Users

VARIABLES
  globalIndex, lastUpdateTimestamp, interestRatePerSecond, totalPrincipal,
  minDepositAmount, lendingPool, deposits, tokens,   \* the vault
  totalBorrowed,      \* of the lending pool (external to this module)
  allocation,         \* lendingAllocation, farmingAllocation, reserveAllocation
  paused,
  fundsAllocated      \* the last FundsAllocated event

V == INSTANCE Vault WITH
       Accounts <- Users \cup {Controller}, Borrowers <- {}, PoolChoices <- {},
       RateChoices <- {}, MinimumChoices <- {}, MaxTime <- LastSecond

vaultVars == <<globalIndex, lastUpdateTimestamp, interestRatePerSecond, totalPrincipal,
               minDepositAmount, lendingPool, deposits>>
controllerVars == <<allocation, paused, fundsAllocated>>
vars == <<svars, vaultVars, tokens, totalBorrowed, controllerVars>>

Allocation(lending, farming, reserve) ==
  [lending |-> lending, farming |-> farming, reserve |-> reserve]
NoEvent == [toLending |-> 0, toFarming |-> 0]

Init ==
  /\ V!Init
  /\ StrategyInit
  /\ totalBorrowed = 0
  /\ allocation = Allocation(5000, 4000, 1000)
  /\ paused = FALSE
  /\ fundsAllocated = NoEvent

-----------------------------------------------------------------------------
(* By the owner.                                                           *)
UpdateAllocation(new) ==
  /\ new.lending + new.farming + new.reserve = 10000
  /\ allocation' = new
  /\ UNCHANGED <<svars, vaultVars, tokens, totalBorrowed, paused, fundsAllocated>>

Pause ==
  /\ ~paused
  /\ paused' = TRUE
  /\ UNCHANGED <<svars, vaultVars, tokens, totalBorrowed, allocation, fundsAllocated>>

Unpause ==
  /\ paused
  /\ paused' = FALSE
  /\ UNCHANGED <<svars, vaultVars, tokens, totalBorrowed, allocation, fundsAllocated>>

(* What a withdrawal by the controller takes is the controller's deposit.  *)
(* Lending's and farming's withdrawals follow each other in one            *)
(* transaction, and are taken as one.                                      *)
TakeFromOwner(amount) == V!Withdraw(Owner, amount)
TakeFromVault(amount) == V!Withdraw(Controller, amount)

Missing(target, current) == IF target > current THEN target - current ELSE 0

AllocateFunds ==
  LET targetLending == (V!TotalAssets * allocation.lending) \div 10000
      targetFarming == (V!TotalAssets * allocation.farming) \div 10000
  IN /\ ~paused
     /\ V!TotalAssets > 0
     /\ GetTotalDeployed <= MaxUint
     /\ IF targetLending <= totalBorrowed /\ targetFarming <= GetTotalDeployed
        THEN UNCHANGED <<now, vaultVars, tokens>>
        ELSE TakeFromVault(Missing(targetLending, totalBorrowed)
                             + Missing(targetFarming, GetTotalDeployed))
     /\ fundsAllocated' = [toLending |-> targetLending, toFarming |-> targetFarming]
     /\ UNCHANGED <<managerVars, totalBorrowed, allocation, paused>>

-----------------------------------------------------------------------------
(* What goes on around the controller.                                     *)
DepositorCall ==
  /\ \E u \in Users, amount \in Amounts : V!Deposit(u, amount) \/ V!Withdraw(u, amount)
  /\ UNCHANGED <<managerVars, totalBorrowed, controllerVars>>

PoolLends ==
  /\ totalBorrowed' \in Lent \ {totalBorrowed}
  /\ UNCHANGED <<svars, vaultVars, tokens, controllerVars>>

ManagerCall ==
  /\ StrategyCall
  /\ UNCHANGED <<vaultVars, tokens, totalBorrowed, controllerVars>>

Tick ==
  /\ V!Tick
  /\ UNCHANGED <<managerVars, totalBorrowed, controllerVars>>

Next ==
  \/ \E new \in Shares : UpdateAllocation(new)
  \/ Pause
  \/ Unpause
  \/ AllocateFunds
  \/ DepositorCall
  \/ PoolLends
  \/ ManagerCall
  \/ Tick

Spec == Init /\ [][Next]_vars

-----------------------------------------------------------------------------
(* FundsAllocated is written only when both targets are already met, and   *)
(* allocating then moves nothing: the controller, which never deposits,    *)
(* has nothing in the vault to withdraw, so that an allocation that has    *)
(* anything to move reverts, and no depositor's money ends up with the     *)
(* controller, from which no function could send it on (allocateFunds).    *)
AllocatedMeansMet ==
  [][fundsAllocated' # fundsAllocated =>
       /\ fundsAllocated'.toLending <= totalBorrowed
       /\ fundsAllocated'.toFarming <= GetTotalDeployed
       /\ UNCHANGED <<deposits, tokens>>]_vars
=============================================================================
