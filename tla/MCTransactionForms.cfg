SPECIFICATION Spec
CONSTANTS
  Amounts <- MCAmounts
  Pledges = {1}
  DepositScale = 4
  Unlimited = 9
  Caps = {1}
  Start <- MCStart
  MaxClaim = 2
  MaxChecks = 1
  MaxTimers = 2
INVARIANTS ConfirmedMeansDone FreshFormsAreAllowed SettledIsFresh
PROPERTY ApprovalLeadsOn
CHECK_DEADLOCK FALSE
