SPECIFICATION Spec
CONSTANTS
  validator = validator
  p1 = p1
  p2 = p2
  n1 = n1
  n2 = n2
  Hotkeys <- MCHotkeys
  Owner = validator
  Netuids <- MCNetuids
  Processes = {p1}
  Prices <- MCPrices
  Balances <- MCBalances
  Reserve = 1
  MAX_SUBNET_CREATION_REVIEW_COST = 2
  MAX_CREATION_WALLET_BALANCE = 3
  MAX_TESTNET_BUDGET = 5
  NoPrice = NoPrice
  NoPlan = NoPlan
  NoReceipt = NoReceipt
  NoSubnet = NoSubnet
  MaxAge = 2
  MaxLag = 1
  MaxSigned = 2
  MaxReceived = 1
  MaxBlock = 3
CHECK_DEADLOCK FALSE
INVARIANT
  AtMostOneSubnet
