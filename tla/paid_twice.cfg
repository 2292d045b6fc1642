SPECIFICATION Spec
CONSTANTS
  alice = alice
  bob = bob
  carol = carol
  wallet = wallet
  fund = fund
  purse = purse
  NoOne = NoOne
  Address <- MCAddress
  Genesis <- MCGenesis
  Transactions <- MCTransactions
  Delays = {1}
  StartTime = 2
  MaxTransactions = 2
  MaxBlocks = 3
  MaxOpen = 1
  Syncing = FALSE
INVARIANT BlocksValidate
