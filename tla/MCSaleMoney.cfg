SPECIFICATION Spec
CONSTANTS
  Prices <- SmallPrices
  Rates <- PlatformRates
  LastDay = 52
CHECK_DEADLOCK FALSE
INVARIANTS
  PriceConserved
  EscrowConserved
  DeductionExact
  LedgerTellsLateness
PROPERTY
  LatenessNeverPays
