SPECIFICATION Spec
CONSTANTS
  NGN = NGN
  USD = USD
  JPY = JPY
  Currencies = {NGN, USD, JPY}
  Digits <- MCDigits
  RateTables <- MCRateTables
  SpreadBps = 200
  Precision = 4
  MaxAmount = 20
  Wallets <- MCWallets
INVARIANTS
  TypeOK
  PaymentsAreBounded
PROPERTY NoMoneyMade
CHECK_DEADLOCK FALSE
