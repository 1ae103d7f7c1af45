\* A customer's checkouts: retries, lost answers, answers that come late.
CONSTANTS
  Product = {milk}
  MaxQty = 1
  Pending = Pending
  Order = {k1, k2}
  NoOrder = NoOrder
  Address = {home}
  NoAddress = NoAddress
  Code = {}
  NoCode = NoCode
  WalletBalance = 1
  NoVisit = NoVisit
  MaxCalls = 2
SYMMETRY Alike
SPECIFICATION Spec
INVARIANTS OneOrderPerAttempt OpensWhatWasAsked
