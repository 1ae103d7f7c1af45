\* One order on the customer's screen while it goes through its life.
CONSTANTS
  Order = {k1}
  NoOrder = NoOrder
  Nothing = Nothing
SPECIFICATION FairSpec
INVARIANT PaymentShownIsNoOlder
PROPERTY EndIsShown
