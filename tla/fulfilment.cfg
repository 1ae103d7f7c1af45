\* Webhooks in any order against the sweep and the packer, who misses items, while shelves are recounted.
SPECIFICATION FairSpec
CONSTANTS
  o1 = o1  o2 = o2  o3 = o3  o4 = o4  o5 = o5  o6 = o6
  milk = milk  bread = bread  ann = ann  bob = bob  welcome = welcome  offer = offer  r1 = r1  r2 = r2
  Order = {o1, o2}
  Product = {milk, bread}
  Customer = {ann, bob}
  Runner = {}
  NoRunner = NoRunner
  Owner <- PaidOwner
  Cart <- PaidCart
  Price <- PaidPrice
  Fee = 1
  Discount <- PaidOff
  UsesWallet <- PaidWallet
  Stock <- PaidStock
  Balance <- PaidPurse
  Call = {c1}
  NoOrder = NoOrder
  MaxQueue = 3
  Promo = {}
  NoPromo = NoPromo
  PromoOf <- PaidPromo
  Credit <- NoCredit
  MaxUses <- NoCredit
  PerUser = 0
  Event <- AnyEvent
  Shortage <- SomeMissed
  Desk = {}
  RefundKey = {}
  PartialAmount = {}
  OpenFlag = {TRUE, FALSE}
  QueueLimit = {}
  Count = {0, 2, 4}
  Correctable = {milk}
  Admin = Admin
  Claim = {}
  NoClaim = NoClaim
  Code = {}
  NoCode = NoCode
  MaxAttempts = 1
INVARIANTS
  ReservationCoversHeld
  ReservationIsHeld
  ShelfIsAccounted
  PaymentStatusCopyAgrees
  MoneyBalances
PROPERTIES
  PaymentWaitEnds
