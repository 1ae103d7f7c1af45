\* One paid order through everything that can happen to it, two refund calls at a time.
SPECIFICATION Spec
CONSTANTS
  o1 = o1  o2 = o2  o3 = o3  o4 = o4  o5 = o5  o6 = o6
  milk = milk  bread = bread  ann = ann  bob = bob  welcome = welcome  offer = offer  r1 = r1  r2 = r2
  Order = {o1}
  Product = {milk}
  Customer = {ann, bob}
  Runner = {r1}
  NoRunner = NoRunner
  Owner <- JourneyOwner
  Cart <- JourneyCart
  Price <- JourneyPrice
  Fee = 1
  Discount <- JourneyOff
  UsesWallet <- JourneyWallet
  Stock <- JourneyStock
  Balance <- JourneyPurse
  Call = {c1}
  NoOrder = NoOrder
  MaxQueue = 3
  Promo = {}
  NoPromo = NoPromo
  PromoOf <- JourneyPromo
  Credit <- NoCredit
  MaxUses <- NoCredit
  PerUser = 0
  Event <- FirstCapture
  Shortage <- JourneyMissed
  Desk = {d1, d2}
  RefundKey = {k1, k2}
  PartialAmount = {1}
  OpenFlag = {TRUE}
  QueueLimit = {}
  Count = {}
  Correctable = {}
  Admin = Admin
  Claim = {j1}
  NoClaim = NoClaim
  Code = {x1}
  NoCode = NoCode
  MaxAttempts = 1
INVARIANTS
  TypeOK
  MoneyBalances
  ReservationIsHeld
PROPERTIES
  FollowsTheStateMachine
  EachKeyPaysOnce
