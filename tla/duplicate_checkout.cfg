\* Two create_order calls with one key: the loser's reservation stays.
SPECIFICATION Spec
CONSTANTS
  o1 = o1  o2 = o2  o3 = o3  o4 = o4  o5 = o5  o6 = o6
  milk = milk  bread = bread  ann = ann  bob = bob  welcome = welcome  offer = offer  r1 = r1  r2 = r2
  Order = {o1, o2}
  Product = {milk, bread}
  Customer = {ann, bob}
  Runner = {}
  NoRunner = NoRunner
  Owner <- PaidOwner
  Cart <- PaidCart
  Price <- PaidPrice
  Fee = 1
  Discount <- PaidOff
  UsesWallet <- PaidWallet
  Stock <- PaidStock
  Balance <- PaidPurse
  Call = {c1, c2}
  NoOrder = NoOrder
  MaxQueue = 3
  Promo = {}
  NoPromo = NoPromo
  PromoOf <- PaidPromo
  Credit <- NoCredit
  MaxUses <- NoCredit
  PerUser = 0
  Event = {}
  Shortage = {}
  Desk = {}
  RefundKey = {}
  PartialAmount = {}
  OpenFlag = {TRUE}
  QueueLimit = {}
  Count = {}
  Correctable = {}
  Admin = Admin
  Claim = {}
  NoClaim = NoClaim
  Code = {}
  NoCode = NoCode
  MaxAttempts = 1
INVARIANTS
  ReservationIsHeld
