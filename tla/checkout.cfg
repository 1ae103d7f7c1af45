\* create_order calls racing for stock, promos, wallet and the queue.
SPECIFICATION Spec
CONSTANTS
  o1 = o1  o2 = o2  o3 = o3  o4 = o4  o5 = o5  o6 = o6
  milk = milk  bread = bread  ann = ann  bob = bob  welcome = welcome  offer = offer  r1 = r1  r2 = r2
  Order = {o1, o2, o3, o4, o5, o6}
  Product = {milk}
  Customer = {ann, bob}
  Runner = {}
  NoRunner = NoRunner
  Owner <- CheckoutOwner
  Cart <- CheckoutCart
  Price <- CheckoutPrice
  Fee = 1
  Discount <- CheckoutOff
  UsesWallet <- CheckoutWallet
  Stock <- CheckoutStock
  Balance <- CheckoutPurse
  Call = {c1, c2}
  NoOrder = NoOrder
  MaxQueue = 2
  Promo = {welcome, offer}
  NoPromo = NoPromo
  PromoOf <- CheckoutPromo
  Credit <- CheckoutCredit
  MaxUses <- CheckoutUses
  PerUser = 1
  Event = {}
  Shortage = {}
  Desk = {}
  RefundKey = {}
  PartialAmount = {}
  OpenFlag = {TRUE, FALSE}
  QueueLimit = {0, 1, 3}
  Count = {}
  Correctable = {}
  Admin = Admin
  Claim = {}
  NoClaim = NoClaim
  Code = {}
  NoCode = NoCode
  MaxAttempts = 1
INVARIANTS
  ReservationCoversHeld
  PromoLimitsHold
  QueueOvershootBounded
