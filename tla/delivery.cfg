\* Claims, reassignments and deliveries of two covered orders by two runners.
SPECIFICATION Spec
CONSTANTS
  o1 = o1  o2 = o2  o3 = o3  o4 = o4  o5 = o5  o6 = o6
  milk = milk  bread = bread  ann = ann  bob = bob  welcome = welcome  offer = offer  r1 = r1  r2 = r2
  Order = {o1, o2}
  Product = {milk}
  Customer = {ann, bob}
  Runner = {r1, r2}
  NoRunner = NoRunner
  Owner <- CarriedOwner
  Cart <- CarriedCart
  Price <- CarriedPrice
  Fee = 1
  Discount <- CarriedOff
  UsesWallet <- CarriedWallet
  Stock <- CarriedStock
  Balance <- CarriedPurse
  Call = {c1}
  NoOrder = NoOrder
  MaxQueue = 3
  Promo = {}
  NoPromo = NoPromo
  PromoOf <- CarriedPromo
  Credit <- NoCredit
  MaxUses <- NoCredit
  PerUser = 0
  Event = {}
  Shortage = {}
  Desk = {}
  RefundKey = {}
  PartialAmount = {}
  OpenFlag = {TRUE}
  QueueLimit = {}
  Count = {}
  Correctable = {}
  Admin = Admin
  Claim = {j1, j2}
  NoClaim = NoClaim
  Code = {x1, x2}
  NoCode = NoCode
  MaxAttempts = 1
INVARIANTS
  OneLiveJobEach
  LiveJobsCanFinish
  NoStrayAssignment
  EarningsMatchDeliveries
PROPERTIES
  OnlyAdminSwapsRunner
SYMMETRY Alike
