SPECIFICATION Spec
CONSTANTS
  shopper = shopper
  seller = seller
  v1 = v1
  v2 = v2
  b1 = b1
  b2 = b2
  o1 = o1
  o2 = o2
  r1 = r1
  r2 = r2
  NoOne = NoOne
  Users = {shopper, seller}
  Admins = {}
  Buyers = {shopper}
  Variants = {v1, v2}
  Brands = {b1, b2}
  BrandOf <- MCBrandOf
  OwnerOf <- MCOwnerOf
  OrderIds = {o1, o2}
  Requests = {r1, r2}
  InitialStock <- MCStock
  Adjustments <- MCAdjustments
  MaxQuantity = 1
  MaxStock = 0
  MaxReturns = 2
SYMMETRY RequestSymmetry
INVARIANTS
  TypeOK
  StockMatchesLedger
  OversellBounded
  CancelledIsReturned
  ReturnedTwiceNeedsMishap
CHECK_DEADLOCK FALSE
