SPECIFICATION FulfilmentSpec
CONSTANTS
  shopper = shopper
  seller = seller
  v1 = v1
  b1 = b1
  o1 = o1
  r1 = r1
  r2 = r2
  f1 = f1
  f2 = f2
  s1 = s1
  NoOne = NoOne
  Users = {shopper, seller}
  Admins = {}
  Buyers = {shopper}
  Variants = {v1}
  Brands = {b1}
  BrandOf <- MCBrandOf
  OwnerOf <- MCOwnerOf
  OrderIds = {o1}
  Requests = {r1, r2}
  InitialStock <- MCStock
  Price <- MCPrice
  RefundIds = {f1, f2}
  ShipmentIds = {s1}
  RefundAmounts = {1, 2}
  Adjustments = {}
  MaxQuantity = 1
  MaxStock = 0
  MaxReturns = 2
SYMMETRY Symmetries
INVARIANTS
  FulfilmentTypeOK
  NothingForUnpaid
  RefundsExplained
  ReturnedTwiceNeedsMishap
CHECK_DEADLOCK FALSE
