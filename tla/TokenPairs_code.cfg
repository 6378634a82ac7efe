SPECIFICATION PairSpec
CONSTANTS
  Contracts = {c1}
  Vouchers = {v1, v2}
  SingleHop = {v1}
  Wrapped = w
INVARIANT ListedHasCode
