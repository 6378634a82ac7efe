SPECIFICATION MCSpec
CONSTANTS
  Granters = {o}
  Grantees = {s}
  MsgTypes = {"MsgSend", "MsgTransfer", "MsgDelegate", "MsgUndelegate",
              "MsgBeginRedelegate", "MsgCancelUnbondingDelegation"}
  MaxInt = 3
  ApprovalExpiration = 2
  MaxTime = 3
  NoGrant = NoGrant
  Tokens = {t1, t2}
  Channels = {c1, c2}
  Denoms = {d1, d2}
  OpenChannels = {c1, c2}
  Channel = c1
  Denom = d1
  Validators = {v1, v2}
  Jailable = {v1}
INVARIANTS
  StoredGrantsAreValid
PROPERTIES
  
  ImplementsAllowances
VIEW View
CHECK_DEADLOCK FALSE
