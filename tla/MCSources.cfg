SPECIFICATION Spec
CONSTANTS
  p = p
  v = v
  plain = plain
  off = off
  xtcp = xtcp
  vnet = vnet
  bad = bad
  Nil = Nil
  Torn = Torn
  c1 = c1
  c2 = c2
  Callers = {c1, c2}
  ProxyNames = {p}
  VisitorNames = {v}
  Garbled = Garbled
  Settings <- SettingsDef
  Disabled <- DisabledDef
  Unsound <- UnsoundDef
  Xtcp <- XtcpDef
  VnetUsers <- VnetDef
  Files <- FilesDef
  MaxCalls = 3
  MaxCrashes = 1
INVARIANT StoreDurable AppliedIsAggregated
SYMMETRY CallersAlike
CHECK_DEADLOCK FALSE
