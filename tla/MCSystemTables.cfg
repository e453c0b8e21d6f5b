SPECIFICATION Spec
CONSTANTS
  u1 = u1  u2 = u2  u3 = u3
  w1 = w1  w2 = w2
  t1 = t1  t2 = t2
  Units = {u1, u2, u3}
  Addrs = {w1, w2}
  Local <- MCLocal
  Freqs = {1, 2}
  Tgids = {t1, t2}
  TagSet = {t1}
  NoUnit = NoUnit
  NoAddr = NoAddr
  NoTg = NoTg
  NoPatch = NoPatch
CHECK_DEADLOCK FALSE
INVARIANTS TypeOK TablesAgree
PROPERTIES LookupsResolve
