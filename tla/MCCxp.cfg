CONSTANTS
  m = m  r = r  w = w  x = x  y = y  u0 = u0  u1 = u1  i0 = i0  i1 = i1
  c1 = c1  c2 = c2  c3 = c3  c4 = c4  va = va  vb = vb  vc = vc  U0 = U0
  NoProc = NoProc  NoVal = NoVal  NullRead = NullRead
  Procs = {m, r, w, x, y}
  Chans = {c1, c2, c3, c4}
  InitPU = u0
  Parent = m
  Runner = "placed_par"
  PUs <- MCPUs
  IdleOf <- MCIdleOf
  Pri <- MCPriEqual
  Pun <- MCPun
  Prog <- ProgAlt
  Children <- MCChildrenAlt
  MaxTime = 0
  UserIntrs = {}

SPECIFICATION Spec
INVARIANTS TypeOK QueuedOnce NoLostProcess AltNeverFails ParentAfterChildren SelectsFirstReady IpqSignalled ChanMutexHeldInSection
PROPERTIES RefinesRendezvous AllDone
