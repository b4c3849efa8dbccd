SPECIFICATION Spec
CONSTANTS
  w1 = w1 w2 = w2
  k1 = k1 k2 = k2 b1 = b1 b2 = b2 u1 = u1 u2 = u2
  root = root sub = sub s1 = s1 s2 = s2
  Workers = {w1, w2}
  Keys = {k1}
  Stripes = {s1}
  Stripe <- OneStripe
  Dirs <- MCDirs
  Root = root
  Dir <- MCDir
  Bodies = {b1, b2}
  Users = {u1, u2}
  DefaultUser = u1
  ACLs = {"private", "public-read"}
  Requests <- AclAndPut
  Legacy = {}
  Crashes = FALSE
  DiskFaults = FALSE
  None = None
  Torn = Torn
  NoWorker = NoWorker
  Star = Star
INVARIANT
  SettledPair
