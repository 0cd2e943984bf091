SPECIFICATION Spec
CONSTANTS
  t1 = t1  t2 = t2  ta = ta  tb = tb  tc = tc
  Tasks = {t1, t2}
  Starter = t1
  Topics = {ta, tb, tc}
  Wants <- WantsApp
  Blocks = {b1, b2, b3}
  Calls = {"sub", "publish"}
  MaxTopics = 2
  QueueCap = 2
  MaxNesting = 2
  NoTask = NoTask  NoTopic = NoTopic  NoBlock = NoBlock  NoMsg = NoMsg
  TCPIP = TCPIP
SYMMETRY BlockSymmetry
INVARIANTS Routed IdxFresh
INVARIANTS NoAliasing
PROPERTIES ImplementsMailboxes
