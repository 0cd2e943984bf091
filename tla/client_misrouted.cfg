SPECIFICATION Spec
CONSTANTS
  t1 = t1  t2 = t2  ta = ta  tb = tb  tc = tc
  Tasks = {t1, t2}
  Starter = t1
  Topics = {ta, tb}
  Wants <- WantsOne
  Blocks = {b1}
  Calls = {"sub", "unsub"}
  MaxTopics = 2
  QueueCap = 1
  MaxNesting = 1
  NoTask = NoTask  NoTopic = NoTopic  NoBlock = NoBlock  NoMsg = NoMsg
  TCPIP = TCPIP
INVARIANT ToSubscriber
