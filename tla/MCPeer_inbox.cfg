CONSTANTS
  h1 = h1
  h2 = h2
  s1 = s1
  s2 = s2
  Hosts = {h1, h2}
  Sessions = {s1, s2}
  First <- Opened
  Policy <- Policies
  Senders = {h1}
  Users = {h2}
  MaxRuntimes = 3
  MaxMessages = 2
  MaxFaults = 1
  QueueSize = 1
  Batch = 1
  None = None
SPECIFICATION FairSpec
INVARIANTS
  MessagesArriveOnceAtHome
  SendersKnowTheTruth
PROPERTIES
  QueuesAreServed
CHECK_DEADLOCK FALSE
