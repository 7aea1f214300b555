SPECIFICATION FairSpec
CONSTANTS
  Clients = {audio, pad}
  PacketCount = 3
  Attempts = 2
  CallNos = 2
  TimeoutCap = 2
INVARIANTS TypeOK QuietBetweenRequests ReplyIsOwn PacketOwned
PROPERTIES BoundStays EveryRequestReturns
