SPECIFICATION Spec
CONSTANTS
  Clients = {audio, pad}
  PacketCount = 2
  Attempts = 2
  CallNos = 3
  TimeoutCap = 1
PROPERTIES CallIsSynchronous
