CONSTANTS
  Client = {c1, c2}
  SendCap = 1
  MaxMsgs = 1
SPECIFICATION FairSpec
PROPERTIES
  EndedIsReaped
  DeliveredOrDisconnected
  ReadIsBroadcast
