SPECIFICATION FairBridgeSpec
CONSTANTS
  c1 = c1
  c2 = c2
  Clients <- TwoClients
  NoClient = NoClient
  MaxBuffered = 2
  Grace = 2
  MaxWrites = 2
  MaxReplies = 3
PROPERTIES BridgeIsPort NeverWedged
