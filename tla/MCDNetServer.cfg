SPECIFICATION FairSpec
CONSTANTS
  Channels = {1, 2}
  AuthChannel = 1
  WorldChannel = 2
  MinBody <- MinBodyLen
  Users = {"test", "kim"}
  Passwords = {"test", "pw"}
  TestUser = "test"
  TestPassword = "test"
  NoUser = "nobody"
  NoSession = "none"
  HeaderLen = 2
  ValidFrames <- Messages
  BadFrames <- Bad
  MaxFrames = 3
  MaxChunks = 1
  MaxRest = 3
INVARIANTS
  ChannelsKeepOrder
PROPERTIES
  ImplementsFrameServer
  EveryFrameHandled
CHECK_DEADLOCK FALSE
